--------------------------- MODULE RawConnProofs ----------------------------
(***************************************************************************)
(* Theorems about RawConn, for every buffer size, workload and number of   *)
(* connections.  The inductive invariant says where the goroutine is in    *)
(* the client's stream: buf[pos:used] holds the cells received since the   *)
(* start of the request being served, in order.                            *)
(***************************************************************************)
EXTENDS RawConn, TLAPS

Serving == pc # "idle"
InBody == pc \in {"body", "readBody", "write"}

\* The buffer has one of the two sizes doubling can give it.
Sizes == {ReadBufSize, MaxRequestSize}
BufferSizes == buf.len \in Sizes /\ \A b \in pool : b.len \in Sizes

Window == pos <= used /\ used <= buf.len

Counts ==
  Serving => /\ next <= work.n + 1
             /\ rcvd <= sent /\ sent <= work.start[work.n + 1]
             /\ rcvd - (used - pos) = work.start[next]

Framed ==
  Serving => \A i \in pos .. used - 1 : buf.at[i] = <<conn, rcvd - used + i>>

Parsed ==
  InBody => /\ next <= work.n
            /\ headEnd = pos + work.head[next] /\ headEnd <= used
            /\ bodyEnd = headEnd + work.body[next]
            /\ ~Oversized(next)

Routed ==
  pc = "write" => /\ bodyEnd <= used
                  /\ resp.body = Expected(conn, work, next).body

PathInside == pc \in {"body", "readBody"} /\ path.live => path.at < buf.len

Idle == pc = "idle" => used = 0 /\ pos = 0

Pooled == pc = "idle" /\ conn > 0 => buf \in pool

IInv ==
  /\ TypeOK /\ BufferSizes /\ Window /\ Counts /\ Framed /\ Parsed /\ Routed
  /\ PathInside /\ Idle /\ Pooled /\ ReadHasRoom /\ BodiesMatch /\ ClosedForCause

-----------------------------------------------------------------------------
(* Facts about workloads.                                                  *)

\* The typing of a workload, and the positions its requests start at.
LEMMA WorkTypes ==
  ASSUME NEW w \in Workloads
  PROVE  /\ w.n \in Nat
         /\ \A k \in 1 .. w.n + 1 : w.start[k] \in Nat
         /\ w.start[1] = 0
         /\ \A k \in 1 .. w.n :
              /\ w.head[k] \in Nat /\ w.body[k] \in Nat /\ w.head[k] >= 3
              /\ w.start[k + 1] = w.start[k] + w.head[k] + w.body[k]
         /\ \A j, k \in 1 .. w.n + 1 : j <= k => w.start[j] <= w.start[k]
BY RawConnAssumption DEF WellFormed, MinHead

\* Requests do not overlap: the last cell of a head, the Content-Length cell
\* and the end of the body of a request lie before every later request.
LEMMA RequestsApart ==
  ASSUME NEW w \in Workloads, NEW j \in 1 .. w.n, NEW k \in 1 .. w.n, j < k
  PROVE  /\ w.start[j] + w.head[j] + w.body[j] <= w.start[k]
         /\ HeadLast(w, j) < w.start[k]
         /\ w.start[j] + LengthAt < w.start[k]
<1>1. w.n \in Nat BY WorkTypes
<1>2. j + 1 \in 1 .. w.n + 1 /\ j \in 1 .. w.n + 1 /\ k \in 1 .. w.n + 1 /\ j + 1 <= k
  BY <1>1
<1>3. /\ w.start[j] \in Nat /\ w.start[k] \in Nat /\ w.start[j + 1] <= w.start[k]
      /\ w.start[j + 1] = w.start[j] + w.head[j] + w.body[j]
      /\ w.head[j] \in Nat /\ w.head[j] >= 3 /\ w.body[j] \in Nat
  BY <1>2, WorkTypes
<1>4. QED BY <1>3 DEF HeadLast, LengthAt

-----------------------------------------------------------------------------
(* Where the search for the empty line ends.                               *)

\* Typing facts about the request being received, used everywhere below.
LEMMA Here ==
  ASSUME IInv, Serving
  PROVE  /\ next \in Nat /\ next >= 1 /\ next <= work.n + 1
         /\ work \in Workloads /\ work.n \in Nat
         /\ pos \in Nat /\ used \in Nat /\ pos <= used /\ used <= buf.len
         /\ rcvd \in Nat /\ sent \in Nat /\ rcvd <= sent
         /\ sent <= work.start[work.n + 1]
         /\ work.start[next] \in Nat /\ rcvd - (used - pos) = work.start[next]
         /\ \A i \in pos .. used - 1 : buf.at[i] = <<conn, rcvd - used + i>>
<1>1. work \in Workloads /\ work.n \in Nat /\ next \in Nat /\ next >= 1
  BY WorkTypes DEF IInv, TypeOK, next
<1>2. next <= work.n + 1 BY DEF IInv, Counts
<1>3. work.start[next] \in Nat BY <1>1, <1>2, WorkTypes
<1>4. QED BY <1>1, <1>2, <1>3 DEF IInv, TypeOK, Window, Counts, Framed

\* A buffered cell of the window that is the head's last cell of request k
\* belongs to the request being received or to a later one.
LEMMA InWindow ==
  ASSUME IInv, Serving, NEW k \in 1 .. work.n, NEW i \in pos .. used - 1,
         NEW off \in Nat, off < work.head[k],
         buf.at[i] = <<conn, work.start[k] + off>>
  PROVE  next <= k /\ work.start[k] + off = rcvd - used + i
<1>1. work.start[k] + off = rcvd - used + i BY Here
<1>2. work.start[k] + off >= work.start[next] BY <1>1, Here
<1>3. ASSUME k < next PROVE FALSE
  <2>1. k + 1 \in 1 .. work.n + 1 /\ next \in 1 .. work.n + 1 /\ k + 1 <= next
    BY <1>3, Here
  <2>2. /\ work.start[k + 1] <= work.start[next]
        /\ work.start[k + 1] = work.start[k] + work.head[k] + work.body[k]
        /\ work.start[k] \in Nat /\ work.head[k] \in Nat /\ work.body[k] \in Nat
    BY <2>1, WorkTypes, Here
  <2>3. QED BY <1>2, <2>2, Here
<1>4. QED BY <1>1, <1>3, Here

\* The first empty line is the end of the head being received, and the only
\* Content-Length field before it is that request's own.
LEMMA HeaderEndIsOwn ==
  ASSUME IInv, pc = "header", NEW end, FirstHeaderEnd(end)
  PROVE  /\ next <= work.n
         /\ end = pos + work.head[next] /\ end <= used
         /\ ContentLength(pos, end) = work.body[next]
<1> USE DEF Serving
<1>1. /\ end \in pos + 1 .. used /\ \A j \in HeaderEnds : end <= j
      /\ \E k \in 1 .. work.n : buf.at[end - 1] = <<conn, HeadLast(work, k)>>
  BY DEF FirstHeaderEnd, HeaderEnds
<1>2. PICK k \in 1 .. work.n : buf.at[end - 1] = <<conn, HeadLast(work, k)>>
  BY <1>1
<1>3. /\ work.head[k] \in Nat /\ work.head[k] >= 3 /\ work.start[k] \in Nat
      /\ k \in Nat /\ end \in Nat /\ end - 1 \in pos .. used - 1
  BY <1>1, Here, WorkTypes
<1>4. next <= k /\ HeadLast(work, k) = rcvd - used + (end - 1)
  <2>1. HeadLast(work, k) = work.start[k] + (work.head[k] - 1) BY <1>3 DEF HeadLast
  <2>2. work.head[k] - 1 \in Nat /\ work.head[k] - 1 < work.head[k] BY <1>3
  <2>3. buf.at[end - 1] = <<conn, work.start[k] + (work.head[k] - 1)>> BY <1>2, <2>1
  <2>4. next <= k /\ work.start[k] + (work.head[k] - 1) = rcvd - used + (end - 1)
    BY <1>3, <2>2, <2>3, InWindow
  <2>5. QED BY <2>1, <2>4
<1>5. next \in 1 .. work.n BY <1>4, Here
<1>6. work.head[next] \in Nat /\ work.head[next] >= 3 /\ work.body[next] \in Nat
  BY <1>5, WorkTypes, Here
<1>7. ASSUME next < k PROVE FALSE
  <2> DEFINE j == pos + work.head[next]
  <2>1. HeadLast(work, next) < work.start[k] BY <1>5, <1>7, RequestsApart, Here
  <2>2. HeadLast(work, next) = work.start[next] + work.head[next] - 1 BY DEF HeadLast
  <2>3. j \in pos + 1 .. used /\ j < end
    BY <1>3, <1>4, <1>6, <2>1, <2>2, Here DEF HeadLast
  <2>4. j - 1 \in pos .. used - 1 /\ rcvd - used + (j - 1) = HeadLast(work, next)
    BY <2>2, <2>3, <1>6, Here
  <2>5. buf.at[j - 1] = <<conn, HeadLast(work, next)>> BY <2>4, Here
  <2>6. j \in HeaderEnds BY <2>3, <2>5, <1>5 DEF HeaderEnds
  <2>7. QED BY <1>1, <1>3, <2>3, <2>6, Here
<1>8. k = next BY <1>4, <1>7, <1>3, Here
<1>9. end = pos + work.head[next] BY <1>4, <1>8, <1>6, <1>3, Here DEF HeadLast
<1>10. Declaring(pos, end) = {next}
  <2>1. ASSUME NEW d \in Declaring(pos, end) PROVE d = next
    <3>1. PICK i \in pos .. end - 1 : buf.at[i] = <<conn, work.start[d] + LengthAt>>
      BY <2>1 DEF Declaring
    <3>2. d \in 1 .. work.n /\ i \in pos .. used - 1 /\ i < pos + work.head[next]
      BY <1>1, <1>3, <1>9, <3>1, Here DEF Declaring
    <3>3. /\ work.head[d] \in Nat /\ work.head[d] >= 3 /\ work.start[d] \in Nat /\ d \in Nat
      BY <3>2, WorkTypes, Here
    <3>4. next <= d /\ work.start[d] + LengthAt = rcvd - used + i
      BY <3>1, <3>2, <3>3, InWindow DEF LengthAt
    <3>5. ASSUME next < d PROVE FALSE
      <4>1. work.start[next] + work.head[next] + work.body[next] <= work.start[d]
        BY <1>5, <3>2, <3>5, RequestsApart, Here
      <4>2. QED BY <1>6, <3>2, <3>3, <3>4, <4>1, Here DEF LengthAt
    <3>6. QED BY <3>3, <3>4, <3>5, Here
  <2>2. next \in Declaring(pos, end)
    <3>1. pos + LengthAt \in pos .. end - 1 /\ pos + LengthAt \in pos .. used - 1
      BY <1>1, <1>3, <1>6, <1>9, Here DEF LengthAt
    <3>2. buf.at[pos + LengthAt] = <<conn, work.start[next] + LengthAt>>
      <4>1. rcvd - used + (pos + LengthAt) = work.start[next] + LengthAt
        BY Here DEF LengthAt
      <4>2. QED BY <3>1, <4>1, Here
    <3>3. QED BY <1>5, <3>1, <3>2 DEF Declaring
  <2>3. QED BY <2>1, <2>2
<1>11. ContentLength(pos, end) = work.body[next]
  <2>1. (CHOOSE d \in {next} : \A j \in {next} : d <= j) = next BY Here
  <2>2. QED BY <1>10, <2>1 DEF ContentLength
<1>12. QED BY <1>1, <1>5, <1>9, <1>11, Here

\* As long as no empty line is found the head is incomplete, and once every
\* request is answered nothing is buffered.
LEMMA NoHeaderEnd ==
  ASSUME IInv, pc = "header", HeaderEnds = {}
  PROVE  /\ next = work.n + 1 => used = pos
         /\ next <= work.n => used - pos < work.head[next]
<1> USE DEF Serving
<1>1. ASSUME next = work.n + 1 PROVE used = pos BY <1>1, Here
<1>2. ASSUME next <= work.n, used - pos >= work.head[next] PROVE FALSE
  <2> DEFINE j == pos + work.head[next]
  <2>1. next \in 1 .. work.n BY <1>2, Here
  <2>2. work.head[next] \in Nat /\ work.head[next] >= 3 BY <2>1, WorkTypes, Here
  <2>3. j \in pos + 1 .. used /\ j - 1 \in pos .. used - 1 BY <1>2, <2>2, Here
  <2>4. rcvd - used + (j - 1) = HeadLast(work, next) BY <2>2, Here DEF HeadLast
  <2>5. buf.at[j - 1] = <<conn, HeadLast(work, next)>> BY <2>3, <2>4, Here
  <2>6. j \in HeaderEnds BY <2>1, <2>3, <2>5 DEF HeaderEnds
  <2>7. QED BY <2>6
<1>3. ASSUME next <= work.n PROVE used - pos < work.head[next]
  <2>1. next \in 1 .. work.n BY <1>3, Here
  <2>2. work.head[next] \in Nat BY <2>1, WorkTypes, Here
  <2>3. QED BY <1>2, <1>3, <2>2, Here
<1>4. QED BY <1>1, <1>3
-----------------------------------------------------------------------------
(* What growing, compacting and filling do to a buffer.                    *)

Typed(b) == b.len \in Nat /\ b.at \in [0 .. b.len - 1 -> Cells]

\* A fresh byte and the absent path are cells of a buffer.
LEMMA ZeroCell == Zero \in Cells /\ NoPath \in [live : BOOLEAN, at : Nat, cell : Cells]
BY RawConnAssumption DEF Zero, Cells, NoPath

\* growBuf doubles the buffer and keeps its first n bytes.
LEMMA GrownOK ==
  ASSUME NEW b, Typed(b), NEW n \in Nat, n <= b.len
  PROVE  /\ Typed(Grown(b, n)) /\ Grown(b, n).len = 2 * b.len
         /\ \A i \in 0 .. n - 1 : Grown(b, n).at[i] = b.at[i]
BY ZeroCell DEF Typed, Grown

\* The copy to the front keeps the bytes from lo to hi, in order.
LEMMA CompactedOK ==
  ASSUME NEW b, Typed(b), NEW lo \in Nat, NEW hi \in Nat, lo <= hi, hi <= b.len
  PROVE  /\ Typed(Compacted(b, lo, hi)) /\ Compacted(b, lo, hi).len = b.len
         /\ \A i \in 0 .. hi - lo - 1 : Compacted(b, lo, hi).at[i] = b.at[lo + i]
<1> DEFINE n == hi - lo
<1>1. /\ b.len \in Nat /\ b.at \in [0 .. b.len - 1 -> Cells]
      /\ n \in Nat /\ n <= b.len /\ \A i \in 0 .. n - 1 : lo + i \in 0 .. b.len - 1
  BY DEF Typed
<1>2. Compacted(b, lo, hi) = [len |-> b.len,
                              at |-> [i \in 0 .. b.len - 1 |-> IF i < n THEN b.at[lo + i] ELSE b.at[i]]]
  BY DEF Compacted
<1>3. [i \in 0 .. b.len - 1 |-> IF i < n THEN b.at[lo + i] ELSE b.at[i]] \in [0 .. b.len - 1 -> Cells]
  BY <1>1
<1>4. \A i \in 0 .. n - 1 : i \in 0 .. b.len - 1 /\ i < n
  BY <1>1
<1> QED BY <1>1, <1>2, <1>3, <1>4 DEF Typed

\* A read puts the next bytes of the stream behind the unread ones.
LEMMA FilledOK ==
  ASSUME TypeOK, NEW lo \in Nat, NEW n \in Nat, lo + n <= buf.len
  PROVE  /\ Typed(Filled(buf, lo, n)) /\ Filled(buf, lo, n).len = buf.len
         /\ \A i \in 0 .. lo - 1 : Filled(buf, lo, n).at[i] = buf.at[i]
         /\ \A i \in lo .. lo + n - 1 : Filled(buf, lo, n).at[i] = <<conn, rcvd + i - lo>>
<1>1. buf.len \in Nat /\ buf.at \in [0 .. buf.len - 1 -> Cells] /\ rcvd \in Nat
      /\ conn \in 0 .. MaxConns
  BY DEF TypeOK
<1>2. ASSUME NEW i \in 0 .. buf.len - 1, lo <= i PROVE <<conn, rcvd + i - lo>> \in Cells
  BY <1>1, <1>2 DEF Cells
<1>3. Typed(Filled(buf, lo, n)) BY <1>1, <1>2 DEF Typed, Filled
<1>4. QED BY <1>1, <1>3 DEF Filled

\* A buffer from the pool has the size readBufSize.
LEMMA NewBufferOK == Typed(NewBuffer) /\ NewBuffer.len = ReadBufSize
BY ZeroCell, RawConnAssumption DEF Typed, NewBuffer
-----------------------------------------------------------------------------
(* The steps.                                                              *)

\* The invariant holds before the first connection.
LEMMA InitInv == Init => IInv
<1> SUFFICES ASSUME Init PROVE IInv OBVIOUS
<1> USE DEF Init
<1>1. TypeOK
  BY NewBufferOK, ZeroCell, RawConnAssumption DEF TypeOK, Typed, NoResp
<1>2. BufferSizes BY NewBufferOK DEF BufferSizes, Sizes
<1>3. Window BY NewBufferOK, RawConnAssumption DEF Window
<1>4. BodiesMatch BY DEF BodiesMatch
<1>5. Counts /\ Framed /\ Parsed /\ Routed BY DEF Counts, Framed, Parsed, Routed, Serving, InBody
<1>6. PathInside /\ Idle /\ Pooled /\ ReadHasRoom /\ ClosedForCause
  BY DEF PathInside, Idle, Pooled, ReadHasRoom, ClosedForCause
<1>7. QED BY <1>1, <1>2, <1>3, <1>4, <1>5, <1>6 DEF IInv

\* The client writes more of its stream.
LEMMA ClientSendInv == IInv /\ ClientSend => IInv'
<1> SUFFICES ASSUME IInv, ClientSend PROVE IInv' OBVIOUS
<1> USE DEF ClientSend, offsets
<1>1. Serving /\ work \in Workloads /\ work.n \in Nat /\ next \in Nat /\ next <= work.n + 1
  BY Here DEF Serving
<1>2. MaySend <= work.start[work.n + 1] /\ MaySend \in Nat
  <2>1. work.n + 1 \in 1 .. work.n + 1 BY <1>1
  <2>2. CASE next <= work.n
    <3>1. next + 1 \in 1 .. work.n + 1 BY <1>1, <2>2
    <3>2. QED BY <1>1, <2>1, <2>2, <3>1, WorkTypes DEF MaySend
  <2>3. CASE ~(next <= work.n) BY <1>1, <2>1, <2>3, WorkTypes DEF MaySend
  <2>4. QED BY <2>2, <2>3
<1>3. sent' \in Nat /\ sent' >= sent /\ sent' <= work.start[work.n + 1]
  <2>1. sent \in Nat /\ sent <= work.start[work.n + 1] /\ work.start[work.n + 1] \in Nat
    BY <1>1, Here, WorkTypes
  <2>2. sent' \in sent + 1 .. MaySend OBVIOUS
  <2>3. QED BY <2>1, <2>2, <1>2
<1>4. TypeOK' BY <1>3 DEF IInv, TypeOK
<1>5. Counts' BY <1>3, <1>1, Here DEF Counts, next
<1>6. BufferSizes' /\ Window' /\ PathInside' /\ Idle' /\ Pooled' /\ ReadHasRoom'
  BY DEF IInv, BufferSizes, Window, PathInside, Idle, Pooled, ReadHasRoom
<1>7. Framed' BY DEF IInv, Framed, Serving
<1>8. Parsed' BY DEF IInv, Parsed, InBody, next, Oversized
<1>9. Routed' BY DEF IInv, Routed, next
<1>10. BodiesMatch' BY DEF IInv, BodiesMatch
<1>11. ClosedForCause' BY DEF ClosedForCause
<1>12. QED BY <1>4, <1>5, <1>6, <1>7, <1>8, <1>9, <1>10, <1>11 DEF IInv

\* The client closes its end.
LEMMA ClientCloseInv == IInv /\ ClientClose => IInv'
<1> SUFFICES ASSUME IInv, ClientClose PROVE IInv' OBVIOUS
<1> USE DEF ClientClose, offsets
<1>1. TypeOK' BY DEF IInv, TypeOK
<1>2. BufferSizes' /\ Window' /\ PathInside' /\ Idle' /\ Pooled' /\ ReadHasRoom'
  BY DEF IInv, BufferSizes, Window, PathInside, Idle, Pooled, ReadHasRoom
<1>3. Counts' BY DEF IInv, Counts, Serving, next
<1>4. Framed' BY DEF IInv, Framed, Serving
<1>5. Parsed' BY DEF IInv, Parsed, InBody, next, Oversized
<1>6. Routed' BY DEF IInv, Routed, next
<1>7. BodiesMatch' BY DEF IInv, BodiesMatch
<1>8. ClosedForCause' BY DEF ClosedForCause
<1>9. QED BY <1>1, <1>2, <1>3, <1>4, <1>5, <1>6, <1>7, <1>8 DEF IInv

\* A connection is accepted and gets a buffer used by another before.
LEMMA AcceptInv == IInv /\ Accept => IInv'
<1> SUFFICES ASSUME IInv, Accept PROVE IInv' OBVIOUS
<1> USE DEF Accept, offsets
<1>1. conn' \in 0 .. MaxConns /\ work' \in Workloads
  BY RawConnAssumption DEF IInv, TypeOK
<1>2. Typed(buf') /\ buf'.len \in Sizes /\ pool' \subseteq pool
  BY NewBufferOK DEF IInv, TypeOK, BufferSizes, Typed, Sizes
<1>3. TypeOK' BY <1>1, <1>2 DEF IInv, TypeOK, Typed
<1>4. used = 0 /\ pos = 0 BY DEF IInv, Idle
<1>5. BufferSizes' /\ Window' BY <1>2, <1>4, RawConnAssumption DEF IInv, BufferSizes, Window, Sizes
<1>6. next' = 1 BY DEF next
<1>7. Counts'
  <2>1. work'.n \in Nat /\ work'.start[1] = 0 /\ work'.start[work'.n + 1] \in Nat
    BY <1>1, WorkTypes
  <2>2. QED BY <1>4, <1>6, <2>1 DEF Counts
<1>8. Framed' BY <1>4 DEF Framed
<1>9. QED
  BY <1>3, <1>5, <1>7, <1>8 DEF IInv, Parsed, Routed, PathInside, Pooled, Serving, InBody,
     ReadHasRoom, BodiesMatch, ClosedForCause, Idle

\* Every return: the peer has gone, or the next request is too large.
LEMMA ReturnInv ==
  ASSUME IInv, Serving, Return, client = "closed" \/ (next <= work.n /\ Oversized(next))
  PROVE  IInv'
<1> USE DEF Return, peer
<1>1. buf.len \in Sizes /\ buf.len <= MaxRequestSize
  BY RawConnAssumption DEF IInv, BufferSizes, Sizes
<1>2. pool' = pool \cup {buf} BY <1>1
<1>3. TypeOK' BY <1>2, ZeroCell DEF IInv, TypeOK, NoResp
<1>4. BufferSizes' /\ Pooled' BY <1>1, <1>2 DEF IInv, BufferSizes, Pooled
<1>5. Window' BY DEF IInv, Window, TypeOK
<1>6. BodiesMatch' BY DEF IInv, BodiesMatch
<1>7. ClosedForCause' BY DEF ClosedForCause, next, Oversized
<1>8. QED
  BY <1>3, <1>4, <1>5, <1>6, <1>7 DEF IInv, Counts, Framed, Parsed, Routed, PathInside,
     Serving, InBody, ReadHasRoom, Idle

\* The header does not fit: the loop gives up.
LEMMA HeaderTooLongInv == IInv /\ HeaderTooLong => IInv'
<1> SUFFICES ASSUME IInv, HeaderTooLong PROVE IInv' OBVIOUS
<1>1. pc = "header" /\ HeaderEnds = {} /\ pos = 0 /\ used >= MaxRequestSize /\ Return
  BY DEF HeaderTooLong
<1>2. MaxRequestSize \in Nat /\ MaxRequestSize > 0 BY RawConnAssumption
<1>3. next \in 1 .. work.n BY <1>1, <1>2, NoHeaderEnd, Here DEF Serving
<1>4. used < work.head[next] /\ work.head[next] \in Nat /\ work.body[next] \in Nat
  BY <1>1, <1>3, NoHeaderEnd, Here, WorkTypes DEF Serving
<1>5. Oversized(next) BY <1>1, <1>2, <1>4, Here DEF Oversized, Serving
<1>6. QED BY <1>1, <1>3, <1>5, ReturnInv, Here DEF Serving

\* The body announced does not fit: the loop gives up.
LEMMA BodyTooLongInv == IInv /\ (\E end \in HeaderEnds : BodyTooLong(end)) => IInv'
<1> SUFFICES ASSUME IInv, NEW end \in HeaderEnds, BodyTooLong(end) PROVE IInv' OBVIOUS
<1>1. pc = "header" /\ FirstHeaderEnd(end) /\ TooBig(end) /\ Return BY DEF BodyTooLong
<1>2. /\ next <= work.n /\ end = pos + work.head[next]
      /\ ContentLength(pos, end) = work.body[next]
  BY <1>1, HeaderEndIsOwn
<1>3. next \in 1 .. work.n /\ pos \in Nat BY <1>1, <1>2, Here DEF Serving
<1>4. work.head[next] \in Nat /\ work.body[next] \in Nat /\ MaxRequestSize \in Nat
  BY <1>1, <1>3, WorkTypes, Here, RawConnAssumption DEF Serving
<1>5. Oversized(next) BY <1>1, <1>2, <1>3, <1>4 DEF TooBig, Oversized
<1>6. QED BY <1>1, <1>2, <1>5, ReturnInv DEF Serving

\* A read or a write fails: the loop gives up.
LEMMA FailsInv == IInv /\ (ReadFails \/ WriteFails) => IInv'
BY ReturnInv DEF ReadFails, WriteFails, Serving

\* The end of a header is found in the bytes at hand.
LEMMA HeaderDoneInv == IInv /\ (\E end \in HeaderEnds : HeaderDone(end)) => IInv'
<1> SUFFICES ASSUME IInv, NEW end \in HeaderEnds, HeaderDone(end) PROVE IInv' OBVIOUS
<1> USE DEF HeaderDone, peer
<1>1. /\ next <= work.n /\ end = pos + work.head[next] /\ end <= used
      /\ ContentLength(pos, end) = work.body[next]
  BY HeaderEndIsOwn
<1>2. next \in 1 .. work.n /\ pos \in Nat BY <1>1, Here DEF Serving
<1>3. work.head[next] \in Nat /\ work.body[next] \in Nat /\ MaxRequestSize \in Nat
  BY <1>2, WorkTypes, Here, RawConnAssumption DEF Serving
<1>4. ~Oversized(next) BY <1>1, <1>2, <1>3 DEF TooBig, Oversized
<1>5. TypeOK'
  <2>1. path' \in [live : BOOLEAN, at : Nat, cell : Cells]
    BY <1>2, ZeroCell DEF PathAt
  <2>2. headEnd' \in Nat /\ bodyEnd' \in Nat BY <1>1, <1>2, <1>3
  <2>3. QED BY <2>1, <2>2 DEF IInv, TypeOK
<1>6. Parsed' BY <1>1, <1>2, <1>3, <1>4 DEF Parsed, next, Oversized
<1>7. BufferSizes' /\ Window' /\ Idle' /\ Pooled' /\ ReadHasRoom'
  BY DEF IInv, BufferSizes, Window, Idle, Pooled, ReadHasRoom
<1>14. PathInside'
  <2>1. work.head[next] >= 3 /\ used <= buf.len /\ buf.len \in Nat /\ used \in Nat
    BY <1>2, WorkTypes, Here DEF Serving, IInv, TypeOK
  <2>2. QED BY <1>1, <1>2, <1>3, <2>1 DEF PathInside, PathAt
<1>8. Counts' BY DEF IInv, Counts, Serving, next
<1>9. Framed' BY DEF IInv, Framed, Serving
<1>10. Routed' BY DEF Routed
<1>11. BodiesMatch' BY DEF IInv, BodiesMatch
<1>12. ClosedForCause' BY DEF ClosedForCause
<1>15. QED BY <1>5, <1>6, <1>7, <1>8, <1>9, <1>10, <1>11, <1>12, <1>14 DEF IInv

\* A window moved within its buffer, or to another one, still holds the same
\* stretch of the stream.
LEMMA WindowMoves ==
  ASSUME NEW r \in Nat, NEW u \in Nat, NEW p \in Nat, NEW u1 \in Nat, NEW p1 \in Nat,
         NEW c, NEW cells, NEW cells1, p <= u, u1 - p1 = u - p,
         \A i \in p .. u - 1 : cells[i] = <<c, r - u + i>>,
         \A i \in p1 .. u1 - 1 : cells1[i] = cells[i + (p - p1)]
  PROVE  \A i \in p1 .. u1 - 1 : cells1[i] = <<c, r - u1 + i>>
<1> SUFFICES ASSUME NEW i \in p1 .. u1 - 1 PROVE cells1[i] = <<c, r - u1 + i>>
  OBVIOUS
<1>1. i + (p - p1) \in p .. u - 1 OBVIOUS
<1>2. cells1[i] = <<c, r - u + (i + (p - p1))>> BY <1>1
<1>3. r - u + (i + (p - p1)) = r - u1 + i OBVIOUS
<1>4. QED BY <1>2, <1>3

\* Sliding the window down by d = 0 or pos keeps it over the same cells.
LEMMA MoreHeaderInv == IInv /\ MoreHeader => IInv'
<1> SUFFICES ASSUME IInv, MoreHeader PROVE IInv' OBVIOUS
<1> USE DEF MoreHeader, peer, offsets
<1>1. Typed(buf) /\ buf.len \in Sizes /\ pos \in Nat /\ used \in Nat /\ pos <= used /\ used <= buf.len
  BY DEF IInv, TypeOK, Typed, BufferSizes, Window
<1>2. /\ Typed(buf') /\ buf'.len \in Sizes
      /\ pos' \in Nat /\ used' \in Nat /\ pos' <= used' /\ used' < buf'.len
      /\ used' - pos' = used - pos
      /\ \A i \in pos' .. used' - 1 : buf'.at[i] = buf.at[i + (pos - pos')]
  <2>1. CASE HasRoom BY <1>1, <2>1 DEF HasRoom
  <2>2. CASE HeaderCompact
    <3>1. /\ buf'.len = buf.len /\ Typed(buf')
          /\ \A i \in 0 .. used - pos - 1 : buf'.at[i] = buf.at[pos + i]
      BY <1>1, <2>2, CompactedOK DEF HeaderCompact
    <3>2. QED BY <1>1, <2>2, <3>1 DEF HeaderCompact
  <2>3. CASE HeaderGrow
    <3>1. /\ Typed(buf') /\ buf'.len = 2 * buf.len
          /\ \A i \in 0 .. used - 1 : buf'.at[i] = buf.at[i]
      BY <1>1, <2>3, GrownOK DEF HeaderGrow
    <3>2. buf.len = ReadBufSize /\ buf'.len = MaxRequestSize
      BY <1>1, <2>3, <3>1, RawConnAssumption DEF HeaderGrow, Sizes
    <3>3. QED BY <1>1, <2>3, <3>1, <3>2, RawConnAssumption DEF HeaderGrow, Sizes
  <2>4. QED BY <2>1, <2>2, <2>3
<1>20. /\ pos \in Nat /\ used \in Nat /\ pos' \in Nat /\ used' \in Nat /\ buf'.len \in Nat
       /\ pos' <= used' /\ used' < buf'.len /\ used' - pos' = used - pos
  BY <1>1, <1>2 DEF Typed
<1>3. UNCHANGED <<headEnd, bodyEnd, path>> BY DEF HasRoom, HeaderCompact, HeaderGrow
<1>4. TypeOK' BY <1>2, <1>3 DEF IInv, TypeOK, Typed
<1>5. BufferSizes' BY <1>2 DEF IInv, BufferSizes
<1>6. Window' BY <1>20 DEF Window
<1>7. Counts'
  <2>1. next' = next /\ UNCHANGED <<work, sent, rcvd>> BY DEF next
  <2>2. rcvd - (used' - pos') = rcvd - (used - pos) BY <1>20
  <2>3. QED BY <2>1, <2>2, Here DEF Counts, Serving
<1>8. Framed'
  <2>1. rcvd \in Nat /\ \A i \in pos .. used - 1 : buf.at[i] = <<conn, rcvd - used + i>>
    BY Here DEF Serving
  <2> DEFINE p1 == pos'
  <2> DEFINE u1 == used'
  <2> DEFINE cells1 == buf'.at
  <2>2. /\ p1 \in Nat /\ u1 \in Nat /\ u1 - p1 = used - pos
        /\ \A i \in p1 .. u1 - 1 : cells1[i] = buf.at[i + (pos - p1)]
    BY <1>2, <1>20
  <2> HIDE DEF p1, u1, cells1
  <2>3. \A i \in p1 .. u1 - 1 : cells1[i] = <<conn, rcvd - u1 + i>>
    BY <1>1, <2>1, <2>2, WindowMoves
  <2>4. QED BY <2>3 DEF Framed, p1, u1, cells1
<1>9. Parsed' /\ Routed' /\ ClosedForCause' BY DEF Parsed, Routed, InBody, ClosedForCause
<1>10. PathInside' /\ Idle' /\ Pooled' BY DEF PathInside, Idle, Pooled
<1>11. ReadHasRoom' BY <1>2 DEF ReadHasRoom
<1>12. BodiesMatch' BY DEF IInv, BodiesMatch
<1>13. QED BY <1>4, <1>5, <1>6, <1>7, <1>8, <1>9, <1>10, <1>11, <1>12 DEF IInv

\* The body is not complete: compaction or growth may move the header.
LEMMA MoreBodyInv == IInv /\ MoreBody => IInv'
<1> SUFFICES ASSUME IInv, MoreBody PROVE IInv' OBVIOUS
<1> USE DEF MoreBody, peer, offsets
<1>1. /\ Typed(buf) /\ buf.len \in Sizes /\ buf.len \in Nat
      /\ pos \in Nat /\ used \in Nat /\ pos <= used /\ used <= buf.len
      /\ headEnd \in Nat /\ bodyEnd \in Nat /\ path \in [live : BOOLEAN, at : Nat, cell : Cells]
  BY DEF IInv, TypeOK, Typed, BufferSizes, Window
<1>2. /\ next \in 1 .. work.n
      /\ headEnd = pos + work.head[next] /\ headEnd <= used
      /\ bodyEnd = headEnd + work.body[next] /\ ~Oversized(next)
      /\ work.head[next] \in Nat /\ work.body[next] \in Nat
  BY Here, WorkTypes DEF IInv, Parsed, InBody, Serving
<1>3. pos = 0 => bodyEnd <= MaxRequestSize
  BY <1>1, <1>2, RawConnAssumption DEF Oversized
<1>4. /\ Typed(buf') /\ buf'.len \in Sizes
      /\ pos' \in Nat /\ used' \in Nat /\ pos' <= used' /\ used' < buf'.len
      /\ used' - pos' = used - pos
      /\ headEnd' = headEnd - (pos - pos') /\ bodyEnd' = bodyEnd - (pos - pos')
      /\ \A i \in pos' .. used' - 1 : buf'.at[i] = buf.at[i + (pos - pos')]
  <2>1. CASE HasRoom BY <1>1, <2>1 DEF HasRoom
  <2>2. CASE BodyCompact
    <3>1. /\ buf'.len = buf.len /\ Typed(buf')
          /\ \A i \in 0 .. used - pos - 1 : buf'.at[i] = buf.at[pos + i]
      BY <1>1, <2>2, CompactedOK DEF BodyCompact
    <3>2. QED BY <1>1, <2>2, <3>1 DEF BodyCompact
  <2>3. CASE BodyGrow
    <3>1. /\ Typed(buf') /\ buf'.len = 2 * buf.len
          /\ \A i \in 0 .. used - 1 : buf'.at[i] = buf.at[i]
      BY <1>1, <2>3, GrownOK DEF BodyGrow
    <3>2. buf.len = ReadBufSize /\ buf'.len = MaxRequestSize
      BY <1>1, <1>3, <2>3, <3>1, RawConnAssumption DEF BodyGrow, Sizes
    <3>3. QED BY <1>1, <2>3, <3>1, <3>2, RawConnAssumption DEF BodyGrow, Sizes
  <2>4. QED BY <2>1, <2>2, <2>3
<1>20. /\ pos \in Nat /\ used \in Nat /\ pos' \in Nat /\ used' \in Nat /\ buf'.len \in Nat
       /\ pos' <= used' /\ used' < buf'.len /\ used' - pos' = used - pos
       /\ headEnd' = headEnd - (pos - pos') /\ bodyEnd' = bodyEnd - (pos - pos')
  BY <1>1, <1>4 DEF Typed
<1>5. path' \in [live : BOOLEAN, at : Nat, cell : Cells]
  <2>1. CASE BodyGrow
    <3>1. PathCell \in Cells BY <1>1 DEF IInv, PathInside, PathCell, Typed
    <3>2. QED BY <1>1, <2>1, <3>1 DEF BodyGrow
  <2>2. CASE ~BodyGrow BY <1>1, <2>2 DEF HasRoom, BodyCompact
  <2>3. QED BY <2>1, <2>2
<1>6. headEnd' \in Nat /\ bodyEnd' \in Nat BY <1>1, <1>2, <1>4
<1>7. TypeOK' BY <1>4, <1>5, <1>6 DEF IInv, TypeOK, Typed
<1>8. BufferSizes' BY <1>4 DEF IInv, BufferSizes
<1>9. Window' BY <1>20 DEF Window
<1>10. Counts'
  <2>1. next' = next /\ UNCHANGED <<work, sent, rcvd>> BY DEF next
  <2>2. rcvd - (used' - pos') = rcvd - (used - pos) BY <1>20
  <2>3. QED BY <2>1, <2>2, Here DEF Counts, Serving
<1>11. Framed'
  <2>1. rcvd \in Nat /\ \A i \in pos .. used - 1 : buf.at[i] = <<conn, rcvd - used + i>>
    BY Here DEF Serving
  <2> DEFINE p1 == pos'
  <2> DEFINE u1 == used'
  <2> DEFINE cells1 == buf'.at
  <2>2. /\ p1 \in Nat /\ u1 \in Nat /\ u1 - p1 = used - pos
        /\ \A i \in p1 .. u1 - 1 : cells1[i] = buf.at[i + (pos - p1)]
    BY <1>4, <1>20
  <2> HIDE DEF p1, u1, cells1
  <2>3. \A i \in p1 .. u1 - 1 : cells1[i] = <<conn, rcvd - u1 + i>>
    BY <1>1, <2>1, <2>2, WindowMoves
  <2>4. QED BY <2>3 DEF Framed, p1, u1, cells1
<1>12. Parsed'
  <2> DEFINE p1 == pos'
  <2> DEFINE u1 == used'
  <2> DEFINE h1 == headEnd'
  <2> DEFINE b1 == bodyEnd'
  <2>1. /\ p1 \in Nat /\ u1 \in Nat /\ u1 - p1 = used - pos
        /\ h1 = headEnd - (pos - p1) /\ b1 = bodyEnd - (pos - p1)
    BY <1>20
  <2> HIDE DEF p1, u1, h1, b1
  <2>2. h1 = p1 + work.head[next] /\ h1 <= u1 /\ b1 = h1 + work.body[next]
    BY <1>1, <1>2, <2>1
  <2>3. next' = next BY DEF next
  <2>4. QED BY <1>2, <2>2, <2>3 DEF Parsed, Oversized, p1, u1, h1, b1
<1>13. Routed' /\ ClosedForCause' BY DEF Routed, ClosedForCause
<1>14. Idle' /\ Pooled' BY DEF Idle, Pooled
<1>18. PathInside'
  <2>1. CASE HasRoom BY <2>1 DEF HasRoom, IInv, PathInside
  <2>2. CASE BodyCompact
    <3>1. buf'.len = buf.len BY <2>2 DEF BodyCompact, Compacted
    <3>2. QED BY <2>2, <3>1 DEF BodyCompact, IInv, PathInside
  <2>3. CASE BodyGrow BY <2>3 DEF BodyGrow, PathInside
  <2>4. QED BY <2>1, <2>2, <2>3
<1>15. ReadHasRoom' BY <1>4 DEF ReadHasRoom
<1>16. BodiesMatch' BY DEF IInv, BodiesMatch
<1>19. QED
  BY <1>7, <1>8, <1>9, <1>10, <1>11, <1>12, <1>13, <1>14, <1>15, <1>16, <1>18 DEF IInv

\* Bytes arrive, for a header or for a body.
LEMMA ReadInv == IInv /\ (\E n \in 1 .. MaxRequestSize : Read(n)) => IInv'
<1> SUFFICES ASSUME IInv, NEW n \in 1 .. MaxRequestSize, Read(n) PROVE IInv' OBVIOUS
<1> USE DEF Read, peer
<1>1. /\ n \in Nat /\ pos \in Nat /\ used \in Nat /\ pos <= used /\ used + n <= buf.len
      /\ buf.len \in Nat /\ rcvd \in Nat /\ sent \in Nat /\ rcvd + n <= sent
  BY RawConnAssumption DEF IInv, TypeOK, Window
<1>2. /\ Typed(buf') /\ buf'.len = buf.len
      /\ \A i \in 0 .. used - 1 : buf'.at[i] = buf.at[i]
      /\ \A i \in used .. used + n - 1 : buf'.at[i] = <<conn, rcvd + i - used>>
  BY <1>1, FilledOK DEF IInv
<1>3. pc' \in {"header", "body"} /\ (pc' = "body" => pc = "readBody") OBVIOUS
<1>4. TypeOK' BY <1>1, <1>2, <1>3 DEF IInv, TypeOK, Typed
<1>5. BufferSizes' BY <1>2 DEF IInv, BufferSizes
<1>6. Window' BY <1>1, <1>2 DEF Window
<1>7. Counts'
  <2>1. (rcvd + n) - ((used + n) - pos) = rcvd - (used - pos) BY <1>1
  <2>2. next' = next BY DEF next
  <2>3. QED BY <1>1, <2>1, <2>2, Here DEF Counts, Serving
<1>8. Framed'
  <2>1. ASSUME NEW i \in pos .. used + n - 1
        PROVE  buf'.at[i] = <<conn, (rcvd + n) - (used + n) + i>>
    <3>1. CASE i < used
      <4>1. i \in pos .. used - 1 /\ i \in 0 .. used - 1 BY <1>1, <3>1
      <4>2. buf'.at[i] = <<conn, rcvd - used + i>> BY <1>2, <4>1, Here DEF Serving
      <4>3. QED BY <1>1, <4>1, <4>2
    <3>2. CASE ~(i < used)
      <4>1. i \in used .. used + n - 1 BY <1>1, <3>2
      <4>2. buf'.at[i] = <<conn, rcvd + i - used>> BY <1>2, <4>1
      <4>3. QED BY <1>1, <4>1, <4>2
    <3>3. QED BY <3>1, <3>2
  <2> DEFINE u1 == used'
  <2> DEFINE r1 == rcvd'
  <2>2. pos' = pos /\ conn' = conn OBVIOUS
  <2>5. /\ u1 = used + n /\ r1 = rcvd + n /\ u1 \in Nat /\ r1 \in Nat
        /\ used \in Nat /\ rcvd \in Nat /\ n \in Nat
    BY <1>1
  <2> HIDE DEF u1, r1
  <2>3. \A i \in pos .. u1 - 1 : buf'.at[i] = <<conn, r1 - u1 + i>>
    <3>1. pos .. u1 - 1 = pos .. used + n - 1 /\ r1 - u1 = (rcvd + n) - (used + n) BY <2>5
    <3>2. QED BY <2>1, <3>1
  <2>4. QED BY <2>2, <2>3 DEF Framed, u1, r1
<1>9. Parsed'
  <2>1. CASE pc = "readHeader" BY <2>1 DEF Parsed, InBody
  <2>2. CASE pc = "readBody"
    <3>1. headEnd <= used /\ headEnd \in Nat BY <2>2 DEF IInv, Parsed, InBody, TypeOK
    <3>2. headEnd <= used + n BY <1>1, <3>1
    <3>3. QED BY <2>2, <3>2 DEF IInv, Parsed, InBody, next, Oversized
  <2>3. QED BY <2>1, <2>2
<1>10. Routed' BY <1>3 DEF Routed
<1>11. PathInside' BY <1>2, <1>3 DEF IInv, PathInside
<1>12. Idle' /\ Pooled' /\ ReadHasRoom' /\ ClosedForCause'
  BY <1>3 DEF Idle, Pooled, ReadHasRoom, ClosedForCause
<1>13. BodiesMatch' BY DEF IInv, BodiesMatch
<1>14. QED
  BY <1>4, <1>5, <1>6, <1>7, <1>8, <1>9, <1>10, <1>11, <1>12, <1>13 DEF IInv

\* Where cell i of a body lies in a buffer with the window p to u whose first
\* cell is at position s of the stream.
LEMMA BodyPosition ==
  ASSUME NEW p \in Nat, NEW u \in Nat, NEW l \in Nat, NEW h \in Nat, NEW b \in Nat,
         NEW r \in Nat, NEW s \in Nat, NEW i \in 1 .. b,
         p + h + b <= u, u <= l, r - (u - p) = s
  PROVE  /\ (p + h) + i - 1 \in p .. u - 1 /\ (p + h) + i - 1 \in 0 .. l - 1
         /\ r - u + ((p + h) + i - 1) = s + h + i - 1
OBVIOUS

\* The offsets of a request whose body has arrived.
LEMMA BodyOffsets ==
  ASSUME IInv, pc = "body", used >= bodyEnd
  PROVE  /\ next \in 1 .. work.n /\ headEnd <= used /\ headEnd = pos + work.head[next]
         /\ bodyEnd = headEnd + work.body[next] /\ bodyEnd <= used
         /\ pos \in Nat /\ used \in Nat /\ used <= buf.len /\ buf.len \in Nat
         /\ headEnd \in Nat /\ bodyEnd \in Nat
         /\ work.head[next] \in Nat /\ work.body[next] \in Nat
         /\ rcvd \in Nat /\ work.start[next] \in Nat /\ rcvd - (used - pos) = work.start[next]
<1>1. /\ next <= work.n /\ headEnd <= used /\ headEnd = pos + work.head[next]
      /\ bodyEnd = headEnd + work.body[next]
  BY DEF IInv, Parsed, InBody
<1>2. next \in 1 .. work.n BY <1>1, Here DEF Serving
<1>3. /\ pos \in Nat /\ used \in Nat /\ used <= buf.len /\ buf.len \in Nat
      /\ headEnd \in Nat /\ bodyEnd \in Nat
  BY DEF IInv, TypeOK, Window
<1>4. work.head[next] \in Nat /\ work.body[next] \in Nat BY <1>2, WorkTypes, Here DEF Serving
<1>5. rcvd \in Nat /\ work.start[next] \in Nat /\ rcvd - (used - pos) = work.start[next]
  BY Here DEF Serving
<1>6. bodyEnd <= used BY <1>3
<1>7. QED BY <1>1, <1>2, <1>3, <1>4, <1>5, <1>6

\* The body of the request is in the buffer, cell by cell.
LEMMA BodyCell ==
  ASSUME IInv, pc = "body", used >= bodyEnd, NEW i \in 1 .. work.body[next]
  PROVE  /\ headEnd + i - 1 \in 0 .. buf.len - 1
         /\ buf.at[headEnd + i - 1] = <<conn, work.start[next] + work.head[next] + i - 1>>
<1> DEFINE h == work.head[next]
           b == work.body[next]
           st == work.start[next]
           l == buf.len
<1>1. /\ h \in Nat /\ b \in Nat /\ st \in Nat /\ l \in Nat /\ i \in 1 .. b /\ rcvd \in Nat
      /\ pos \in Nat /\ used \in Nat /\ pos + h + b <= used /\ used <= l
      /\ rcvd - (used - pos) = st /\ headEnd = pos + h
  BY BodyOffsets
<1> HIDE DEF h, b, st, l
<1>2. /\ (pos + h) + i - 1 \in pos .. used - 1 /\ (pos + h) + i - 1 \in 0 .. l - 1
      /\ rcvd - used + ((pos + h) + i - 1) = st + h + i - 1
  BY <1>1, BodyPosition
<1>3. /\ headEnd + i - 1 \in pos .. used - 1 /\ headEnd + i - 1 \in 0 .. buf.len - 1
      /\ rcvd - used + (headEnd + i - 1) = work.start[next] + work.head[next] + i - 1
  BY <1>1, <1>2 DEF h, st, l
<1>4. buf.at[headEnd + i - 1] = <<conn, rcvd - used + (headEnd + i - 1)>>
  BY <1>3, Here DEF Serving
<1>5. QED BY <1>3, <1>4

\* What a request's body and its routed slice amount to.
LEMMA RouteInv == IInv /\ Route => IInv'
<1> SUFFICES ASSUME IInv, Route PROVE IInv' OBVIOUS
<1>0. pc = "body" /\ used >= bodyEnd BY DEF Route
<1>1. /\ next \in 1 .. work.n /\ headEnd = pos + work.head[next]
      /\ bodyEnd = headEnd + work.body[next] /\ bodyEnd <= used
      /\ headEnd \in Nat /\ bodyEnd \in Nat /\ work.body[next] \in Nat
  BY <1>0, BodyOffsets
<1>3. ASSUME NEW i \in 1 .. work.body[next]
      PROVE  /\ headEnd + i - 1 \in 0 .. buf.len - 1
             /\ buf.at[headEnd + i - 1] = <<conn, work.start[next] + work.head[next] + i - 1>>
  BY <1>0, BodyCell
<1> USE DEF Route, peer, offsets
<1>4. bodyEnd - headEnd = work.body[next] BY <1>1
<1>5. resp'.body = [i \in 1 .. work.body[next] |-> buf.at[headEnd + i - 1]] BY <1>4
<1>6. resp'.body = Expected(conn, work, next).body BY <1>3, <1>5 DEF Expected
<1>7. TypeOK'
  <2>1. PathCell \in Cells BY DEF IInv, TypeOK, PathInside, PathCell
  <2>2. buf.at \in [0 .. buf.len - 1 -> Cells] BY DEF IInv, TypeOK
  <2>3. resp'.body \in [1 .. work.body[next] -> Cells] BY <1>3, <1>5, <2>2
  <2>4. ASSUME NEW f \in [1 .. work.body[next] -> Cells] PROVE f \in Seq(Cells)
    <3> DEFINE b == work.body[next]
    <3>1. b \in Nat /\ f \in [1 .. b -> Cells] BY <1>1
    <3> HIDE DEF b
    <3>2. QED BY <3>1
  <2>7. resp'.body \in Seq(Cells) BY <2>3, <2>4
  <2>5. resp' \in [path : Cells, body : Seq(Cells)] BY <2>1, <2>7
  <2>6. QED BY <2>5 DEF IInv, TypeOK
<1>8. BufferSizes' /\ Window' /\ PathInside' /\ Idle' /\ Pooled' /\ ReadHasRoom'
  BY DEF IInv, BufferSizes, Window, PathInside, Idle, Pooled, ReadHasRoom
<1>9. Counts' BY DEF IInv, Counts, Serving, next
<1>10. Framed' BY DEF IInv, Framed, Serving
<1>11. Parsed' BY DEF IInv, Parsed, InBody, next, Oversized
<1>12. Routed' BY <1>1, <1>6 DEF Routed, next
<1>13. BodiesMatch' /\ ClosedForCause' BY DEF IInv, BodiesMatch, ClosedForCause
<1>14. QED BY <1>7, <1>8, <1>9, <1>10, <1>11, <1>12, <1>13 DEF IInv

\* The answer is written and what follows the body is kept for the next turn.
LEMMA WriteInv == IInv /\ Write => IInv'
<1> SUFFICES ASSUME IInv, Write PROVE IInv' OBVIOUS
<1> USE DEF Write, peer
<1>1. /\ next \in 1 .. work.n /\ bodyEnd <= used
      /\ bodyEnd = pos + work.head[next] + work.body[next]
      /\ pos \in Nat /\ used \in Nat /\ used <= buf.len /\ buf.len \in Nat
      /\ bodyEnd \in Nat /\ work.head[next] \in Nat /\ work.body[next] \in Nat
  <2>1. /\ next <= work.n /\ headEnd <= used /\ headEnd = pos + work.head[next]
        /\ bodyEnd = headEnd + work.body[next] /\ bodyEnd <= used
    BY DEF IInv, Parsed, InBody, Routed
  <2>2. next \in 1 .. work.n BY <2>1, Here DEF Serving
  <2>3. /\ pos \in Nat /\ used \in Nat /\ used <= buf.len /\ buf.len \in Nat
        /\ headEnd \in Nat /\ bodyEnd \in Nat
    BY DEF IInv, TypeOK, Window
  <2>4. work.head[next] \in Nat /\ work.body[next] \in Nat BY <2>2, WorkTypes, Here DEF Serving
  <2>5. QED BY <2>1, <2>2, <2>3, <2>4
<1>2. /\ rcvd \in Nat /\ work.start[next] \in Nat /\ rcvd - (used - pos) = work.start[next]
      /\ work.n \in Nat /\ next \in Nat /\ Len(answers) \in Nat
  BY Here DEF Serving, IInv, TypeOK
<1>3. answers \in Seq([path : Cells, body : Seq(Cells)]) /\ resp \in [path : Cells, body : Seq(Cells)]
  BY DEF IInv, TypeOK
<1>4. next' = next + 1 /\ Len(answers') = next BY <1>3 DEF next
<1>5. work.start[next + 1] = work.start[next] + work.head[next] + work.body[next]
  BY <1>1, WorkTypes, Here DEF Serving
<1>6. /\ pos' \in Nat /\ used' \in Nat /\ pos' <= used' /\ used' <= used
      /\ (pos' = 0 /\ used' = 0 /\ bodyEnd = used) \/ (pos' = bodyEnd /\ used' = used)
  BY <1>1
<1>7. TypeOK' BY <1>3, <1>6, ZeroCell DEF IInv, TypeOK, NoResp
<1>8. BufferSizes' BY DEF IInv, BufferSizes
<1>9. Window'
  <2>1. CASE bodyEnd = used BY <1>1, <2>1 DEF Window
  <2>2. CASE bodyEnd # used BY <1>1, <2>2 DEF Window
  <2>3. QED BY <2>1, <2>2
<1>10. rcvd - (used' - pos') = work.start[next + 1]
  <2> DEFINE u1 == used'
  <2> DEFINE p1 == pos'
  <2> DEFINE h == work.head[next]
  <2> DEFINE b == work.body[next]
  <2> DEFINE st == work.start[next]
  <2>1. /\ (p1 = 0 /\ u1 = 0 /\ bodyEnd = used) \/ (p1 = bodyEnd /\ u1 = used)
        /\ h \in Nat /\ b \in Nat /\ st \in Nat /\ rcvd - (used - pos) = st
        /\ bodyEnd = pos + h + b
        /\ pos \in Nat /\ used \in Nat /\ bodyEnd \in Nat /\ rcvd \in Nat
    BY <1>1, <1>2, <1>6
  <2> HIDE DEF u1, p1, h, b, st
  <2>2. rcvd - (u1 - p1) = st + h + b BY <2>1
  <2>3. QED BY <2>2, <1>5 DEF u1, p1, h, b, st
<1>11. Counts'
  <2>1. next + 1 <= work.n + 1 BY <1>1, <1>2
  <2>2. QED BY <1>4, <1>10, <2>1, Here DEF Counts, Serving
<1>12. Framed'
  <2>1. CASE bodyEnd = used BY <2>1 DEF Framed
  <2>2. CASE bodyEnd # used
    <3>1. ASSUME NEW i \in bodyEnd .. used - 1 PROVE buf.at[i] = <<conn, rcvd - used + i>>
      <4>1. i \in pos .. used - 1 BY <1>1
      <4>2. QED BY <4>1, Here DEF Serving
    <3>2. QED BY <2>2, <3>1 DEF Framed
  <2>3. QED BY <2>1, <2>2
<1>13. BodiesMatch'
  <2>1. ASSUME NEW k \in 1 .. next
        PROVE  k <= work.n /\ answers'[k].body = Expected(conn, work, k).body
    <3>1. CASE k = next
      <4>1. answers'[k] = resp BY <1>3, <1>4, <3>1 DEF next
      <4>2. QED BY <1>1, <3>1, <4>1 DEF IInv, Routed
    <3>2. CASE k # next
      <4>1. k \in 1 .. Len(answers) BY <1>2, <3>2 DEF next
      <4>2. answers'[k] = answers[k] BY <1>3, <4>1
      <4>3. QED BY <4>1, <4>2 DEF IInv, BodiesMatch
    <3>3. QED BY <3>1, <3>2
  <2>2. QED BY <1>4, <2>1 DEF BodiesMatch
<1>14. Parsed' /\ Routed' /\ PathInside' /\ Idle' /\ Pooled' /\ ReadHasRoom' /\ ClosedForCause'
  BY DEF Parsed, InBody, Routed, PathInside, Idle, Pooled, ReadHasRoom, ClosedForCause
<1>15. QED BY <1>7, <1>8, <1>9, <1>11, <1>12, <1>13, <1>14 DEF IInv
-----------------------------------------------------------------------------
\* Every step of the loop and of its client keeps the invariant.
LEMMA NextInv == IInv /\ [Next]_vars => IInv'
<1> SUFFICES ASSUME IInv, [Next]_vars PROVE IInv' OBVIOUS
<1>1. CASE ClientSend \/ ClientClose BY <1>1, ClientSendInv, ClientCloseInv
<1>2. CASE Accept BY <1>2, AcceptInv
<1>3. CASE Server
  BY <1>3, MoreHeaderInv, HeaderTooLongInv, HeaderDoneInv, BodyTooLongInv, MoreBodyInv,
     ReadInv, FailsInv, RouteInv, WriteInv DEF Server
<1>4. CASE UNCHANGED vars
  <2> USE <1>4 DEF vars
  <2>1. TypeOK' BY DEF IInv, TypeOK
  <2>2. BufferSizes' /\ Window' /\ PathInside' /\ Idle' /\ Pooled' /\ ReadHasRoom'
    BY DEF IInv, BufferSizes, Window, PathInside, Idle, Pooled, ReadHasRoom
  <2>3. Counts' BY DEF IInv, Counts, Serving, next
  <2>4. Framed' BY DEF IInv, Framed, Serving
  <2>5. Parsed' BY DEF IInv, Parsed, InBody, next, Oversized
  <2>6. Routed' BY DEF IInv, Routed, next
  <2>7. BodiesMatch' BY DEF IInv, BodiesMatch
  <2>8. ClosedForCause' BY DEF IInv, ClosedForCause, next, Oversized
  <2>9. QED BY <2>1, <2>2, <2>3, <2>4, <2>5, <2>6, <2>7, <2>8 DEF IInv
<1>5. QED BY <1>1, <1>2, <1>3, <1>4 DEF Next

\* The inductive invariant holds in every reachable state.
THEOREM Invariance == Spec => []IInv
<1>1. QED BY InitInv, NextInv, PTL DEF Spec

\* Type correctness of the connection loop.
THEOREM TypeCorrect == Spec => []TypeOK
<1>1. IInv => TypeOK BY DEF IInv
<1>2. QED BY <1>1, Invariance, PTL

\* For every buffer size and workload: Read never gets an empty slice, the
\* buffer stays within maxRequestSize and goes back to the pool.
THEOREM BufferSafe == Spec => [](ReadHasRoom /\ BufferBounded)
<1>1. IInv => ReadHasRoom BY DEF IInv
<1>2. IInv => BufferBounded
  <2>1. IInv => buf.len <= MaxRequestSize
    BY RawConnAssumption DEF IInv, BufferSizes, Sizes
  <2>2. QED BY <2>1 DEF IInv, BufferBounded, Pooled
<1>3. QED BY <1>1, <1>2, Invariance, PTL

\* For every workload, pipelined or not, and every chunking of the stream:
\* each answer carries the body of its own request, in order.
THEOREM BodiesAreKept == Spec => []BodiesMatch
<1>1. IInv => BodiesMatch BY DEF IInv
<1>2. QED BY <1>1, Invariance, PTL

\* A connection whose client stays is closed for an oversized request only.
THEOREM NeverClosedWithoutCause == Spec => []ClosedForCause
<1>1. IInv => ClosedForCause BY DEF IInv
<1>2. QED BY <1>1, Invariance, PTL
-----------------------------------------------------------------------------
(***************************************************************************)
(* A client that waits for each answer: pos is then 0 whenever a body is   *)
(* read, the path slice is never moved under, and the connection loop      *)
(* implements HttpConn.                                                    *)
(***************************************************************************)

\* The path slice still shows the path of the request being received.
PathKept ==
  pc \in {"body", "readBody"} =>
    IF path.live THEN path.at = PathAt
    ELSE path.cell = <<conn, work.start[next] + PathAt>>

RoutedByOwnPath == pc = "write" => resp.path = Expected(conn, work, next).path

SerialInv ==
  /\ Serving => sent <= MaySend /\ pos = 0
  /\ PathKept /\ RoutedByOwnPath /\ PathsMatch

\* Without pipelining the path slice still shows the bytes of its own request.
LEMMA SerialPath ==
  ASSUME IInv, SerialInv, pc \in {"body", "readBody"}
  PROVE  PathCell = <<conn, work.start[next] + PathAt>>
<1>1. CASE path.live
  <2>1. pos = 0 /\ path.at = PathAt BY <1>1 DEF SerialInv, PathKept, Serving
  <2>2. next <= work.n /\ headEnd = pos + work.head[next] /\ headEnd <= used
    BY DEF IInv, Parsed, InBody
  <2>3. next \in 1 .. work.n BY <2>2, Here DEF Serving
  <2>4. headEnd >= 3 BY <2>1, <2>2, <2>3, WorkTypes, Here DEF Serving
  <2>5. PathAt \in pos .. used - 1 BY <2>1, <2>2, <2>4, Here DEF PathAt, Serving, IInv, TypeOK
  <2>6. buf.at[PathAt] = <<conn, rcvd - used + PathAt>> BY <2>5, Here DEF Serving
  <2> DEFINE st == work.start[next]
  <2>7. /\ rcvd - (used - pos) = st /\ st \in Nat /\ rcvd \in Nat /\ used \in Nat /\ pos = 0
    BY <2>1, Here DEF Serving
  <2> HIDE DEF st
  <2>8. rcvd - used + PathAt = st + PathAt BY <2>7 DEF PathAt
  <2>9. QED BY <1>1, <2>1, <2>6, <2>8 DEF PathCell, st
<1>2. CASE ~path.live BY <1>2 DEF SerialInv, PathKept, PathCell
<1>3. QED BY <1>1, <1>2

\* The invariant of a client that waits for its answers holds at first ...
LEMMA SerialInit == Init => SerialInv
BY DEF Init, SerialInv, Serving, PathKept, RoutedByOwnPath, PathsMatch

\* The client has written no more than the request being served.
LEMMA SerialSent ==
  ASSUME ~Pipelining, IInv, SerialInv, Serving, next <= work.n
  PROVE  sent <= work.start[next + 1]
BY DEF SerialInv, MaySend

\* An answer to such a client is the one its request calls for.
LEMMA SerialWrite ==
  ASSUME ~Pipelining, IInv, SerialInv, Write
  PROVE  /\ bodyEnd = used /\ next \in 1 .. work.n /\ sent = work.start[next + 1]
         /\ resp = Expected(conn, work, next)
<1> USE DEF Write
<1>1. /\ next <= work.n /\ headEnd = pos + work.head[next] /\ pos = 0
      /\ bodyEnd = headEnd + work.body[next] /\ bodyEnd <= used
      /\ resp.body = Expected(conn, work, next).body
      /\ resp.path = Expected(conn, work, next).path
  BY DEF IInv, Parsed, Routed, InBody, SerialInv, Serving, RoutedByOwnPath
<1>2. next \in 1 .. work.n BY <1>1, Here DEF Serving
<1>3. /\ rcvd <= sent /\ rcvd - (used - pos) = work.start[next]
      /\ work.start[next] \in Nat /\ rcvd \in Nat /\ sent \in Nat /\ used \in Nat
  BY Here DEF Serving
<1>4. /\ work.start[next + 1] = work.start[next] + work.head[next] + work.body[next]
      /\ work.head[next] \in Nat /\ work.body[next] \in Nat
  BY <1>2, WorkTypes, Here DEF Serving
<1>5. sent <= work.start[next + 1] BY <1>1, SerialSent DEF Serving
<1>6. bodyEnd = used /\ sent = work.start[next + 1]
  <2> DEFINE s0 == work.start[next]
  <2> DEFINE s1 == work.start[next + 1]
  <2> DEFINE h == work.head[next]
  <2> DEFINE b == work.body[next]
  <2>1. /\ s0 \in Nat /\ h \in Nat /\ b \in Nat /\ s1 = s0 + h + b
        /\ headEnd = pos + h /\ pos = 0 /\ bodyEnd = headEnd + b /\ bodyEnd <= used
        /\ rcvd <= sent /\ sent <= s1 /\ rcvd - (used - pos) = s0
        /\ rcvd \in Nat /\ sent \in Nat /\ used \in Nat
    BY <1>1, <1>3, <1>4, <1>5
  <2> HIDE DEF s0, s1, h, b
  <2>2. bodyEnd = used /\ sent = s1 BY <2>1
  <2>3. QED BY <2>2 DEF s1
<1>7. resp = Expected(conn, work, next)
  <2>1. resp \in [path : Cells, body : Seq(Cells)] BY DEF IInv, TypeOK
  <2>2. resp = [path |-> resp.path, body |-> resp.body] BY <2>1
  <2>3. QED BY <1>1, <2>2 DEF Expected
<1>8. QED BY <1>2, <1>6, <1>7

\* ... and every step keeps it.
LEMMA SerialNext == ~Pipelining /\ IInv /\ SerialInv /\ [Next]_vars => SerialInv'
<1> SUFFICES ASSUME ~Pipelining, IInv, SerialInv, [Next]_vars PROVE SerialInv' OBVIOUS
<1>1. CASE ClientSend
  <2> USE <1>1 DEF ClientSend, offsets
  <2>1. sent' <= MaySend' /\ pos' = 0
    <3>1. MaySend' = MaySend BY DEF MaySend, next
    <3>2. MaySend \in Nat
      <4>1. work.n + 1 \in 1 .. work.n + 1 /\ (next <= work.n => next + 1 \in 1 .. work.n + 1)
        BY Here DEF Serving
      <4>2. QED BY <4>1, WorkTypes, Here DEF MaySend, Serving
    <3>3. sent' <= MaySend BY <3>2, Here DEF Serving
    <3>4. QED BY <3>1, <3>3 DEF SerialInv, Serving
  <2>2. PathKept' BY DEF SerialInv, PathKept, next
  <2>3. RoutedByOwnPath' BY DEF SerialInv, RoutedByOwnPath, next
  <2>4. PathsMatch' BY DEF SerialInv, PathsMatch
  <2>5. QED BY <2>1, <2>2, <2>3, <2>4 DEF SerialInv
<1>2. CASE ClientClose
  <2> USE <1>2 DEF ClientClose, offsets
  <2>1. MaySend' = MaySend BY DEF MaySend, next
  <2>2. PathKept' BY DEF SerialInv, PathKept, next
  <2>3. RoutedByOwnPath' BY DEF SerialInv, RoutedByOwnPath, next
  <2>4. PathsMatch' BY DEF SerialInv, PathsMatch
  <2>5. QED BY <2>1, <2>2, <2>3, <2>4 DEF SerialInv, Serving
<1>3. CASE Accept
  <2> USE <1>3 DEF Accept, offsets
  <2>1. work' \in Workloads /\ next' = 1 /\ pos' = 0 BY DEF IInv, Idle, next
  <2>2. MaySend' \in Nat
    <3>1. work'.n \in Nat /\ work'.n + 1 \in 1 .. work'.n + 1
          /\ (1 <= work'.n => 1 + 1 \in 1 .. work'.n + 1)
      BY <2>1, WorkTypes
    <3>2. QED BY <2>1, <3>1, WorkTypes DEF MaySend
  <2>3. QED BY <2>1, <2>2 DEF SerialInv, PathKept, RoutedByOwnPath, PathsMatch
<1>4. CASE Serving /\ Return
  BY <1>4 DEF Return, peer, SerialInv, Serving, PathKept, RoutedByOwnPath, PathsMatch
<1>5. CASE MoreHeader
  <2> USE <1>5 DEF MoreHeader, peer, offsets
  <2>1. MaySend' = MaySend BY DEF MaySend, next
  <2>2. pos' = 0 BY DEF SerialInv, Serving, HasRoom, HeaderCompact, HeaderGrow
  <2>3. QED BY <2>1, <2>2 DEF SerialInv, Serving, PathKept, RoutedByOwnPath, PathsMatch
<1>6. CASE \E end \in HeaderEnds : HeaderDone(end)
  <2> USE <1>6 DEF HeaderDone, peer
  <2>1. MaySend' = MaySend BY DEF MaySend, next
  <2>2. pos' = 0 /\ path'.live /\ path'.at = PathAt BY DEF SerialInv, Serving, PathAt
  <2>3. QED BY <2>1, <2>2 DEF SerialInv, Serving, PathKept, RoutedByOwnPath, PathsMatch
<1>7. CASE MoreBody
  <2> USE <1>7 DEF MoreBody, peer, offsets
  <2>1. MaySend' = MaySend /\ next' = next BY DEF MaySend, next
  <2>2. pos' = 0 BY DEF SerialInv, Serving, HasRoom, BodyCompact, BodyGrow
  <2>3. PathKept'
    <3>1. CASE HasRoom BY <3>1, <2>1 DEF HasRoom, SerialInv, PathKept
    <3>2. CASE BodyCompact BY <3>2 DEF BodyCompact, SerialInv, Serving
    <3>3. CASE BodyGrow BY <3>3, <2>1, SerialPath DEF BodyGrow, PathKept
    <3>4. QED BY <3>1, <3>2, <3>3
  <2>4. QED BY <2>1, <2>2, <2>3 DEF SerialInv, Serving, RoutedByOwnPath, PathsMatch
<1>8. CASE \E n \in 1 .. MaxRequestSize : Read(n)
  <2> USE <1>8 DEF Read, peer
  <2>1. MaySend' = MaySend /\ next' = next BY DEF MaySend, next
  <2>2. PathKept' BY <2>1 DEF SerialInv, PathKept
  <2>3. QED BY <2>1, <2>2 DEF SerialInv, Serving, RoutedByOwnPath, PathsMatch
<1>9. CASE Route
  <2> USE <1>9 DEF Route, peer, offsets
  <2>1. MaySend' = MaySend /\ next' = next BY DEF MaySend, next
  <2>2. resp'.path = <<conn, work.start[next] + PathAt>> BY SerialPath
  <2>3. RoutedByOwnPath' BY <2>1, <2>2 DEF RoutedByOwnPath, Expected
  <2>4. QED BY <2>1, <2>3 DEF SerialInv, Serving, PathKept, PathsMatch
<1>10. CASE Write
  <2>1. /\ bodyEnd = used /\ next \in 1 .. work.n /\ sent = work.start[next + 1]
        /\ resp = Expected(conn, work, next)
    BY <1>10, SerialWrite
  <2> USE <1>10 DEF Write, peer
  <2>2. /\ answers \in Seq([path : Cells, body : Seq(Cells)])
        /\ resp \in [path : Cells, body : Seq(Cells)]
    BY DEF IInv, TypeOK
  <2>3. next' = next + 1 /\ Len(answers') = next BY <2>2 DEF next
  <2>4. sent' <= MaySend'
    <3>1. work \in Workloads /\ work.n \in Nat /\ next \in Nat BY Here DEF Serving
    <3>2. CASE next + 1 <= work.n
      <4>1. next + 1 \in 1 .. work.n + 1 /\ next + 1 + 1 \in 1 .. work.n + 1 /\ next + 1 <= next + 1 + 1
        BY <2>1, <3>1, <3>2
      <4>2. work.start[next + 1] <= work.start[next + 1 + 1] BY <3>1, <4>1, WorkTypes
      <4>3. QED BY <2>1, <2>3, <3>2, <4>2 DEF MaySend
    <3>3. CASE ~(next + 1 <= work.n)
      <4>1. next + 1 = work.n + 1 BY <2>1, <3>1, <3>3
      <4>2. work.start[work.n + 1] \in Nat BY <2>1, <3>1, <4>1, WorkTypes
      <4>3. QED BY <2>1, <2>3, <3>3, <4>1, <4>2 DEF MaySend
    <3>4. QED BY <3>2, <3>3
  <2>5. PathsMatch'
    <3>1. ASSUME NEW k \in 1 .. next PROVE answers'[k].path = Expected(conn, work, k).path
      <4>1. CASE k = next
        <5>1. answers'[next] = resp BY <2>2 DEF next
        <5>2. answers'[k] = Expected(conn, work, k) BY <2>1, <4>1, <5>1, Zenon
        <5>3. QED BY <5>2, Zenon
      <4>2. CASE k # next
        <5>1. k \in 1 .. Len(answers) BY <2>1, <4>2, <2>2 DEF next
        <5>2. answers'[k] = answers[k] BY <2>2, <5>1
        <5>3. QED BY <5>1, <5>2 DEF SerialInv, PathsMatch
      <4>3. QED BY <4>1, <4>2
    <3>2. QED BY <2>3, <3>1 DEF PathsMatch
  <2>6. QED BY <2>1, <2>4, <2>5 DEF SerialInv, Serving, PathKept, RoutedByOwnPath
<1>11. CASE UNCHANGED vars
  <2> USE <1>11 DEF vars
  <2>1. MaySend' = MaySend /\ next' = next BY DEF MaySend, next
  <2>2. PathKept' BY <2>1 DEF SerialInv, PathKept
  <2>3. RoutedByOwnPath' BY <2>1 DEF SerialInv, RoutedByOwnPath
  <2>4. PathsMatch' BY DEF SerialInv, PathsMatch
  <2>5. QED BY <2>1, <2>2, <2>3, <2>4 DEF SerialInv, Serving
<1>12. QED
  BY <1>1, <1>2, <1>3, <1>4, <1>5, <1>6, <1>7, <1>8, <1>9, <1>10, <1>11
  DEF Next, Server, HeaderTooLong, BodyTooLong, ReadFails, WriteFails, Serving

\* The strengthened invariant of the serial client.
THEOREM SerialInvariance == ASSUME ~Pipelining PROVE Spec => []SerialInv
<1>1. IInv /\ SerialInv /\ [Next]_vars => SerialInv' BY SerialNext
<1>2. QED BY <1>1, SerialInit, Invariance, PTL DEF Spec

\* For every buffer size, workload and chunking of the stream: when the client waits for each
\* answer, every request is routed by its own path.
THEOREM SerialPathsMatch == ASSUME ~Pipelining PROVE Spec => []PathsMatch
<1>1. SerialInv => PathsMatch BY DEF SerialInv
<1>2. QED BY <1>1, SerialInvariance, PTL
-----------------------------------------------------------------------------
(* Every step of RawConn is a step of HttpConn or leaves its variables.    *)

\* A request fits the abstract server exactly when the buffer may hold it.
LEMMA FitsIff ==
  ASSUME IInv, NEW k \in 1 .. work.n PROVE Http!Fits(k) <=> ~Oversized(k)
<1> DEFINE h == work.head[k]
<1> DEFINE b == work.body[k]
<1>1. h \in Nat /\ b \in Nat /\ MaxRequestSize \in Nat
  BY WorkTypes, RawConnAssumption DEF IInv, TypeOK
<1> HIDE DEF h, b
<1>2. (h + b <= MaxRequestSize) <=> ~(h + b > MaxRequestSize) BY <1>1
<1>3. QED BY <1>2 DEF Http!Fits, Oversized, h, b

\* Initial states map to initial states.
LEMMA RefinedInit == Init => Http!Init
BY DEF Init, Http!Init

\* A return that the invariant explains is a HangUp or a Refuse.
LEMMA RefinedReturn ==
  ASSUME IInv, Serving, Return, client = "closed" \/ (next \in 1 .. work.n /\ Oversized(next))
  PROVE  Http!Next
<1>1. CASE client = "closed"
  BY <1>1 DEF Return, peer, Serving, Http!Next, Http!HangUp
<1>2. CASE next \in 1 .. work.n /\ Oversized(next)
  BY <1>2, FitsIff DEF Return, peer, Serving, next, Http!Next, Http!Refuse, Http!next
<1>3. QED BY <1>1, <1>2

\* Every step maps to a step of the abstract server or to a stutter.
LEMMA RefinedNext == ~Pipelining /\ IInv /\ SerialInv /\ [Next]_vars => [Http!Next]_(Http!vars)
<1> SUFFICES ASSUME ~Pipelining, IInv, SerialInv, [Next]_vars PROVE [Http!Next]_(Http!vars)
  OBVIOUS
<1>1. CASE ClientSend
  <2>1. MaySend <= work.start[work.n + 1] /\ MaySend \in Nat /\ work.start[work.n + 1] \in Nat
    <3>1. work.n \in Nat /\ next \in Nat /\ work \in Workloads /\ next >= 1
      BY <1>1, Here DEF ClientSend, Serving
    <3>2. work.n + 1 \in 1 .. work.n + 1 /\ (next <= work.n => next + 1 \in 1 .. work.n + 1)
      BY <3>1
    <3>3. CASE next <= work.n
      <4>1. next + 1 <= work.n + 1 BY <3>1, <3>3
      <4>2. QED BY <3>1, <3>2, <3>3, <4>1, WorkTypes DEF MaySend
    <3>4. CASE ~(next <= work.n) BY <3>1, <3>2, <3>4, WorkTypes DEF MaySend
    <3>5. QED BY <3>3, <3>4
  <2>2. sent' \in sent + 1 .. work.start[work.n + 1]
    <3> DEFINE s1 == sent'
    <3> DEFINE m == MaySend
    <3> DEFINE e == work.start[work.n + 1]
    <3>1. s1 \in sent + 1 .. m /\ m <= e /\ m \in Nat /\ e \in Nat /\ sent \in Nat
      BY <1>1, <2>1 DEF ClientSend, IInv, TypeOK
    <3> HIDE DEF s1, m, e
    <3>2. s1 \in sent + 1 .. e BY <3>1
    <3>3. QED BY <3>2 DEF s1, e
  <2>3. QED BY <1>1, <2>2 DEF ClientSend, offsets, Http!Next, Http!Send
<1>2. CASE ClientClose BY <1>2 DEF ClientClose, offsets, Http!Next, Http!Leave
<1>3. CASE Accept BY <1>3 DEF Accept, Http!Next, Http!Accept
<1>4. CASE HeaderTooLong
  <2>1. pc = "header" /\ HeaderEnds = {} /\ pos = 0 /\ used >= MaxRequestSize /\ Return
    BY <1>4 DEF HeaderTooLong
  <2>2. MaxRequestSize \in Nat /\ MaxRequestSize > 0 BY RawConnAssumption
  <2>3. next \in 1 .. work.n BY <2>1, <2>2, NoHeaderEnd, Here DEF Serving
  <2>4. used < work.head[next] /\ work.head[next] \in Nat /\ work.body[next] \in Nat
    BY <2>1, <2>3, NoHeaderEnd, Here, WorkTypes DEF Serving
  <2>5. Oversized(next) BY <2>1, <2>2, <2>4, Here DEF Oversized, Serving
  <2>6. QED BY <2>1, <2>3, <2>5, RefinedReturn DEF Serving
<1>5. CASE \E end \in HeaderEnds : BodyTooLong(end)
  <2> PICK end \in HeaderEnds : BodyTooLong(end) BY <1>5
  <2>1. pc = "header" /\ FirstHeaderEnd(end) /\ TooBig(end) /\ Return BY DEF BodyTooLong
  <2>2. /\ next <= work.n /\ end = pos + work.head[next]
        /\ ContentLength(pos, end) = work.body[next]
    BY <2>1, HeaderEndIsOwn
  <2>3. next \in 1 .. work.n /\ pos \in Nat BY <2>1, <2>2, Here DEF Serving
  <2>4. work.head[next] \in Nat /\ work.body[next] \in Nat /\ MaxRequestSize \in Nat
    BY <2>1, <2>3, WorkTypes, Here, RawConnAssumption DEF Serving
  <2>5. Oversized(next) BY <2>1, <2>2, <2>3, <2>4 DEF TooBig, Oversized
  <2>6. QED BY <2>1, <2>3, <2>5, RefinedReturn DEF Serving
<1>6. CASE ReadFails \/ WriteFails
  BY <1>6, RefinedReturn DEF ReadFails, WriteFails, Serving
<1>7. CASE MoreHeader \/ (\E end \in HeaderEnds : HeaderDone(end)) \/ MoreBody
           \/ (\E n \in 1 .. MaxRequestSize : Read(n)) \/ Route
  BY <1>7 DEF MoreHeader, HeaderDone, MoreBody, Read, Route, peer, Http!vars
<1>8. CASE Write
  <2>1. /\ next \in 1 .. work.n /\ sent = work.start[next + 1]
        /\ resp = Expected(conn, work, next)
    BY <1>8, SerialWrite
  <2>2. Http!Fits(next) BY <1>8, <2>1, FitsIff DEF Write, IInv, Parsed, InBody
  <2>3. next <= work.n /\ work.start[next + 1] <= sent BY <2>1 DEF IInv, TypeOK
  <2>6. Expected(conn, work, next) = Http!Expected(conn, work, next)
    BY DEF Expected, Http!Expected, PathAt, Http!PathAt
  <2>7. answers' = Append(answers, Http!Expected(conn, work, next))
    BY <1>8, <2>1, <2>6 DEF Write
  <2>8. pc # "idle" /\ pc' # "idle" /\ UNCHANGED <<conn, work, client, sent>>
    BY <1>8 DEF Write, peer
  <2>9. Http!next = next BY DEF next, Http!next
  <2>4. Http!Answer BY <2>2, <2>3, <2>7, <2>8, <2>9 DEF Http!Answer
  <2>5. QED BY <2>4 DEF Http!Next
<1>9. CASE UNCHANGED vars BY <1>9 DEF vars, Http!vars
<1>10. QED
  BY <1>1, <1>2, <1>3, <1>4, <1>5, <1>6, <1>7, <1>8, <1>9 DEF Next, Server

\* With a client that waits for each answer, the connection loop implements
\* HttpConn: requests answered once, in order, by their own path and body.
THEOREM ImplementsHttpConn == ASSUME ~Pipelining PROVE Spec => Http!Spec
<1>1. IInv /\ SerialInv /\ [Next]_vars => [Http!Next]_(Http!vars) BY RefinedNext
<1>2. QED
  BY <1>1, RefinedInit, Invariance, SerialInvariance, PTL DEF Spec, Http!Spec

=============================================================================
