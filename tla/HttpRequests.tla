---------------------------- MODULE HttpRequests ----------------------------
(***************************************************************************)
(* The byte stream a client writes to one connection, cut into cells.  The *)
(* unit is a cell and not a byte: a request is a head of at least three    *)
(* cells (method, path, then header fields; the last one carries the empty *)
(* line) followed by its body.  The cell after the path carries the        *)
(* Content-Length field, the only field the server reads; a request        *)
(* without that field is one whose length is 0.                            *)
(*                                                                         *)
(* A workload w is a sequence of w.n requests laid end to end: request k   *)
(* starts at stream position w.start[k], w.head[k] cells of head and       *)
(* w.body[k] cells of body follow.  A cell is <<c, p>>: position p of the  *)
(* stream of connection c.                                                 *)
(***************************************************************************)
EXTENDS Integers, Sequences

PathAt == 1             \* offset of the path cell in a request
LengthAt == 2           \* offset of the Content-Length cell in a request
MinHead == 3            \* method, path, last header field

WellFormed(w) ==
  /\ w.n \in Nat
  /\ w.start \in [1 .. w.n + 1 -> Nat]
  /\ w.head \in [1 .. w.n -> Nat]
  /\ w.body \in [1 .. w.n -> Nat]
  /\ w.start[1] = 0
  /\ \A k \in 1 .. w.n :
       /\ w.head[k] >= MinHead
       /\ w.start[k + 1] = w.start[k] + w.head[k] + w.body[k]
  /\ \A j, k \in 1 .. w.n + 1 : j <= k => w.start[j] <= w.start[k]

\* The cell that carries the empty line ending the head of request k.
HeadLast(w, k) == w.start[k] + w.head[k] - 1

\* What a correct server hands to the router for request k of connection c.
Expected(c, w, k) ==
  [path |-> <<c, w.start[k] + PathAt>>,
   body |-> [i \in 1 .. w.body[k] |-> <<c, w.start[k] + w.head[k] + i - 1>>]]

=============================================================================
