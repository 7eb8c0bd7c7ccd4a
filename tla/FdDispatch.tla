----------------------------- MODULE FdDispatch -----------------------------
(***************************************************************************)
(* What handing client sockets over promises: the balancer deals clients   *)
(* to the upstreams in turn, in the order they came; a client is with the  *)
(* balancer or on its way, then served by the one upstream it was dealt    *)
(* to, or closed, and a closed client never comes back.  FdPass implements *)
(* it.                                                                     *)
(***************************************************************************)
EXTENDS Integers

CONSTANTS Clients, Upstreams, CounterMod

Waiting == [is |-> "waiting", by |-> 0]
Closed == [is |-> "closed", by |-> 0]
Moving(u) == [is |-> "moving", by |-> u]
Serving(u) == [is |-> "serving", by |-> u]

Places ==
  {Waiting, Closed} \cup {Moving(u) : u \in 1 .. Upstreams} \cup {Serving(u) : u \in 1 .. Upstreams}

VARIABLES turn, at

vars == <<turn, at>>

Init ==
  /\ turn = 0
  /\ at = [c \in Clients |-> Waiting]

Taker == (turn % Upstreams) + 1

Deal(c) ==
  /\ at[c] = Waiting /\ \A d \in Clients : d < c => at[d] # Waiting
  /\ at' = [at EXCEPT ![c] = Moving(Taker)]
  /\ turn' = (turn + 1) % CounterMod

Arrive(c) ==
  /\ \E u \in 1 .. Upstreams :
       at[c] = Moving(u) /\ at' = [at EXCEPT ![c] = Serving(u)]
  /\ UNCHANGED turn

\* One client is let go, ...
Drop(c) ==
  /\ at[c].is = "moving"
  /\ at' = [at EXCEPT ![c] = Closed]
  /\ UNCHANGED turn

\* ... or an upstream ends, and with it whom it served and some of those on
\* their way to it, ...
UpstreamEnds(u) ==
  /\ at' \in [Clients -> Places]
  /\ \A c \in Clients :
       \/ at[c] # Serving(u) /\ at'[c] = at[c]
       \/ at[c] \in {Serving(u), Moving(u)} /\ at'[c] = Closed
  /\ UNCHANGED turn

\* ... or the balancer does, with the one in its hand; a new one starts over.
BalancerEnds ==
  /\ \/ UNCHANGED at
     \/ \E c \in Clients : at[c].is = "moving" /\ at' = [at EXCEPT ![c] = Closed]
  /\ turn' = 0

Next ==
  \/ \E c \in Clients : Deal(c) \/ Arrive(c) \/ Drop(c)
  \/ \E u \in 1 .. Upstreams : UpstreamEnds(u)
  \/ BalancerEnds

Spec == Init /\ [][Next]_vars

=============================================================================
