------------------------------- MODULE FdPass -------------------------------
(***************************************************************************)
(* The fd-passing path: cmd/lb accepts a client, sends its socket over the *)
(* control connection of the upstream whose turn it is and closes its own  *)
(* copy; in the upstream, internal/fdpass accepts control connections, one *)
(* recvLoop each moves the sockets to a channel, and ServeFDChannel adopts *)
(* them.  Both programs may end at any point and be started again.  The    *)
(* kernel keeps what has been sent, until the receiver ends.               *)
(***************************************************************************)
EXTENDS Integers, Sequences, SequencesExt, FiniteSets

CONSTANTS
  NumClients,    \* clients that will connect
  Upstreams,     \* number of entries of UPSTREAMS
  CounterMod,    \* 2^32, the range of the atomic.Uint32 next
  SockCap,       \* messages a control connection holds
  ChanCap,       \* capacity of the channel out
  MaxRestarts,   \* bound on the restarts of the balancer and of each upstream
  Faults         \* may the kernel refuse a call for lack of descriptors?

ASSUME FdPassAssumption ==
  /\ NumClients \in Nat /\ MaxRestarts \in Nat /\ Faults \in BOOLEAN
  /\ \A n \in {Upstreams, CounterMod, SockCap, ChanCap} : n \in Nat \ {0}

Clients == 1 .. NumClients
Ups == 1 .. Upstreams
NoClient == 0
Conns == 1 .. Upstreams * (1 + MaxRestarts) + NumClients   \* dialed at a start or for a client

VARIABLES
  lb,         \* "dialing" | "accept" | "send" | "close" | "dead"
  ctrlFds,    \* the balancer's control descriptors, 0 for -1
  next,       \* the counter behind the turn
  target,     \* i, the upstream of the client in hand
  held,       \* connFd: the client in hand
  lbFds,      \* clients the balancer has an open descriptor of
  accepted,   \* clients taken from the listen queue so far
  ctrl,       \* the control connections made so far
  up,         \* is the upstream's process running?
  listener,   \* "running" | "exited": its acceptLoop
  chan,       \* [q, open]: its channel
  served,     \* clients adopted by ServeFDChannel
  restarts,   \* of each upstream
  lbRestarts,
  assigned,   \* clients dealt to each upstream since the balancer started
  failedUp    \* those dealt to a running upstream over a broken connection

balancer == <<lb, ctrlFds, next, target, held, lbFds, accepted, assigned, failedUp, lbRestarts>>
upstream == <<up, listener, chan, served, restarts>>

vars == <<balancer, ctrl, upstream>>

Dialed(u) == [to |-> u, queue |-> <<>>, hand |-> NoClient, lb |-> TRUE, api |-> "backlog"]
\* The receiving end is closed: what was queued is gone with it.
Ended(k) == [k EXCEPT !.api = "gone", !.queue = <<>>, !.hand = NoClient]
-----------------------------------------------------------------------------
(* cmd/lb                                                                  *)

\* dialCtrl of every upstream; log.Fatalf if one does not answer.
Dial ==
  /\ lb = "dialing"
  /\ IF \A u \in Ups : up[u]
     THEN /\ ctrl' = ctrl \o [u \in Ups |-> Dialed(u)]
          /\ ctrlFds' = [u \in Ups |-> Len(ctrl) + u]
          /\ lb' = "accept"
     ELSE lb' = "dead" /\ UNCHANGED <<ctrl, ctrlFds>>
  /\ UNCHANGED <<next, target, held, lbFds, accepted, assigned, failedUp, lbRestarts, upstream>>

\* Mutant: the turn passes on only when the upstream's connection is alive.
AcceptCountsLive ==
  /\ lb = "accept" /\ accepted < NumClients
  /\ accepted' = accepted + 1
  /\ held' = accepted + 1 /\ lbFds' = lbFds \cup {held'}
  /\ target' = (next % Upstreams) + 1
  /\ next' = IF ctrlFds[target'] = 0 \/ ctrl[ctrlFds[target']].api = "gone" THEN next
             ELSE (next + 1) % CounterMod
  /\ assigned' = [assigned EXCEPT ![target'] = @ + 1]
  /\ lb' = "send"
  /\ UNCHANGED <<ctrlFds, ctrl, failedUp, lbRestarts, upstream>>

\* accept4 and the turn: int(next.Add(1)-1) % len(upstreams).
Accept ==
  /\ lb = "accept" /\ accepted < NumClients
  /\ accepted' = accepted + 1
  /\ held' = accepted + 1 /\ lbFds' = lbFds \cup {held'}
  /\ target' = (next % Upstreams) + 1
  /\ next' = (next + 1) % CounterMod
  /\ assigned' = [assigned EXCEPT ![target'] = @ + 1]
  /\ lb' = "send"
  /\ UNCHANGED <<ctrlFds, ctrl, failedUp, lbRestarts, upstream>>

Broken(i) == ctrlFds[i] # 0 => ctrl[ctrlFds[i]].api = "gone"

\* sendFd.  sendmsg blocks while the connection is full.
Send ==
  /\ lb = "send" /\ ~Broken(target)
  /\ LET k == ctrlFds[target] IN
       /\ Len(ctrl[k].queue) < SockCap
       /\ ctrl' = [ctrl EXCEPT ![k].queue = Append(@, held)]
  /\ lb' = "close"
  /\ UNCHANGED <<ctrlFds, next, target, held, lbFds, accepted, assigned, failedUp, lbRestarts, upstream>>

\* The descriptors left after closing ctrlFds[target].
HungUp(cs) ==
  [k \in 1 .. Len(cs) |-> IF k = ctrlFds[target] THEN [cs[k] EXCEPT !.lb = FALSE] ELSE cs[k]]

\* Mutants: the new descriptor is not kept; the old one is not closed.
ReconnectForgets ==
  /\ lb = "send" /\ Broken(target)
  /\ ctrl' = HungUp(ctrl)
  /\ ctrlFds' = [ctrlFds EXCEPT ![target] = 0]
  /\ failedUp' = IF up[target] THEN [failedUp EXCEPT ![target] = @ + 1] ELSE failedUp
  /\ lb' = "close"
  /\ UNCHANGED <<next, target, held, lbFds, accepted, assigned, lbRestarts, upstream>>

ReconnectKeepsOld ==
  /\ lb = "send" /\ Broken(target)
  /\ IF up[target] THEN /\ ctrl' = Append(ctrl, Dialed(target))
                        /\ ctrlFds' = [ctrlFds EXCEPT ![target] = Len(ctrl) + 1]
     ELSE /\ ctrlFds' = [ctrlFds EXCEPT ![target] = 0]
          /\ UNCHANGED ctrl
  /\ failedUp' = IF up[target] THEN [failedUp EXCEPT ![target] = @ + 1] ELSE failedUp
  /\ lb' = "close"
  /\ UNCHANGED <<next, target, held, lbFds, accepted, assigned, lbRestarts, upstream>>

\* sendFd failed: close the control descriptor and dial once.  The client in
\* hand is not sent again.
Reconnect ==
  /\ lb = "send" /\ Broken(target)
  /\ IF up[target] THEN /\ ctrl' = Append(HungUp(ctrl), Dialed(target))
                        /\ ctrlFds' = [ctrlFds EXCEPT ![target] = Len(ctrl) + 1]
     ELSE /\ ctrl' = HungUp(ctrl)
          /\ ctrlFds' = [ctrlFds EXCEPT ![target] = 0]
  /\ failedUp' = IF up[target] THEN [failedUp EXCEPT ![target] = @ + 1] ELSE failedUp
  /\ lb' = "close"
  /\ UNCHANGED <<next, target, held, lbFds, accepted, assigned, lbRestarts, upstream>>

\* unix.Close(connFd), sent or not.
Close ==
  /\ lb = "close"
  /\ lbFds' = lbFds \ {held}
  /\ held' = NoClient
  /\ lb' = "accept"
  /\ UNCHANGED <<ctrlFds, next, target, accepted, assigned, failedUp, ctrl, lbRestarts, upstream>>

Balancer == Dial \/ Accept \/ Send \/ Reconnect \/ Close

\* The balancer ends and the kernel closes its descriptors.
BalancerEnds ==
  /\ lb # "dead"
  /\ lb' = "dead" /\ held' = NoClient /\ lbFds' = {}
  /\ ctrl' = [k \in 1 .. Len(ctrl) |-> [ctrl[k] EXCEPT !.lb = FALSE]]
  /\ ctrlFds' = [u \in Ups |-> 0]
  /\ next' = 0 /\ assigned' = [u \in Ups |-> 0] /\ failedUp' = [u \in Ups |-> 0]
  /\ UNCHANGED <<target, accepted, lbRestarts, upstream>>

BalancerStarts ==
  /\ lb = "dead" /\ lbRestarts < MaxRestarts
  /\ lbRestarts' = lbRestarts + 1
  /\ lb' = "dialing"
  /\ UNCHANGED <<ctrlFds, next, target, held, lbFds, accepted, assigned, failedUp, ctrl, upstream>>
-----------------------------------------------------------------------------
(* internal/fdpass and ServeFDChannel, in upstream u                       *)

Owned(u, k) == k \in 1 .. Len(ctrl) /\ ctrl[k].to = u /\ ctrl[k].api # "gone"

\* The process of u ends: its connections, its channel, its clients.
Ends(u) ==
  /\ up' = [up EXCEPT ![u] = FALSE]
  /\ listener' = [listener EXCEPT ![u] = "exited"]
  /\ chan' = [chan EXCEPT ![u] = [q |-> <<>>, open |-> FALSE]]
  /\ served' = [served EXCEPT ![u] = {}]
  /\ ctrl' = [k \in 1 .. Len(ctrl) |-> IF Owned(u, k) THEN Ended(ctrl[k]) ELSE ctrl[k]]
  /\ UNCHANGED <<balancer, restarts>>

UpstreamEnds(u) == up[u] /\ Ends(u)

\* Listen unlinks the old path and opens a new listener and channel.
UpstreamStarts(u) ==
  /\ ~up[u] /\ restarts[u] < MaxRestarts
  /\ restarts' = [restarts EXCEPT ![u] = @ + 1]
  /\ up' = [up EXCEPT ![u] = TRUE]
  /\ listener' = [listener EXCEPT ![u] = "running"]
  /\ chan' = [chan EXCEPT ![u] = [q |-> <<>>, open |-> TRUE]]
  /\ UNCHANGED <<balancer, ctrl, served>>

FirstInBacklog(u, k) ==
  /\ Owned(u, k) /\ ctrl[k].api = "backlog"
  /\ \A j \in 1 .. k - 1 : ~(Owned(u, j) /\ ctrl[j].api = "backlog")

\* Mutant: recvLoop is called, not started: the next connection waits for it.
AcceptCtrlInline(u, k) ==
  /\ listener[u] = "running" /\ FirstInBacklog(u, k)
  /\ \A j \in 1 .. Len(ctrl) : Owned(u, j) => ctrl[j].api # "loop"
  /\ ctrl' = [ctrl EXCEPT ![k].api = "loop"]
  /\ UNCHANGED <<balancer, upstream>>

\* acceptLoop: accept4 and go recvLoop.
AcceptCtrl(u, k) ==
  /\ listener[u] = "running" /\ FirstInBacklog(u, k)
  /\ ctrl' = [ctrl EXCEPT ![k].api = "loop"]
  /\ UNCHANGED <<balancer, upstream>>

\* acceptLoop: any other error ends it, and the deferred close(out) runs.
AcceptCtrlFails(u) ==
  /\ Faults /\ listener[u] = "running"
  /\ listener' = [listener EXCEPT ![u] = "exited"]
  /\ chan' = [chan EXCEPT ![u].open = FALSE]
  /\ UNCHANGED <<balancer, ctrl, up, served, restarts>>

\* recvLoop: Recvmsg yields one message with its descriptor.  With nothing
\* queued it blocks, or, the peer having closed, returns at once without a
\* descriptor and is called again: no step either way.
Recv(u, k) ==
  /\ Owned(u, k) /\ ctrl[k].api = "loop"
  /\ ctrl[k].hand = NoClient /\ ctrl[k].queue # <<>>
  /\ ctrl' = [ctrl EXCEPT ![k].hand = Head(ctrl[k].queue), ![k].queue = Tail(@)]
  /\ UNCHANGED <<balancer, upstream>>

\* Recvmsg fails: the loop returns and closes the connection.
RecvFails(u, k) ==
  /\ Faults /\ Owned(u, k) /\ ctrl[k].api = "loop" /\ ctrl[k].hand = NoClient
  /\ ctrl' = [ctrl EXCEPT ![k] = Ended(@)]
  /\ UNCHANGED <<balancer, upstream>>

\* SetNonblock fails and the descriptor is closed.
NonblockFails(u, k) ==
  /\ Faults /\ Owned(u, k) /\ ctrl[k].hand # NoClient
  /\ ctrl' = [ctrl EXCEPT ![k].hand = NoClient]
  /\ UNCHANGED <<balancer, upstream>>

\* Mutant: the push gives up on a full channel.
PushOrDrop(u, k) ==
  /\ Owned(u, k) /\ ctrl[k].hand # NoClient /\ chan[u].open
  /\ chan' = IF Len(chan[u].q) < ChanCap
             THEN [chan EXCEPT ![u].q = Append(@, ctrl[k].hand)] ELSE chan
  /\ ctrl' = [ctrl EXCEPT ![k].hand = NoClient]
  /\ UNCHANGED <<balancer, up, listener, served, restarts>>

\* Mutant: one socket more than the channel holds.
PushOneMore(u, k) ==
  /\ Owned(u, k) /\ ctrl[k].hand # NoClient
  /\ chan[u].open /\ Len(chan[u].q) <= ChanCap
  /\ chan' = [chan EXCEPT ![u].q = Append(@, ctrl[k].hand)]
  /\ ctrl' = [ctrl EXCEPT ![k].hand = NoClient]
  /\ UNCHANGED <<balancer, up, listener, served, restarts>>

\* out <- fd, which waits for room.
Push(u, k) ==
  /\ Owned(u, k) /\ ctrl[k].hand # NoClient
  /\ chan[u].open /\ Len(chan[u].q) < ChanCap
  /\ chan' = [chan EXCEPT ![u].q = Append(@, ctrl[k].hand)]
  /\ ctrl' = [ctrl EXCEPT ![k].hand = NoClient]
  /\ UNCHANGED <<balancer, up, listener, served, restarts>>

\* out <- fd on the channel acceptLoop has closed: the process panics.
PushPanics(u, k) ==
  /\ Owned(u, k) /\ ctrl[k].hand # NoClient /\ ~chan[u].open
  /\ Ends(u)

\* Mutant: every process adopts what any channel holds.
AdoptTwice(u) ==
  /\ up[u] /\ chan[u].q # <<>>
  /\ chan' = [chan EXCEPT ![u].q = Tail(@)]
  /\ served' = [v \in Ups |-> IF up[v] THEN served[v] \cup {Head(chan[u].q)} ELSE served[v]]
  /\ UNCHANGED <<balancer, ctrl, up, listener, restarts>>

\* ServeFDChannel: a socket becomes a connection with its goroutine.
Adopt(u) ==
  /\ up[u] /\ chan[u].q # <<>>
  /\ chan' = [chan EXCEPT ![u].q = Tail(@)]
  /\ served' = [served EXCEPT ![u] = @ \cup {Head(chan[u].q)}]
  /\ UNCHANGED <<balancer, ctrl, up, listener, restarts>>

\* net.FileConn fails and the descriptor is closed.
AdoptFails(u) ==
  /\ Faults /\ up[u] /\ chan[u].q # <<>>
  /\ chan' = [chan EXCEPT ![u].q = Tail(@)]
  /\ UNCHANGED <<balancer, ctrl, up, listener, served, restarts>>

Step(u) ==
  \/ Adopt(u)
  \/ \E k \in Conns : AcceptCtrl(u, k) \/ Push(u, k) \/ PushPanics(u, k) \/ Recv(u, k)

Failure(u) ==
  \/ AcceptCtrlFails(u) \/ AdoptFails(u)
  \/ \E k \in Conns : RecvFails(u, k) \/ NonblockFails(u, k)
-----------------------------------------------------------------------------
Init ==
  /\ lb = "dialing" /\ ctrlFds = [u \in Ups |-> 0]
  /\ next = 0 /\ target = 1 /\ held = NoClient /\ lbFds = {} /\ accepted = 0
  /\ assigned = [u \in Ups |-> 0] /\ failedUp = [u \in Ups |-> 0]
  /\ ctrl = <<>>
  /\ up = [u \in Ups |-> TRUE] /\ listener = [u \in Ups |-> "running"]
  /\ chan = [u \in Ups |-> [q |-> <<>>, open |-> TRUE]]
  /\ served = [u \in Ups |-> {}]
  /\ restarts = [u \in Ups |-> 0] /\ lbRestarts = 0

Next ==
  \/ Balancer \/ BalancerEnds \/ BalancerStarts
  \/ \E u \in Ups : Step(u) \/ Failure(u) \/ UpstreamEnds(u) \/ UpstreamStarts(u)

Spec == Init /\ [][Next]_vars

\* Each thread and goroutine runs when it can; nobody must come, end or start.
FairSpec ==
  /\ Spec /\ WF_vars(Dial \/ Send \/ Reconnect \/ Close)
  /\ \A u \in Ups : /\ WF_vars(Adopt(u))
                    /\ \A k \in Conns : /\ WF_vars(AcceptCtrl(u, k)) /\ WF_vars(Recv(u, k))
                                        /\ WF_vars(Push(u, k)) /\ WF_vars(PushPanics(u, k))
-----------------------------------------------------------------------------
TypeOK ==
  /\ lb \in {"dialing", "accept", "send", "close", "dead"}
  /\ ctrlFds \in [Ups -> 0 .. Len(ctrl)]
  /\ next \in 0 .. CounterMod - 1 /\ target \in Ups
  /\ held \in Clients \cup {NoClient} /\ lbFds \subseteq Clients
  /\ accepted \in 0 .. NumClients
  /\ assigned \in [Ups -> Nat] /\ failedUp \in [Ups -> Nat]
  /\ Len(ctrl) \in {0} \cup Conns
  /\ \A k \in 1 .. Len(ctrl) :
       /\ ctrl[k].to \in Ups /\ ctrl[k].hand \in Clients \cup {NoClient}
       /\ Len(ctrl[k].queue) <= SockCap /\ ToSet(ctrl[k].queue) \subseteq Clients
       /\ ctrl[k].lb \in BOOLEAN /\ ctrl[k].api \in {"backlog", "loop", "gone"}
  /\ up \in [Ups -> BOOLEAN] /\ listener \in [Ups -> {"running", "exited"}]
  /\ \A u \in Ups :
       /\ Len(chan[u].q) <= ChanCap /\ ToSet(chan[u].q) \subseteq Clients
       /\ chan[u].open \in BOOLEAN
       /\ served[u] \subseteq Clients
  /\ restarts \in [Ups -> 0 .. MaxRestarts] /\ lbRestarts \in 0 .. MaxRestarts

\* The balancer holds the descriptor of the client in hand and one control
\* descriptor per upstream, whatever failed and however often it redialed.
NoFdLeak ==
  /\ lbFds = {held} \ {NoClient}
  /\ {k \in 1 .. Len(ctrl) : ctrl[k].lb} = {ctrlFds[u] : u \in Ups} \ {0}

\* "Simple round-robin": since the balancer started, no upstream was dealt two
\* clients more than another, dead ones included.
Balanced == \A u, v \in Ups : assigned[u] <= assigned[v] + 1

\* Redialing works: a client dealt to a running upstream is lost to a broken
\* control connection at most once per restart of that upstream.
OneLossPerRestart == \A u \in Ups : failedUp[u] <= restarts[u]

Sent(c, k) == c = ctrl[k].hand \/ c \in ToSet(ctrl[k].queue)

InTransit(c) ==
  \/ \E k \in 1 .. Len(ctrl) : Sent(c, k)
  \/ \E u \in Ups : c \in ToSet(chan[u].q)

\* Nobody is left hanging: a client the balancer accepted is adopted by an
\* upstream or its socket is closed.
Settled ==
  \A c \in Clients : (c \in lbFds \/ InTransit(c)) ~> ~(c \in lbFds \/ InTransit(c))

Undisturbed ==
  ~Faults /\ lb # "dead" /\ lbRestarts = 0 /\ \A u \in Ups : up[u] /\ restarts[u] = 0

\* While nothing ended and the kernel refused nothing, every client accepted
\* is in the balancer's hand, on its way or adopted: full queues delay only.
NobodyLost ==
  Undisturbed => \A c \in 1 .. accepted :
                   c \in lbFds \/ InTransit(c) \/ \E u \in Ups : c \in served[u]

\* The comment on recvLoop (recv_linux.go:62-64): every descriptor received is
\* pushed to out, which therefore is open while a recvLoop has one in hand.
EveryFdPushed ==
  \A k \in 1 .. Len(ctrl) : ctrl[k].hand # NoClient => chan[ctrl[k].to].open
-----------------------------------------------------------------------------
\* Where a client is; on its way it belongs to the upstream it was dealt to.
Serves(u, c) == c \in served[u]
Carries(u, c) ==
  \/ c = held /\ lb = "send" /\ u = target
  \/ \E k \in 1 .. Len(ctrl) : Sent(c, k) /\ ctrl[k].to = u
  \/ c \in ToSet(chan[u].q)

Carriers(c) == {u \in Ups : Carries(u, c)}
Servers(c) == {u \in Ups : Serves(u, c)}

PlaceOf(carriers, servers) ==
  IF carriers # {} THEN [is |-> "moving", by |-> CHOOSE u \in carriers : TRUE]
  ELSE IF servers # {} THEN [is |-> "serving", by |-> CHOOSE u \in servers : TRUE]
  ELSE [is |-> "closed", by |-> 0]

Place(c) ==
  IF c > accepted THEN [is |-> "waiting", by |-> 0] ELSE PlaceOf(Carriers(c), Servers(c))

Dispatch == INSTANCE FdDispatch WITH turn <- next, at <- [c \in Clients |-> Place(c)]

\* Clients go out in turn, one upstream each, and never come back.
DispatchSpec == Dispatch!Spec

=============================================================================
