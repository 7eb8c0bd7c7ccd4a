---------------------------- MODULE FdPassProofs ----------------------------
(***************************************************************************)
(* Theorems about FdPass, for any number of clients, upstreams, restarts   *)
(* and queue sizes: no descriptor leaks on any path, turns stay even over  *)
(* the wrap of the counter, a restart costs one client, without a          *)
(* disturbance no client is lost, and FdDispatch is implemented.           *)
(***************************************************************************)
EXTENDS FdPass, TLAPS

Connections ==
  [to : Ups, queue : Seq(Clients), hand : Clients \cup {NoClient},
   lb : BOOLEAN, api : {"backlog", "loop", "gone"}]

Channels == [q : Seq(Clients), open : BOOLEAN]

Dealing == {"accept", "send", "close"}

Types ==
  /\ lb \in {"dialing", "dead"} \cup Dealing
  /\ ctrlFds \in [Ups -> Nat] /\ \A u \in Ups : ctrlFds[u] <= Len(ctrl)
  /\ next \in 0 .. CounterMod - 1 /\ target \in Ups
  /\ held \in Clients \cup {NoClient} /\ lbFds \subseteq Clients
  /\ accepted \in 0 .. NumClients
  /\ assigned \in [Ups -> Nat] /\ failedUp \in [Ups -> Nat]
  /\ ctrl \in Seq(Connections)
  /\ up \in [Ups -> BOOLEAN] /\ listener \in [Ups -> {"running", "exited"}]
  /\ chan \in [Ups -> Channels] /\ served \in [Ups -> SUBSET Clients]
  /\ restarts \in [Ups -> 0 .. MaxRestarts] /\ lbRestarts \in 0 .. MaxRestarts

\* Queues and channels within their capacity.
Capacities ==
  /\ \A k \in 1 .. Len(ctrl) : Len(ctrl[k].queue) <= SockCap
  /\ \A u \in Ups : Len(chan[u].q) <= ChanCap

\* A control connection was made for an upstream at a start of the balancer or
\* for a client whose turn has ended.
Dials ==
  Len(ctrl) <= Upstreams * (IF lb = "dialing" THEN lbRestarts ELSE lbRestarts + 1)
               + (IF lb = "send" THEN accepted - 1 ELSE accepted)

\* The client in hand is the one open descriptor of a client.
Hand ==
  /\ lbFds = {held} \ {NoClient}
  /\ held # NoClient <=> lb \in {"send", "close"}

\* The descriptor of a control connection is open as long as it is the one
\* kept for its upstream.
Kept ==
  /\ \A k \in 1 .. Len(ctrl) : ctrl[k].lb <=> ctrlFds[ctrl[k].to] = k
  /\ \A u \in Ups : ctrlFds[u] # 0 => ctrl[ctrlFds[u]].to = u
  /\ lb \notin Dealing => \A u \in Ups : ctrlFds[u] = 0

\* A broken connection to a running upstream has a restart behind it that no
\* loss was yet charged to.
Losses ==
  \A u \in Ups :
    /\ failedUp[u] <= restarts[u]
    /\ lb \notin Dealing => failedUp[u] = 0
    /\ lb \in Dealing /\ Broken(u) /\ up[u] => failedUp[u] < restarts[u]

\* The upstreams numbered up to the turn have had one client more.
Turns ==
  \E n \in Nat : \A u \in Ups :
    assigned[u] = IF u <= next % Upstreams THEN n + 1 ELSE n

Placed(c) == InTransit(c) \/ \E u \in Ups : c \in served[u]

\* While nothing is disturbed, all connections and channels are open, and the
\* client whose turn has ended is on its way.
Open ==
  Undisturbed =>
    /\ \A k \in 1 .. Len(ctrl) : ctrl[k].api # "gone"
    /\ \A u \in Ups : chan[u].open
    /\ lb \in Dealing => \A u \in Ups : ctrlFds[u] # 0
    /\ lb = "close" => Placed(held)
    /\ \A c \in 1 .. accepted : c \in lbFds \/ Placed(c)

IInv ==
  /\ Types /\ Capacities /\ Dials /\ Hand /\ Kept
  /\ ~Faults => Losses
  /\ CounterMod % Upstreams = 0 => Turns
  /\ Open
-----------------------------------------------------------------------------
(* Sequences                                                               *)

LEMMA UpdateSeq ==
  ASSUME NEW S, NEW s \in Seq(S), NEW k \in 1 .. Len(s), NEW v \in S
  PROVE  LET q == [s EXCEPT ![k] = v]
         IN  /\ q \in Seq(S) /\ Len(q) = Len(s) /\ Len(s) \in Nat
             /\ \A j \in 1 .. Len(s) : q[j] = IF j = k THEN v ELSE s[j]
OBVIOUS

LEMMA MapSeq ==
  ASSUME NEW S, NEW n \in Nat, NEW f, f \in [1 .. n -> S]
  PROVE  f \in Seq(S) /\ Len(f) = n
OBVIOUS

LEMMA AppendSeq ==
  ASSUME NEW S, NEW s \in Seq(S), NEW v \in S
  PROVE  /\ Append(s, v) \in Seq(S) /\ Len(s) \in Nat /\ Len(Append(s, v)) = Len(s) + 1
         /\ \A j \in 1 .. Len(s) : Append(s, v)[j] = s[j]
         /\ Append(s, v)[Len(s) + 1] = v
OBVIOUS

LEMMA ConcatSeq ==
  ASSUME NEW S, NEW s \in Seq(S), NEW t \in Seq(S)
  PROVE  /\ s \o t \in Seq(S) /\ Len(s) \in Nat /\ Len(t) \in Nat
         /\ Len(s \o t) = Len(s) + Len(t)
         /\ \A j \in 1 .. Len(s) : (s \o t)[j] = s[j]
         /\ \A j \in 1 .. Len(t) : (s \o t)[Len(s) + j] = t[j]
OBVIOUS

LEMMA TailSeq ==
  ASSUME NEW S, NEW s \in Seq(S), s # <<>>
  PROVE  /\ Tail(s) \in Seq(S) /\ Head(s) \in S /\ Len(s) \in Nat \ {0}
         /\ Len(Tail(s)) = Len(s) - 1
         /\ \A j \in 1 .. Len(s) - 1 : Tail(s)[j] = s[j + 1]
         /\ Head(s) = s[1]
OBVIOUS

\* What a sequence holds, after an append and after its head was taken.
LEMMA Contents ==
  ASSUME NEW S, NEW s \in Seq(S)
  PROVE  /\ ToSet(s) \subseteq S
         /\ ToSet(<<>>) = {}
         /\ \A v \in S : ToSet(Append(s, v)) = ToSet(s) \cup {v}
         /\ s # <<>> => ToSet(s) = {Head(s)} \cup ToSet(Tail(s))
<1>1. ToSet(s) = {s[j] : j \in 1 .. Len(s)} BY DEF ToSet
<1>2. ASSUME NEW v \in S PROVE ToSet(Append(s, v)) = ToSet(s) \cup {v}
  <2> DEFINE t == Append(s, v)
  <2>1. /\ Len(s) \in Nat /\ DOMAIN t = 1 .. Len(s) + 1 /\ t[Len(s) + 1] = v
        /\ \A j \in 1 .. Len(s) : t[j] = s[j]
    OBVIOUS
  <2>2. ToSet(t) = {t[j] : j \in DOMAIN t} BY DEF ToSet
  <2> HIDE DEF t
  <2>3. QED BY <1>1, <2>1, <2>2 DEF t
<1>3. ASSUME s # <<>> PROVE ToSet(s) = {Head(s)} \cup ToSet(Tail(s))
  <2> DEFINE t == Tail(s)
  <2>1. /\ Len(s) \in Nat \ {0} /\ DOMAIN t = 1 .. Len(s) - 1 /\ Head(s) = s[1]
        /\ \A j \in 1 .. Len(s) - 1 : t[j] = s[j + 1]
    BY <1>3
  <2>2. ToSet(t) = {t[j] : j \in DOMAIN t} BY DEF ToSet
  <2> HIDE DEF t
  <2>3. ASSUME NEW j \in 1 .. Len(s) PROVE s[j] \in {s[1]} \cup ToSet(t)
    <3>1. CASE j = 1 BY <3>1
    <3>2. CASE j # 1
      <4>1. j - 1 \in 1 .. Len(s) - 1 /\ (j - 1) + 1 = j BY <2>1, <3>2
      <4>2. QED BY <2>1, <2>2, <4>1
    <3>3. QED BY <3>1, <3>2
  <2>4. ASSUME NEW j \in DOMAIN t PROVE t[j] \in ToSet(s)
    <3>1. j + 1 \in 1 .. Len(s) /\ t[j] = s[j + 1] BY <2>1
    <3>2. QED BY <1>1, <3>1
  <2>5. s[1] \in ToSet(s) BY <1>1, <2>1
  <2>6. QED BY <1>1, <2>1, <2>2, <2>3, <2>4, <2>5 DEF t
<1>4. ToSet(<<>>) = {} BY DEF ToSet
<1>5. ToSet(s) \subseteq S BY <1>1
<1>6. QED BY <1>2, <1>3, <1>4, <1>5
-----------------------------------------------------------------------------
(* What each step does to the control connections                          *)

Sized == /\ ctrl \in Seq(Connections) /\ Len(ctrl) \in Nat
         /\ \A k \in 1 .. Len(ctrl) : ctrl[k] \in Connections

LEMMA CtrlSized == ASSUME Types PROVE Sized
BY DEF Types, Sized

\* Nothing was dialed and no descriptor of the balancer closed.
SameEnds ==
  /\ ctrl' \in Seq(Connections) /\ Len(ctrl') = Len(ctrl)
  /\ \A j \in 1 .. Len(ctrl) : ctrl'[j].to = ctrl[j].to /\ ctrl'[j].lb = ctrl[j].lb

LEMMA DialEffect ==
  ASSUME Types, Dial, \A u \in Ups : up[u]
  PROVE  /\ lb = "dialing" /\ lb' = "accept"
         /\ ctrl' \in Seq(Connections) /\ Len(ctrl') = Len(ctrl) + Upstreams
         /\ \A j \in 1 .. Len(ctrl) : ctrl'[j] = ctrl[j]
         /\ \A u \in Ups : ctrl'[Len(ctrl) + u] = Dialed(u) /\ ctrlFds'[u] = Len(ctrl) + u
         /\ ctrlFds' \in [Ups -> Nat]
<1> DEFINE d == [u \in Ups |-> Dialed(u)]
<1>1. Upstreams \in Nat BY FdPassAssumption
<1>2. d \in [1 .. Upstreams -> Connections]
  <2>1. ASSUME NEW u \in Ups PROVE Dialed(u) \in Connections
    <3>1. <<>> \in Seq(Clients) OBVIOUS
    <3>2. QED BY <3>1 DEF Dialed, Connections
  <2>2. QED BY <2>1 DEF Ups
<1>3. d \in Seq(Connections) /\ Len(d) = Upstreams BY <1>1, <1>2, MapSeq
<1>4. ctrl' = ctrl \o d /\ ctrlFds' = [u \in Ups |-> Len(ctrl) + u] /\ lb = "dialing" /\ lb' = "accept"
  BY DEF Dial
<1>5. \A u \in Ups : d[u] = Dialed(u) OBVIOUS
<1> HIDE DEF d
<1>6. /\ ctrl \o d \in Seq(Connections) /\ Len(ctrl) \in Nat /\ Len(ctrl \o d) = Len(ctrl) + Upstreams
      /\ \A j \in 1 .. Len(ctrl) : (ctrl \o d)[j] = ctrl[j]
      /\ \A j \in 1 .. Upstreams : (ctrl \o d)[Len(ctrl) + j] = d[j]
  <2>1. ctrl \in Seq(Connections) BY CtrlSized DEF Sized
  <2>2. /\ ctrl \o d \in Seq(Connections) /\ Len(ctrl) \in Nat /\ Len(ctrl \o d) = Len(ctrl) + Len(d)
        /\ \A j \in 1 .. Len(ctrl) : (ctrl \o d)[j] = ctrl[j]
        /\ \A j \in 1 .. Len(d) : (ctrl \o d)[Len(ctrl) + j] = d[j]
    <3>1. d \in Seq(Connections) BY <1>3
    <3>2. QED BY <2>1, <3>1, ConcatSeq
  <2>3. QED BY <1>3, <2>2
<1>7. ctrlFds' \in [Ups -> Nat] BY <1>1, <1>4, <1>6 DEF Ups
<1>8. QED BY <1>4, <1>5, <1>6, <1>7 DEF Ups

\* One connection changes, but neither its ends nor any other connection.
Only(k, v) ==
  /\ k \in 1 .. Len(ctrl) /\ ctrl' = [ctrl EXCEPT ![k] = v]
  /\ v \in Connections /\ v.to = ctrl[k].to /\ v.lb = ctrl[k].lb

LEMMA OnlyEffect ==
  ASSUME Types, NEW k, NEW v, Only(k, v)
  PROVE  /\ SameEnds /\ ctrl'[k] = v
         /\ \A j \in 1 .. Len(ctrl) : j # k => ctrl'[j] = ctrl[j]
<1>1. /\ ctrl' \in Seq(Connections) /\ Len(ctrl') = Len(ctrl)
      /\ \A j \in 1 .. Len(ctrl) : ctrl'[j] = IF j = k THEN v ELSE ctrl[j]
  <2> DEFINE q == [ctrl EXCEPT ![k] = v]
  <2>1. /\ q \in Seq(Connections) /\ Len(q) = Len(ctrl)
        /\ \A j \in 1 .. Len(ctrl) : q[j] = IF j = k THEN v ELSE ctrl[j]
    BY CtrlSized, UpdateSeq DEF Only, Sized
  <2>2. ctrl' = q BY DEF Only
  <2> HIDE DEF q
  <2>3. QED BY <2>1, <2>2
<1>2. QED BY <1>1 DEF Only, SameEnds

LEMMA SendEffect ==
  ASSUME Types, Hand, Send
  PROVE  LET k == ctrlFds[target]
         IN  /\ Only(k, [ctrl[k] EXCEPT !.queue = Append(@, held)])
             /\ ctrl[k].api # "gone" /\ held \in Clients
             /\ Len(ctrl[k].queue) < SockCap
<1> DEFINE k == ctrlFds[target]
<1>1. /\ lb = "send" /\ ~Broken(target) /\ Len(ctrl[k].queue) < SockCap
      /\ ctrl' = [ctrl EXCEPT ![k].queue = Append(@, held)]
  BY DEF Send
<1>2. k # 0 /\ ctrl[k].api # "gone" BY <1>1 DEF Broken
<1>3. k \in 1 .. Len(ctrl) BY <1>2, CtrlSized DEF Types, Sized
<1>4. held \in Clients BY <1>1 DEF Hand, Types
<1>5. ctrl[k] \in Connections BY <1>3, CtrlSized DEF Sized
<1>6. Append(ctrl[k].queue, held) \in Seq(Clients) BY <1>4, <1>5, AppendSeq DEF Connections
<1> HIDE DEF k
<1>7. [ctrl[k] EXCEPT !.queue = Append(@, held)] \in Connections BY <1>5, <1>6 DEF Connections
<1>8. ctrl' = [ctrl EXCEPT ![k] = [ctrl[k] EXCEPT !.queue = Append(@, held)]] BY <1>1
<1>9. QED BY <1>1, <1>2, <1>3, <1>4, <1>5, <1>7, <1>8 DEF Only, Connections, k

LEMMA OwnedIs == \A u, k : Owned(u, k) => k \in 1 .. Len(ctrl) /\ ctrl[k].to = u /\ ctrl[k].api # "gone"
BY DEF Owned

LEMMA AcceptCtrlEffect ==
  ASSUME Types, NEW u \in Ups, NEW k, AcceptCtrl(u, k)
  PROVE  Only(k, [ctrl[k] EXCEPT !.api = "loop"]) /\ Owned(u, k)
<1>1. k \in 1 .. Len(ctrl) /\ Owned(u, k) BY OwnedIs DEF AcceptCtrl, FirstInBacklog
<1>2. ctrl[k] \in Connections BY <1>1, CtrlSized DEF Sized
<1>3. QED BY <1>1, <1>2 DEF AcceptCtrl, Only, Connections

LEMMA RecvEffect ==
  ASSUME Types, NEW u \in Ups, NEW k, Recv(u, k)
  PROVE  /\ Only(k, [ctrl[k] EXCEPT !.hand = Head(ctrl[k].queue), !.queue = Tail(@)])
         /\ Owned(u, k) /\ ctrl[k].hand = NoClient /\ ctrl[k].queue # <<>>
<1>1. k \in 1 .. Len(ctrl) /\ Owned(u, k) /\ ctrl[k].hand = NoClient /\ ctrl[k].queue # <<>>
  BY OwnedIs DEF Recv
<1>2. ctrl[k] \in Connections BY <1>1, CtrlSized DEF Sized
<1>3. Tail(ctrl[k].queue) \in Seq(Clients) /\ Head(ctrl[k].queue) \in Clients
  BY <1>1, <1>2, TailSeq DEF Connections
<1> DEFINE v == [ctrl[k] EXCEPT !.hand = Head(ctrl[k].queue), !.queue = Tail(@)]
<1>4. v \in Connections /\ v.to = ctrl[k].to /\ v.lb = ctrl[k].lb BY <1>2, <1>3 DEF Connections
<1>5. ctrl' = [ctrl EXCEPT ![k] = v] BY DEF Recv
<1>6. QED BY <1>1, <1>4, <1>5 DEF Only

LEMMA RecvFailsEffect ==
  ASSUME Types, NEW u \in Ups, NEW k, RecvFails(u, k)
  PROVE  Only(k, Ended(ctrl[k])) /\ Owned(u, k) /\ Faults
<1>1. k \in 1 .. Len(ctrl) /\ Owned(u, k) BY OwnedIs DEF RecvFails
<1>2. ctrl[k] \in Connections BY <1>1, CtrlSized DEF Sized
<1>3. <<>> \in Seq(Clients) OBVIOUS
<1>4. QED BY <1>1, <1>2, <1>3 DEF RecvFails, Only, Connections, Ended

\* The descriptor in a recvLoop's hand is passed on or closed.
LEMMA HandedEffect ==
  ASSUME Types, NEW u \in Ups, NEW k, NonblockFails(u, k) \/ Push(u, k)
  PROVE  /\ Only(k, [ctrl[k] EXCEPT !.hand = NoClient])
         /\ Owned(u, k) /\ ctrl[k].hand \in Clients
<1>1. k \in 1 .. Len(ctrl) /\ Owned(u, k) /\ ctrl[k].hand # NoClient
  BY OwnedIs DEF NonblockFails, Push
<1>2. ctrl[k] \in Connections BY <1>1, CtrlSized DEF Sized
<1>3. QED BY <1>1, <1>2 DEF NonblockFails, Push, Only, Connections

LEMMA EndsEffect ==
  ASSUME Types, NEW u \in Ups, Ends(u)
  PROVE  /\ SameEnds
         /\ \A j \in 1 .. Len(ctrl) : ctrl'[j] = IF Owned(u, j) THEN Ended(ctrl[j]) ELSE ctrl[j]
<1> DEFINE f == [k \in 1 .. Len(ctrl) |-> IF Owned(u, k) THEN Ended(ctrl[k]) ELSE ctrl[k]]
<1>1. ctrl' = f BY DEF Ends
<1>2. ASSUME NEW k \in 1 .. Len(ctrl)
      PROVE  Ended(ctrl[k]) \in Connections /\ ctrl[k] \in Connections
             /\ Ended(ctrl[k]).to = ctrl[k].to /\ Ended(ctrl[k]).lb = ctrl[k].lb
  <2>1. ctrl[k] \in Connections BY CtrlSized DEF Sized
  <2>2. <<>> \in Seq(Clients) OBVIOUS
  <2>3. QED BY <2>1, <2>2 DEF Ended, Connections
<1>3. f \in [1 .. Len(ctrl) -> Connections] BY <1>2
<1>4. f \in Seq(Connections) /\ Len(f) = Len(ctrl) BY <1>3, CtrlSized, MapSeq DEF Sized
<1>5. QED BY <1>1, <1>2, <1>4 DEF SameEnds

LEMMA BalancerEndsEffect ==
  ASSUME Types, BalancerEnds
  PROVE  /\ ctrl' \in Seq(Connections) /\ Len(ctrl') = Len(ctrl)
         /\ \A j \in 1 .. Len(ctrl) : ctrl'[j] = [ctrl[j] EXCEPT !.lb = FALSE]
<1> DEFINE f == [k \in 1 .. Len(ctrl) |-> [ctrl[k] EXCEPT !.lb = FALSE]]
<1>1. ctrl' = f BY DEF BalancerEnds
<1>2. ASSUME NEW k \in 1 .. Len(ctrl) PROVE [ctrl[k] EXCEPT !.lb = FALSE] \in Connections
  <2>1. ctrl[k] \in Connections BY CtrlSized DEF Sized
  <2>2. QED BY <2>1 DEF Connections
<1>3. f \in [1 .. Len(ctrl) -> Connections] BY <1>2
<1>4. f \in Seq(Connections) /\ Len(f) = Len(ctrl) BY <1>3, CtrlSized, MapSeq DEF Sized
<1>5. QED BY <1>1, <1>4

LEMMA HungUpIs ==
  ASSUME Types
  PROVE  /\ HungUp(ctrl) \in Seq(Connections) /\ Len(HungUp(ctrl)) = Len(ctrl)
         /\ \A j \in 1 .. Len(ctrl) :
              HungUp(ctrl)[j] = IF j = ctrlFds[target] THEN [ctrl[j] EXCEPT !.lb = FALSE] ELSE ctrl[j]
<1> DEFINE f == [k \in 1 .. Len(ctrl) |->
                   IF k = ctrlFds[target] THEN [ctrl[k] EXCEPT !.lb = FALSE] ELSE ctrl[k]]
<1>1. HungUp(ctrl) = f BY DEF HungUp
<1>2. ASSUME NEW k \in 1 .. Len(ctrl)
      PROVE  [ctrl[k] EXCEPT !.lb = FALSE] \in Connections /\ ctrl[k] \in Connections
  <2>1. ctrl[k] \in Connections BY CtrlSized DEF Sized
  <2>2. QED BY <2>1 DEF Connections
<1>3. f \in [1 .. Len(ctrl) -> Connections] BY <1>2
<1>4. f \in Seq(Connections) /\ Len(f) = Len(ctrl) BY <1>3, CtrlSized, MapSeq DEF Sized
<1>5. QED BY <1>1, <1>4

LEMMA ReconnectEffect ==
  ASSUME Types, Reconnect
  PROVE  /\ lb = "send" /\ Broken(target) /\ lb' = "close"
         /\ ctrl' \in Seq(Connections)
         /\ \A j \in 1 .. Len(ctrl) :
              ctrl'[j] = IF j = ctrlFds[target] THEN [ctrl[j] EXCEPT !.lb = FALSE] ELSE ctrl[j]
         /\ \/ /\ up[target] /\ Len(ctrl') = Len(ctrl) + 1
               /\ ctrl'[Len(ctrl) + 1] = Dialed(target)
               /\ ctrlFds' = [ctrlFds EXCEPT ![target] = Len(ctrl) + 1]
            \/ /\ ~up[target] /\ Len(ctrl') = Len(ctrl)
               /\ ctrlFds' = [ctrlFds EXCEPT ![target] = 0]
<1> DEFINE h == HungUp(ctrl)
<1>1. /\ h \in Seq(Connections) /\ Len(h) = Len(ctrl)
      /\ \A j \in 1 .. Len(ctrl) :
           h[j] = IF j = ctrlFds[target] THEN [ctrl[j] EXCEPT !.lb = FALSE] ELSE ctrl[j]
  BY HungUpIs
<1>2. Dialed(target) \in Connections
  <2>1. <<>> \in Seq(Clients) OBVIOUS
  <2>2. QED BY <2>1 DEF Dialed, Connections, Types
<1>3. lb = "send" /\ Broken(target) /\ lb' = "close" BY DEF Reconnect
<1>4. CASE up[target]
  <2>1. ctrl' = Append(h, Dialed(target)) /\ ctrlFds' = [ctrlFds EXCEPT ![target] = Len(ctrl) + 1]
    BY <1>4 DEF Reconnect
  <2> HIDE DEF h
  <2>2. QED BY <1>1, <1>2, <1>3, <1>4, <2>1, AppendSeq
<1>5. CASE ~up[target]
  <2>1. ctrl' = h /\ ctrlFds' = [ctrlFds EXCEPT ![target] = 0] BY <1>5 DEF Reconnect
  <2> HIDE DEF h
  <2>2. QED BY <1>1, <1>3, <1>5, <2>1
<1>6. QED BY <1>4, <1>5
-----------------------------------------------------------------------------
(* The steps of an upstream                                                *)

UpstreamStep(u) == Step(u) \/ Failure(u) \/ UpstreamEnds(u) \/ UpstreamStarts(u)

\* No step of an upstream touches the balancer, or either end's identity.
LEMMA UpstreamKeeps ==
  ASSUME Types, NEW u \in Ups, UpstreamStep(u)
  PROVE  UNCHANGED balancer /\ SameEnds
<1>0. UNCHANGED ctrl => SameEnds BY DEF Types, SameEnds
<1>1. CASE Adopt(u) BY <1>0, <1>1 DEF Adopt
<1>2. ASSUME NEW k \in Conns, AcceptCtrl(u, k) PROVE UNCHANGED balancer /\ SameEnds
  BY <1>2, AcceptCtrlEffect, OnlyEffect DEF AcceptCtrl
<1>3. ASSUME NEW k \in Conns, Push(u, k) PROVE UNCHANGED balancer /\ SameEnds
  BY <1>3, HandedEffect, OnlyEffect DEF Push
<1>4. ASSUME Ends(u) PROVE UNCHANGED balancer /\ SameEnds BY <1>4, EndsEffect DEF Ends
<1>5. ASSUME NEW k \in Conns, Recv(u, k) PROVE UNCHANGED balancer /\ SameEnds
  BY <1>5, RecvEffect, OnlyEffect DEF Recv
<1>6. CASE AcceptCtrlFails(u) BY <1>0, <1>6 DEF AcceptCtrlFails
<1>7. CASE AdoptFails(u) BY <1>0, <1>7 DEF AdoptFails
<1>8. ASSUME NEW k \in Conns, RecvFails(u, k) PROVE UNCHANGED balancer /\ SameEnds
  BY <1>8, RecvFailsEffect, OnlyEffect DEF RecvFails
<1>9. ASSUME NEW k \in Conns, NonblockFails(u, k) PROVE UNCHANGED balancer /\ SameEnds
  BY <1>9, HandedEffect, OnlyEffect DEF NonblockFails
<1>10. CASE UpstreamStarts(u) BY <1>0, <1>10 DEF UpstreamStarts
<1>11. QED
  BY <1>1, <1>2, <1>3, <1>4, <1>5, <1>6, <1>7, <1>8, <1>9, <1>10
     DEF UpstreamStep, Step, Failure, UpstreamEnds, PushPanics

LEMMA Ranges ==
  /\ NumClients \in Nat /\ MaxRestarts \in Nat /\ Upstreams \in Nat \ {0}
  /\ CounterMod \in Nat \ {0} /\ SockCap \in Nat /\ ChanCap \in Nat /\ ChanCap >= 1
  /\ NoClient \notin Clients /\ 1 \in Ups
<1>1. ASSUME NEW n \in {Upstreams, CounterMod, SockCap, ChanCap} PROVE n \in Nat \ {0}
  BY FdPassAssumption
<1>2. /\ Upstreams \in Nat \ {0} /\ CounterMod \in Nat \ {0} /\ SockCap \in Nat \ {0}
      /\ ChanCap \in Nat \ {0}
  BY <1>1
<1>3. NumClients \in Nat /\ MaxRestarts \in Nat BY FdPassAssumption
<1>4. QED BY <1>2, <1>3 DEF NoClient, Clients, Ups

\* What an upstream keeps stays of its type.
LEMMA UpstreamTypes ==
  ASSUME Types, NEW u \in Ups, UpstreamStep(u)
  PROVE  /\ up' \in [Ups -> BOOLEAN] /\ listener' \in [Ups -> {"running", "exited"}]
         /\ chan' \in [Ups -> Channels] /\ served' \in [Ups -> SUBSET Clients]
         /\ restarts' \in [Ups -> 0 .. MaxRestarts]
<1> DEFINE Goal == /\ up' \in [Ups -> BOOLEAN] /\ listener' \in [Ups -> {"running", "exited"}]
                   /\ chan' \in [Ups -> Channels] /\ served' \in [Ups -> SUBSET Clients]
                   /\ restarts' \in [Ups -> 0 .. MaxRestarts]
<1>0. /\ up \in [Ups -> BOOLEAN] /\ listener \in [Ups -> {"running", "exited"}]
      /\ chan \in [Ups -> Channels] /\ served \in [Ups -> SUBSET Clients]
      /\ restarts \in [Ups -> 0 .. MaxRestarts]
      /\ chan[u] \in Channels /\ chan[u].q \in Seq(Clients)
  BY DEF Types, Channels
<1>1. ASSUME NEW q \in Seq(Clients), chan' = [chan EXCEPT ![u].q = q] PROVE chan' \in [Ups -> Channels]
  <2>1. [chan[u] EXCEPT !.q = q] \in Channels BY <1>0 DEF Channels
  <2>2. chan' = [chan EXCEPT ![u] = [chan[u] EXCEPT !.q = q]] BY <1>1
  <2>3. QED BY <1>0, <2>1, <2>2
<1>2. ASSUME chan[u].q # <<>> PROVE Tail(chan[u].q) \in Seq(Clients) /\ Head(chan[u].q) \in Clients
  BY <1>0, <1>2, TailSeq
<1>3. CASE Adopt(u) BY <1>0, <1>1, <1>2, <1>3 DEF Adopt
<1>4. CASE AdoptFails(u) BY <1>0, <1>1, <1>2, <1>4 DEF AdoptFails
<1>5. ASSUME NEW k, Push(u, k) PROVE Goal
  <2>1. ctrl[k].hand \in Clients BY <1>5, HandedEffect
  <2>2. Append(chan[u].q, ctrl[k].hand) \in Seq(Clients) BY <1>0, <2>1, AppendSeq
  <2>3. chan' = [chan EXCEPT ![u].q = Append(chan[u].q, ctrl[k].hand)] BY <1>5 DEF Push
  <2>4. QED BY <1>0, <1>1, <1>5, <2>2, <2>3 DEF Push
<1>6. ASSUME NEW v \in BOOLEAN
      PROVE [q |-> <<>>, open |-> v] \in Channels
  <2>1. <<>> \in Seq(Clients) OBVIOUS
  <2>2. QED BY <2>1 DEF Channels
<1>7. ASSUME Ends(u) PROVE Goal BY <1>0, <1>6, <1>7 DEF Ends
<1>8. CASE UpstreamStarts(u)
  <2>1. restarts[u] + 1 \in 0 .. MaxRestarts BY <1>0, <1>8, Ranges DEF UpstreamStarts
  <2>2. QED BY <1>0, <1>6, <1>8, <2>1 DEF UpstreamStarts
<1>9. CASE AcceptCtrlFails(u)
  <2>1. [chan[u] EXCEPT !.open = FALSE] \in Channels BY <1>0 DEF Channels
  <2>2. chan' = [chan EXCEPT ![u] = [chan[u] EXCEPT !.open = FALSE]] BY <1>9 DEF AcceptCtrlFails
  <2>3. QED BY <1>0, <1>9, <2>1, <2>2 DEF AcceptCtrlFails
<1>10. ASSUME NEW k, AcceptCtrl(u, k) \/ Recv(u, k) \/ RecvFails(u, k) \/ NonblockFails(u, k)
       PROVE  Goal
  BY <1>0, <1>10 DEF AcceptCtrl, Recv, RecvFails, NonblockFails, upstream
<1>11. QED
  BY <1>3, <1>4, <1>5, <1>7, <1>8, <1>9, <1>10
     DEF UpstreamStep, Step, Failure, UpstreamEnds, PushPanics
-----------------------------------------------------------------------------
(* Types and the client in hand                                            *)

LEMMA NextCases ==
  ASSUME [Next]_vars
  PROVE  \/ Dial \/ Accept \/ Send \/ Reconnect \/ Close \/ BalancerEnds \/ BalancerStarts
         \/ \E u \in Ups : UpstreamStep(u)
         \/ UNCHANGED vars
BY DEF Next, Balancer, UpstreamStep

LEMMA InitTypes == Init => Types /\ Hand
<1> SUFFICES ASSUME Init PROVE Types /\ Hand OBVIOUS
<1>1. [q |-> <<>>, open |-> TRUE] \in Channels
  <2>1. <<>> \in Seq(Clients) OBVIOUS
  <2>2. QED BY <2>1 DEF Channels
<1>2. <<>> \in Seq(Connections) /\ Len(<<>>) = 0 OBVIOUS
<1>3. QED BY <1>1, <1>2, Ranges DEF Init, Types, Hand, Dealing, NoClient

LEMMA NextTypes ==
  ASSUME Types, Hand, [Next]_vars
  PROVE  Types'
<1>0. Sized BY CtrlSized
<1>1. CASE Dial
  <2>1. CASE \A u \in Ups : up[u]
    <3>1. \A u \in Ups : ctrlFds'[u] <= Len(ctrl')
      BY <1>0, <1>1, <2>1, DialEffect, Ranges DEF Sized, Ups
    <3>2. QED BY <1>1, <2>1, <3>1, DialEffect DEF Dial, Types, Dealing, upstream
  <2>2. CASE ~\A u \in Ups : up[u]
    BY <1>1, <2>2 DEF Dial, Types, upstream
  <2>3. QED BY <2>1, <2>2
<1>2. CASE Accept
  <2>1. accepted' \in 0 .. NumClients /\ held' \in Clients
    BY <1>2, Ranges DEF Accept, Types, Clients
  <2>2. target' \in Ups /\ next' \in 0 .. CounterMod - 1
    BY <1>2, Ranges DEF Accept, Types, Ups
  <2>3. assigned' \in [Ups -> Nat]
    <3>1. assigned' = [assigned EXCEPT ![target'] = assigned[target'] + 1] BY <1>2 DEF Accept
    <3>2. assigned \in [Ups -> Nat] /\ assigned[target'] + 1 \in Nat BY <2>2 DEF Types
    <3>3. QED BY <3>1, <3>2
  <2>4. lbFds' \subseteq Clients BY <1>2, <2>1 DEF Accept, Types
  <2>5. QED BY <1>2, <2>1, <2>2, <2>3, <2>4 DEF Accept, Types, Dealing, upstream
<1>3. CASE Send
  <2>1. SameEnds BY <1>3, SendEffect, OnlyEffect
  <2>2. QED BY <1>3, <2>1 DEF Send, Types, SameEnds, Dealing, upstream
<1>4. CASE Reconnect
  <2>1. /\ ctrl' \in Seq(Connections) /\ ctrlFds' \in [Ups -> Nat]
        /\ \A u \in Ups : ctrlFds'[u] <= Len(ctrl')
    <3>1. /\ ctrl' \in Seq(Connections) /\ Len(ctrl) \in Nat /\ Len(ctrl) <= Len(ctrl')
          /\ \/ Len(ctrl') = Len(ctrl) + 1 /\ ctrlFds' = [ctrlFds EXCEPT ![target] = Len(ctrl) + 1]
             \/ ctrlFds' = [ctrlFds EXCEPT ![target] = 0]
      BY <1>0, <1>4, ReconnectEffect DEF Sized
    <3>2. /\ ctrlFds \in [Ups -> Nat] /\ target \in Ups /\ Len(ctrl') \in Nat
          /\ \A u \in Ups : ctrlFds[u] <= Len(ctrl)
      BY <3>1 DEF Types
    <3>3. \A u \in Ups : ctrlFds'[u] \in Nat /\ ctrlFds'[u] <= Len(ctrl')
      BY <3>1, <3>2
    <3>4. ctrlFds' \in [Ups -> Nat] BY <3>1, <3>2, <3>3
    <3>5. QED BY <3>1, <3>3, <3>4
  <2>2. failedUp' \in [Ups -> Nat]
    <3>1. failedUp' = failedUp \/ failedUp' = [failedUp EXCEPT ![target] = failedUp[target] + 1]
      BY <1>4 DEF Reconnect
    <3>2. failedUp[target] + 1 \in Nat BY DEF Types
    <3>3. QED BY <3>1, <3>2 DEF Types
  <2>3. QED BY <1>4, <2>1, <2>2 DEF Reconnect, Types, Dealing, upstream
<1>5. CASE Close BY <1>5 DEF Close, Types, Dealing, upstream
<1>6. CASE BalancerEnds
  <2>1. /\ ctrlFds' \in [Ups -> Nat] /\ \A u \in Ups : ctrlFds'[u] <= Len(ctrl)
        /\ next' \in 0 .. CounterMod - 1 /\ assigned' \in [Ups -> Nat] /\ failedUp' \in [Ups -> Nat]
    BY <1>0, <1>6, Ranges DEF BalancerEnds, Sized
  <2>2. QED BY <1>6, <2>1, BalancerEndsEffect DEF BalancerEnds, Types, upstream
<1>7. CASE BalancerStarts
  <2>1. lbRestarts' \in 0 .. MaxRestarts BY <1>7, Ranges DEF BalancerStarts, Types
  <2>2. QED BY <1>7, <2>1 DEF BalancerStarts, Types, upstream
<1>8. ASSUME NEW u \in Ups, UpstreamStep(u) PROVE Types'
  BY <1>8, UpstreamKeeps, UpstreamTypes DEF Types, SameEnds, balancer
<1>9. CASE UNCHANGED vars BY <1>9 DEF vars, balancer, upstream, Types
<1>10. QED BY <1>1, <1>2, <1>3, <1>4, <1>5, <1>6, <1>7, <1>8, <1>9, NextCases

LEMMA NextHand ==
  ASSUME Types, Hand, [Next]_vars
  PROVE  Hand'
<1>1. CASE Dial BY <1>1, Ranges DEF Dial, Hand, NoClient
<1>2. CASE Accept
  <2>1. held' # NoClient /\ lb' = "send" /\ lbFds = {} /\ lbFds' = lbFds \cup {held'}
    BY <1>2 DEF Accept, Hand, NoClient, Types
  <2>2. QED BY <2>1 DEF Hand
<1>3. CASE Send BY <1>3 DEF Send, Hand
<1>4. CASE Reconnect BY <1>4 DEF Reconnect, Hand
<1>5. CASE Close BY <1>5 DEF Close, Hand
<1>6. CASE BalancerEnds BY <1>6 DEF BalancerEnds, Hand
<1>7. CASE BalancerStarts BY <1>7 DEF BalancerStarts, Hand
<1>8. ASSUME NEW u \in Ups, UpstreamStep(u) PROVE Hand'
  BY <1>8, UpstreamKeeps DEF Hand, balancer
<1>9. CASE UNCHANGED vars BY <1>9 DEF vars, balancer, Hand
<1>10. QED BY <1>1, <1>2, <1>3, <1>4, <1>5, <1>6, <1>7, <1>8, <1>9, NextCases
-----------------------------------------------------------------------------
(* Queues and channels within their capacity                               *)

LEMMA NextCapacities ==
  ASSUME Types, Hand, Capacities, [Next]_vars
  PROVE  Capacities'
<1>0. Sized /\ (\A k \in 1 .. Len(ctrl) : Len(ctrl[k].queue) <= SockCap)
      /\ (\A u \in Ups : Len(chan[u].q) <= ChanCap)
      /\ \A u \in Ups : chan[u].q \in Seq(Clients) /\ chan[u] \in Channels
  BY CtrlSized DEF Capacities, Types, Channels
<1>1. Len(<<>>) = 0 /\ 0 <= SockCap /\ 0 <= ChanCap BY Ranges
<1>2. ASSUME NEW k, NEW v, Only(k, v), Len(v.queue) <= SockCap, UNCHANGED chan PROVE Capacities'
  BY <1>0, <1>2, OnlyEffect DEF Capacities, SameEnds
<1>3. ASSUME UNCHANGED <<ctrl, chan>> PROVE Capacities'
  BY <1>3 DEF Capacities
<1>4. CASE Dial
  <2>1. CASE \A u \in Ups : up[u]
    <3>1. ASSUME NEW k \in 1 .. Len(ctrl) + Upstreams PROVE Len(ctrl'[k].queue) <= SockCap
      <4>1. CASE k \in 1 .. Len(ctrl) BY <1>0, <1>4, <2>1, <4>1, DialEffect
      <4>2. CASE k \notin 1 .. Len(ctrl)
        <5>1. k - Len(ctrl) \in Ups /\ Len(ctrl) + (k - Len(ctrl)) = k
          BY <1>0, <4>2, Ranges DEF Sized, Ups
        <5>2. ctrl'[k] = Dialed(k - Len(ctrl)) BY <1>4, <2>1, <5>1, DialEffect
        <5>3. QED BY <1>1, <5>2 DEF Dialed
      <4>3. QED BY <4>1, <4>2
    <3>2. QED BY <1>0, <1>4, <2>1, <3>1, DialEffect DEF Capacities, Dial, upstream
  <2>2. CASE ~\A u \in Ups : up[u] BY <1>3, <1>4, <2>2 DEF Dial, upstream
  <2>3. QED BY <2>1, <2>2
<1>5. CASE Send
  <2> DEFINE k == ctrlFds[target]
  <2>1. Only(k, [ctrl[k] EXCEPT !.queue = Append(@, held)]) /\ held \in Clients
        /\ Len(ctrl[k].queue) < SockCap
    BY <1>5, SendEffect
  <2>2. ctrl[k] \in Connections BY <1>0, <2>1 DEF Sized, Only
  <2>3. ctrl[k].queue \in Seq(Clients) BY <2>2 DEF Connections
  <2>4. Len(Append(ctrl[k].queue, held)) <= SockCap BY <2>1, <2>3, AppendSeq, Ranges
  <2> DEFINE v == [ctrl[k] EXCEPT !.queue = Append(@, held)]
  <2>5. v.queue = Append(ctrl[k].queue, held) BY <2>2 DEF Connections
  <2>6. UNCHANGED chan BY <1>5 DEF Send, upstream
  <2>7. Only(k, v) /\ Len(v.queue) <= SockCap BY <2>1, <2>4, <2>5
  <2> HIDE DEF k, v
  <2>8. QED BY <1>2, <2>6, <2>7
<1>6. CASE Reconnect
  <2>1. UNCHANGED chan BY <1>6 DEF Reconnect, upstream
  <2>2. ASSUME NEW j \in 1 .. Len(ctrl) PROVE ctrl'[j].queue = ctrl[j].queue
    <3>1. ctrl[j] \in Connections BY <1>0 DEF Sized
    <3>2. QED BY <1>6, <3>1, ReconnectEffect DEF Connections
  <2>3. \/ Len(ctrl') = Len(ctrl) + 1 /\ ctrl'[Len(ctrl) + 1] = Dialed(target)
        \/ Len(ctrl') = Len(ctrl)
    BY <1>6, ReconnectEffect
  <2>4. Dialed(target).queue = <<>> BY DEF Dialed
  <2>5. \A j \in 1 .. Len(ctrl') : Len(ctrl'[j].queue) <= SockCap
    BY <1>0, <1>1, <2>2, <2>3, <2>4 DEF Sized
  <2>6. QED BY <1>0, <2>1, <2>5 DEF Capacities
<1>7. CASE BalancerEnds
  <2>1. ASSUME NEW j \in 1 .. Len(ctrl) PROVE ctrl'[j].queue = ctrl[j].queue
    <3>1. ctrl[j] \in Connections BY <1>0 DEF Sized
    <3>2. QED BY <1>7, <3>1, BalancerEndsEffect DEF Connections
  <2>2. UNCHANGED chan BY <1>7 DEF BalancerEnds, upstream
  <2>3. QED BY <1>0, <1>7, <2>1, <2>2, BalancerEndsEffect DEF Capacities
<1>8. ASSUME NEW u \in Ups, Ends(u) PROVE Capacities'
  <2>1. ASSUME NEW j \in 1 .. Len(ctrl) PROVE Len(ctrl'[j].queue) <= SockCap
    <3>1. ctrl[j] \in Connections BY <1>0 DEF Sized
    <3>2. Ended(ctrl[j]).queue = <<>> BY <3>1 DEF Ended, Connections
    <3>3. QED BY <1>0, <1>1, <1>8, <3>2, EndsEffect
  <2>2. \A w \in Ups : chan'[w] = IF w = u THEN [q |-> <<>>, open |-> FALSE] ELSE chan[w]
    BY <1>0, <1>8 DEF Ends, Types
  <2>3. \A w \in Ups : Len(chan'[w].q) <= ChanCap BY <1>0, <1>1, <2>2
  <2>4. QED BY <1>0, <1>8, <2>1, <2>3, EndsEffect DEF Capacities, SameEnds
<1>9. ASSUME NEW u \in Ups, NEW q, Len(q) <= ChanCap, chan' = [chan EXCEPT ![u].q = q],
             \A k \in 1 .. Len(ctrl') : Len(ctrl'[k].queue) <= SockCap
      PROVE  Capacities'
  BY <1>0, <1>9 DEF Capacities, Types, Channels
<1>10. ASSUME NEW u \in Ups, Adopt(u) \/ AdoptFails(u) PROVE Capacities'
  <2>1. chan[u].q # <<>> /\ chan' = [chan EXCEPT ![u].q = Tail(chan[u].q)] /\ UNCHANGED ctrl
    BY <1>10 DEF Adopt, AdoptFails
  <2>2. Len(Tail(chan[u].q)) <= ChanCap BY <1>0, <2>1, TailSeq, Ranges
  <2>3. QED BY <1>0, <1>9, <2>1, <2>2
<1>11. ASSUME NEW u \in Ups, NEW k, Push(u, k) PROVE Capacities'
  <2>1. Only(k, [ctrl[k] EXCEPT !.hand = NoClient]) /\ ctrl[k].hand \in Clients
    BY <1>11, HandedEffect
  <2>2. ctrl[k] \in Connections /\ k \in 1 .. Len(ctrl) BY <1>0, <2>1 DEF Sized, Only
  <2> DEFINE v == [ctrl[k] EXCEPT !.hand = NoClient]
  <2>3. v.queue = ctrl[k].queue BY <2>2 DEF Connections
  <2>4. Only(k, v) BY <2>1
  <2> HIDE DEF v
  <2>5. \A j \in 1 .. Len(ctrl') : Len(ctrl'[j].queue) <= SockCap
    BY <1>0, <2>2, <2>3, <2>4, OnlyEffect DEF SameEnds
  <2>6. Len(chan[u].q) < ChanCap /\ chan' = [chan EXCEPT ![u].q = Append(chan[u].q, ctrl[k].hand)]
    BY <1>11 DEF Push
  <2>7. Len(Append(chan[u].q, ctrl[k].hand)) <= ChanCap BY <1>0, <2>1, <2>6, AppendSeq, Ranges
  <2>8. QED BY <1>9, <2>5, <2>6, <2>7
<1>12. ASSUME NEW u \in Ups, NEW k, AcceptCtrl(u, k) \/ Recv(u, k) \/ RecvFails(u, k) \/ NonblockFails(u, k)
       PROVE  Capacities'
  <2>1. UNCHANGED chan BY <1>12 DEF AcceptCtrl, Recv, RecvFails, NonblockFails, upstream
  <2>2. k \in 1 .. Len(ctrl) BY <1>12, OwnedIs DEF AcceptCtrl, FirstInBacklog, Recv, RecvFails, NonblockFails
  <2>3. ctrl[k] \in Connections /\ Len(ctrl[k].queue) <= SockCap BY <1>0, <2>2 DEF Sized
  <2>4. CASE AcceptCtrl(u, k)
    <3>1. [ctrl[k] EXCEPT !.api = "loop"].queue = ctrl[k].queue BY <2>3 DEF Connections
    <3>2. QED BY <1>2, <2>1, <2>3, <2>4, <3>1, AcceptCtrlEffect
  <2>5. CASE Recv(u, k)
    <3> DEFINE v == [ctrl[k] EXCEPT !.hand = Head(ctrl[k].queue), !.queue = Tail(@)]
    <3>1. v.queue = Tail(ctrl[k].queue) BY <2>3 DEF Connections
    <3>2. Only(k, v) /\ ctrl[k].queue # <<>> /\ ctrl[k].queue \in Seq(Clients)
      BY <2>3, <2>5, RecvEffect DEF Connections
    <3>3. Len(Tail(ctrl[k].queue)) <= SockCap BY <2>3, <3>2, TailSeq, Ranges
    <3> HIDE DEF v
    <3>4. QED BY <1>2, <2>1, <3>1, <3>2, <3>3
  <2>6. CASE RecvFails(u, k)
    <3>1. Ended(ctrl[k]).queue = <<>> BY <2>3 DEF Ended, Connections
    <3>2. QED BY <1>1, <1>2, <2>1, <2>6, <3>1, RecvFailsEffect
  <2>7. CASE NonblockFails(u, k)
    <3>1. [ctrl[k] EXCEPT !.hand = NoClient].queue = ctrl[k].queue BY <2>3 DEF Connections
    <3>2. QED BY <1>2, <2>1, <2>3, <2>7, <3>1, HandedEffect
  <2>8. QED BY <1>12, <2>4, <2>5, <2>6, <2>7
<1>13. ASSUME NEW u \in Ups, AcceptCtrlFails(u) PROVE Capacities'
  BY <1>0, <1>13 DEF AcceptCtrlFails, Capacities, Types, Channels
<1>14. ASSUME NEW u \in Ups, UpstreamStarts(u) PROVE Capacities'
  <2>1. \A w \in Ups : chan'[w] = IF w = u THEN [q |-> <<>>, open |-> TRUE] ELSE chan[w]
    BY <1>0, <1>14 DEF UpstreamStarts, Types
  <2>2. QED BY <1>0, <1>1, <1>14, <2>1 DEF UpstreamStarts, Capacities
<1>15. ASSUME NEW u \in Ups, UpstreamStep(u) PROVE Capacities'
  BY <1>8, <1>10, <1>11, <1>12, <1>13, <1>14, <1>15
     DEF UpstreamStep, Step, Failure, UpstreamEnds, PushPanics
<1>16. CASE Accept \/ Close \/ BalancerStarts \/ UNCHANGED vars
  BY <1>3, <1>16 DEF Accept, Close, BalancerStarts, vars, upstream
<1>17. QED BY <1>4, <1>5, <1>6, <1>7, <1>15, <1>16, NextCases
-----------------------------------------------------------------------------
(* How many control connections there are                                  *)

LEMMA NextDials ==
  ASSUME Types, Hand, Dials, [Next]_vars
  PROVE  Dials'
<1> DEFINE P(x) == Upstreams * x
<1>0. /\ Len(ctrl) \in Nat /\ lbRestarts \in Nat /\ accepted \in Nat
      /\ P(lbRestarts) \in Nat /\ P(lbRestarts + 1) = P(lbRestarts) + Upstreams
      /\ Upstreams \in Nat
  BY CtrlSized, Ranges DEF Types, Sized
<1>1. Len(ctrl) <= (IF lb = "dialing" THEN P(lbRestarts) ELSE P(lbRestarts + 1))
                   + (IF lb = "send" THEN accepted - 1 ELSE accepted)
  BY DEF Dials
<1>2. Dials' <=> Len(ctrl') <= (IF lb' = "dialing" THEN P(lbRestarts') ELSE P(lbRestarts' + 1))
                              + (IF lb' = "send" THEN accepted' - 1 ELSE accepted')
  BY DEF Dials
<1> HIDE DEF P
<1>3. CASE Dial
  <2>1. CASE \A u \in Ups : up[u]
    <3>1. /\ Len(ctrl') = Len(ctrl) + Upstreams /\ lb = "dialing" /\ lb' = "accept"
          /\ lbRestarts' = lbRestarts /\ accepted' = accepted
      BY <1>3, <2>1, DialEffect DEF Dial
    <3>2. Len(ctrl) <= P(lbRestarts) + accepted BY <1>1, <3>1
    <3>3. Len(ctrl') <= P(lbRestarts + 1) + accepted BY <1>0, <3>1, <3>2
    <3>4. QED BY <1>2, <3>1, <3>3
  <2>2. CASE ~\A u \in Ups : up[u] BY <1>0, <1>1, <1>2, <1>3, <2>2 DEF Dial
  <2>3. QED BY <2>1, <2>2
<1>4. CASE Accept BY <1>0, <1>1, <1>2, <1>4 DEF Accept
<1>5. CASE Send
  <2>1. Len(ctrl') = Len(ctrl) BY <1>5, SendEffect, OnlyEffect DEF SameEnds
  <2>2. QED BY <1>0, <1>1, <1>2, <1>5, <2>1 DEF Send
<1>6. CASE Reconnect
  <2>1. Len(ctrl') \in {Len(ctrl), Len(ctrl) + 1} BY <1>6, ReconnectEffect
  <2>2. QED BY <1>0, <1>1, <1>2, <1>6, <2>1 DEF Reconnect
<1>7. CASE Close BY <1>0, <1>1, <1>2, <1>7 DEF Close
<1>8. CASE BalancerEnds BY <1>0, <1>1, <1>2, <1>8, BalancerEndsEffect DEF BalancerEnds
<1>9. CASE BalancerStarts BY <1>0, <1>1, <1>2, <1>9 DEF BalancerStarts
<1>10. ASSUME NEW u \in Ups, UpstreamStep(u) PROVE Dials'
  BY <1>1, <1>2, <1>10, UpstreamKeeps DEF SameEnds, balancer
<1>11. CASE UNCHANGED vars BY <1>1, <1>2, <1>11 DEF vars, balancer
<1>12. QED BY <1>3, <1>4, <1>5, <1>6, <1>7, <1>8, <1>9, <1>10, <1>11, NextCases
-----------------------------------------------------------------------------
(* Descriptors of control connections                                      *)

LEMMA Closing ==
  ASSUME NEW c \in Connections
  PROVE  LET d == [c EXCEPT !.lb = FALSE]
         IN  ~d.lb /\ d.to = c.to /\ d.api = c.api /\ d.queue = c.queue /\ d.hand = c.hand
BY DEF Connections

LEMMA NextKept ==
  ASSUME Types, Hand, Kept, [Next]_vars
  PROVE  Kept'
<1>0. /\ Len(ctrl) \in Nat
      /\ \A k \in 1 .. Len(ctrl) : /\ ctrl[k] \in Connections /\ ctrl[k].to \in Ups
                                   /\ ctrl[k].lb <=> ctrlFds[ctrl[k].to] = k
      /\ \A u \in Ups : /\ ctrlFds[u] \in Nat /\ ctrlFds[u] <= Len(ctrl)
                        /\ ctrlFds[u] # 0 => ctrl[ctrlFds[u]].to = u
  BY CtrlSized DEF Kept, Types, Sized, Connections
<1>1. ASSUME SameEnds, UNCHANGED ctrlFds, lb' \notin Dealing => lb \notin Dealing
      PROVE  Kept'
  <2>1. ASSUME NEW u \in Ups, ctrlFds[u] # 0 PROVE ctrlFds[u] \in 1 .. Len(ctrl)
    BY <1>0, <2>1
  <2>2. QED BY <1>0, <1>1, <2>1 DEF SameEnds, Kept
<1>2. UNCHANGED ctrl => SameEnds BY DEF Types, SameEnds
<1>3. CASE Dial
  <2>1. lb = "dialing" /\ \A u \in Ups : ctrlFds[u] = 0 BY <1>3 DEF Dial, Kept, Dealing
  <2>2. CASE \A u \in Ups : up[u]
    <3>1. /\ lb' = "accept" /\ Len(ctrl') = Len(ctrl) + Upstreams /\ Upstreams \in Nat
          /\ \A j \in 1 .. Len(ctrl) : ctrl'[j] = ctrl[j]
          /\ \A u \in Ups : ctrl'[Len(ctrl) + u] = Dialed(u) /\ ctrlFds'[u] = Len(ctrl) + u
      BY <1>3, <2>2, DialEffect, Ranges
    <3>2. \A u \in Ups : Dialed(u).to = u /\ Dialed(u).lb = TRUE BY DEF Dialed
    <3>3. ASSUME NEW k \in 1 .. Len(ctrl) PROVE ctrl'[k].lb <=> ctrlFds'[ctrl'[k].to] = k
      <4>1. ctrl'[k].to \in Ups /\ ~ctrl[k].lb /\ ctrl'[k].lb = ctrl[k].lb
        BY <1>0, <2>1, <3>1
      <4>2. ctrlFds'[ctrl'[k].to] > Len(ctrl) BY <1>0, <3>1, <4>1 DEF Ups
      <4>3. QED BY <1>0, <4>1, <4>2
    <3>4. ASSUME NEW k \in 1 .. Len(ctrl'), k \notin 1 .. Len(ctrl)
          PROVE  ctrl'[k].lb <=> ctrlFds'[ctrl'[k].to] = k
      <4>1. k - Len(ctrl) \in Ups /\ Len(ctrl) + (k - Len(ctrl)) = k
        BY <1>0, <3>1, <3>4 DEF Ups
      <4>2. ctrl'[k] = Dialed(k - Len(ctrl)) /\ ctrlFds'[k - Len(ctrl)] = k BY <3>1, <4>1
      <4>3. QED BY <3>2, <4>1, <4>2
    <3>5. ASSUME NEW u \in Ups PROVE ctrl'[ctrlFds'[u]].to = u BY <3>1, <3>2
    <3>6. QED BY <3>1, <3>3, <3>4, <3>5 DEF Kept, Dealing
  <2>3. CASE ~\A u \in Ups : up[u] BY <1>1, <1>2, <1>3, <2>1, <2>3 DEF Dial, Dealing
  <2>4. QED BY <2>2, <2>3
<1>4. CASE Accept \/ Close \/ BalancerStarts
  <2>1. UNCHANGED <<ctrl, ctrlFds>> BY <1>4 DEF Accept, Close, BalancerStarts
  <2>2. lb' \notin Dealing => lb \notin Dealing
    BY <1>4 DEF Accept, Close, BalancerStarts, Dealing
  <2>3. QED BY <1>1, <1>2, <2>1, <2>2
<1>5. CASE Send
  <2>1. SameEnds BY <1>5, SendEffect, OnlyEffect
  <2>2. QED BY <1>1, <1>5, <2>1 DEF Send, Dealing
<1>6. CASE Reconnect
  <2>1. /\ lb' = "close" /\ target \in Ups
        /\ \A j \in 1 .. Len(ctrl) :
             ctrl'[j] = IF j = ctrlFds[target] THEN [ctrl[j] EXCEPT !.lb = FALSE] ELSE ctrl[j]
        /\ \/ /\ Len(ctrl') = Len(ctrl) + 1 /\ ctrl'[Len(ctrl) + 1] = Dialed(target)
              /\ ctrlFds' = [ctrlFds EXCEPT ![target] = Len(ctrl) + 1]
           \/ /\ Len(ctrl') = Len(ctrl) /\ ctrlFds' = [ctrlFds EXCEPT ![target] = 0]
    BY <1>6, ReconnectEffect DEF Types
  <2>2. ctrlFds'[target] \in {0, Len(ctrl) + 1} /\ \A u \in Ups : u # target => ctrlFds'[u] = ctrlFds[u]
    BY <2>1 DEF Types
  <2>3. ASSUME NEW j \in 1 .. Len(ctrl)
        PROVE  /\ ctrl'[j].to = ctrl[j].to
               /\ j # ctrlFds[target] => (ctrl'[j].lb <=> ctrl[j].lb)
               /\ j = ctrlFds[target] => ~ctrl'[j].lb
    <3> DEFINE d == [ctrl[j] EXCEPT !.lb = FALSE]
    <3>1. ctrl[j] \in Connections BY <1>0
    <3>2. ~d.lb /\ d.to = ctrl[j].to BY <3>1, Closing
    <3>3. ctrl'[j] = IF j = ctrlFds[target] THEN d ELSE ctrl[j] BY <2>1
    <3> HIDE DEF d
    <3>4. QED BY <3>2, <3>3
  <2>4. ASSUME NEW j \in 1 .. Len(ctrl) PROVE ctrl'[j].lb <=> ctrlFds'[ctrl'[j].to] = j
    <3>1. CASE ctrl[j].to = target
      <4>1. ctrlFds'[target] # j BY <1>0, <2>2
      <4>2. ~ctrl'[j].lb
        <5>1. CASE j = ctrlFds[target] BY <2>3, <5>1
        <5>2. CASE j # ctrlFds[target] BY <1>0, <2>3, <3>1, <5>2
        <5>3. QED BY <5>1, <5>2
      <4>3. QED BY <2>3, <3>1, <4>1, <4>2
    <3>2. CASE ctrl[j].to # target
      <4>1. j # ctrlFds[target] BY <1>0, <2>1, <3>2
      <4>2. ctrl[j].to \in Ups /\ (ctrl[j].lb <=> ctrlFds[ctrl[j].to] = j) BY <1>0
      <4>3. ctrlFds'[ctrl[j].to] = ctrlFds[ctrl[j].to] BY <2>2, <3>2, <4>2
      <4>4. QED BY <2>3, <4>1, <4>2, <4>3
    <3>3. QED BY <3>1, <3>2
  <2>5. Dialed(target).to = target /\ Dialed(target).lb = TRUE BY DEF Dialed
  <2>6. ASSUME NEW j \in 1 .. Len(ctrl'), j \notin 1 .. Len(ctrl)
        PROVE  ctrl'[j].lb <=> ctrlFds'[ctrl'[j].to] = j
    <3>1. j = Len(ctrl) + 1 /\ ctrl'[j] = Dialed(target)
          /\ ctrlFds' = [ctrlFds EXCEPT ![target] = Len(ctrl) + 1]
      BY <1>0, <2>1, <2>6
    <3>2. ctrlFds'[target] = j BY <2>1, <3>1 DEF Types
    <3>3. QED BY <2>5, <3>1, <3>2
  <2>7. ASSUME NEW u \in Ups, ctrlFds'[u] # 0 PROVE ctrl'[ctrlFds'[u]].to = u
    <3>1. CASE u # target
      <4>1. ctrlFds'[u] = ctrlFds[u] /\ ctrlFds[u] \in 1 .. Len(ctrl) BY <1>0, <2>2, <2>7, <3>1
      <4>2. ctrl[ctrlFds[u]].to = u BY <1>0, <4>1
      <4>3. ctrl'[ctrlFds[u]].to = ctrl[ctrlFds[u]].to BY <2>3, <4>1
      <4>4. QED BY <4>1, <4>2, <4>3
    <3>2. CASE u = target
      <4>1. ctrlFds'[u] = Len(ctrl) + 1 BY <2>2, <2>7, <3>2
      <4>2. ctrl'[Len(ctrl) + 1] = Dialed(target) BY <1>0, <2>1, <2>7, <3>2 DEF Types
      <4>3. QED BY <2>5, <3>2, <4>1, <4>2
    <3>3. QED BY <3>1, <3>2
  <2>8. QED BY <2>1, <2>4, <2>6, <2>7 DEF Kept, Dealing
<1>7. CASE BalancerEnds
  <2>1. ASSUME NEW j \in 1 .. Len(ctrl) PROVE ~ctrl'[j].lb /\ ctrl'[j].to = ctrl[j].to
    <3> DEFINE d == [ctrl[j] EXCEPT !.lb = FALSE]
    <3>1. ctrl[j] \in Connections BY <1>0
    <3>2. ~d.lb /\ d.to = ctrl[j].to BY <3>1, Closing
    <3>3. ctrl'[j] = d BY <1>7, BalancerEndsEffect
    <3> HIDE DEF d
    <3>4. QED BY <3>2, <3>3
  <2>2. \A u \in Ups : ctrlFds'[u] = 0 BY <1>7 DEF BalancerEnds
  <2>3. Len(ctrl') = Len(ctrl) BY <1>7, BalancerEndsEffect
  <2>4. QED BY <1>0, <2>1, <2>2, <2>3 DEF Kept
<1>8. ASSUME NEW u \in Ups, UpstreamStep(u) PROVE Kept'
  BY <1>1, <1>8, UpstreamKeeps DEF balancer
<1>9. CASE UNCHANGED vars BY <1>1, <1>2, <1>9 DEF vars, balancer
<1>10. QED BY <1>3, <1>4, <1>5, <1>6, <1>7, <1>8, <1>9, NextCases
-----------------------------------------------------------------------------
(* Turns                                                                   *)

LEMMA Division ==
  ASSUME NEW U \in Nat \ {0}, NEW n \in Nat
  PROVE  n \div U \in Nat /\ n % U \in 0 .. U - 1 /\ n = U * (n \div U) + (n % U)
<1>1. n % U \in 0 .. U - 1 OBVIOUS
<1>2. n \div U \in Nat OBVIOUS
<1>3. n = U * (n \div U) + (n % U) OBVIOUS
<1>4. QED BY <1>1, <1>2, <1>3

LEMMA DivisionIsUnique ==
  ASSUME NEW U \in Nat \ {0}, NEW q \in Int, NEW p \in Int,
         NEW r \in 0 .. U - 1, NEW s \in 0 .. U - 1, U * q + r = U * p + s
  PROVE  r = s
<1>1. U * (q - p) = s - r OBVIOUS
<1>2. CASE q - p >= 1
  <2>1. U * (q - p) >= U BY <1>2
  <2>2. QED BY <1>1, <2>1
<1>3. CASE q - p <= -1
  <2>1. U * (q - p) <= -U BY <1>3
  <2>2. QED BY <1>1, <2>1
<1>4. CASE q = p BY <1>1, <1>4
<1>5. QED BY <1>2, <1>3, <1>4

LEMMA NextRemainder ==
  ASSUME NEW U \in Nat \ {0}, NEW n \in Nat
  PROVE  /\ (n % U) + 1 < U => (n + 1) % U = (n % U) + 1
         /\ (n % U) + 1 = U => (n + 1) % U = 0
<1> DEFINE r == n % U
           s == (n + 1) % U
           q == n \div U
           p == (n + 1) \div U
<1>1. q \in Nat /\ r \in 0 .. U - 1 /\ n = U * q + r BY Division
<1>2. p \in Nat /\ s \in 0 .. U - 1 /\ n + 1 = U * p + s
  <2>1. n + 1 \in Nat OBVIOUS
  <2>2. QED BY <2>1, Division
<1> HIDE DEF r, s, q, p
<1>3. ASSUME r + 1 < U PROVE s = r + 1
  <2>1. r + 1 \in 0 .. U - 1 BY <1>1, <1>3
  <2>2. U * q + (r + 1) = U * p + s BY <1>1, <1>2
  <2>3. q \in Int /\ p \in Int BY <1>1, <1>2
  <2>4. QED BY <1>2, <2>1, <2>2, <2>3, DivisionIsUnique
<1>4. ASSUME r + 1 = U PROVE s = 0
  <2>1. U * (q + 1) = U * q + U BY <1>1
  <2>2. U * (q + 1) + 0 = U * p + s BY <1>1, <1>2, <1>4, <2>1
  <2>3. q + 1 \in Int /\ p \in Int /\ 0 \in 0 .. U - 1 BY <1>1, <1>2
  <2>4. QED BY <1>2, <2>2, <2>3, DivisionIsUnique
<1>5. QED BY <1>3, <1>4 DEF r, s

\* The turn goes round, over the wrap of the counter too.
LEMMA Round ==
  ASSUME NEW n \in 0 .. CounterMod - 1, CounterMod % Upstreams = 0
  PROVE  LET r == n % Upstreams
             s == ((n + 1) % CounterMod) % Upstreams
         IN  /\ r \in 0 .. Upstreams - 1
             /\ r + 1 < Upstreams => s = r + 1
             /\ r + 1 = Upstreams => s = 0
<1>1. Upstreams \in Nat \ {0} /\ CounterMod \in Nat \ {0} /\ n \in Nat BY Ranges
<1>2. CASE n + 1 < CounterMod
  <2>1. (n + 1) % CounterMod = n + 1
    <3>1. n + 1 \in 0 .. CounterMod - 1 /\ 0 \in Int BY <1>1, <1>2
    <3>2. /\ (n + 1) % CounterMod \in 0 .. CounterMod - 1 /\ (n + 1) \div CounterMod \in Int
          /\ CounterMod * 0 + (n + 1)
              = CounterMod * ((n + 1) \div CounterMod) + ((n + 1) % CounterMod)
      <4>1. n + 1 \in Nat /\ CounterMod * 0 = 0 BY <1>1
      <4>2. /\ (n + 1) % CounterMod \in 0 .. CounterMod - 1 /\ (n + 1) \div CounterMod \in Nat
            /\ n + 1 = CounterMod * ((n + 1) \div CounterMod) + ((n + 1) % CounterMod)
        BY <1>1, <4>1, Division
      <4>3. QED BY <4>1, <4>2
    <3>3. QED BY <1>1, <3>1, <3>2, DivisionIsUnique
  <2>2. n % Upstreams \in 0 .. Upstreams - 1 BY <1>1, Division
  <2>3. /\ (n % Upstreams) + 1 < Upstreams => (n + 1) % Upstreams = (n % Upstreams) + 1
        /\ (n % Upstreams) + 1 = Upstreams => (n + 1) % Upstreams = 0
    BY <1>1, NextRemainder
  <2>4. QED BY <2>1, <2>2, <2>3
<1>3. CASE n + 1 = CounterMod
  <2>1. (n + 1) % CounterMod = 0
    <3>1. CounterMod * 1 + 0 = CounterMod /\ 0 \in 0 .. CounterMod - 1 /\ 1 \in Int BY <1>1
    <3>2. /\ CounterMod % CounterMod \in 0 .. CounterMod - 1 /\ CounterMod \div CounterMod \in Nat
          /\ CounterMod = CounterMod * (CounterMod \div CounterMod) + (CounterMod % CounterMod)
      BY <1>1, Division
    <3>3. CounterMod % CounterMod = 0 BY <1>1, <3>1, <3>2, DivisionIsUnique
    <3>4. QED BY <1>3, <3>3
  <2>2. 0 % Upstreams = 0
    <3>1. Upstreams * 0 + 0 = 0 /\ 0 \in 0 .. Upstreams - 1 /\ 0 \in Int BY <1>1
    <3>2. /\ 0 % Upstreams \in 0 .. Upstreams - 1 /\ 0 \div Upstreams \in Nat
          /\ 0 = Upstreams * (0 \div Upstreams) + (0 % Upstreams)
      BY <1>1, Division
    <3>3. QED BY <1>1, <3>1, <3>2, DivisionIsUnique
  <2>3. (n + 1) % Upstreams = 0 BY <1>3
  <2>4. n % Upstreams \in 0 .. Upstreams - 1 BY <1>1, Division
  <2>5. /\ (n % Upstreams) + 1 < Upstreams => (n + 1) % Upstreams = (n % Upstreams) + 1
        /\ (n % Upstreams) + 1 = Upstreams => (n + 1) % Upstreams = 0
    BY <1>1, NextRemainder
  <2> DEFINE r == n % Upstreams
             s == (n + 1) % Upstreams
  <2>6. s = 0 /\ r \in 0 .. Upstreams - 1 /\ (r + 1 < Upstreams => s = r + 1)
    BY <2>3, <2>4, <2>5
  <2>7. ((n + 1) % CounterMod) % Upstreams = 0 BY <2>1, <2>2
  <2> HIDE DEF r, s
  <2>8. r + 1 = Upstreams BY <1>1, <2>6
  <2>9. QED BY <1>1, <2>6, <2>7, <2>8 DEF r
<1>4. QED BY <1>1, <1>2, <1>3

LEMMA NextTurns ==
  ASSUME Types, Turns, CounterMod % Upstreams = 0, [Next]_vars
  PROVE  Turns'
<1>1. ASSUME UNCHANGED <<assigned, next>> PROVE Turns' BY <1>1 DEF Turns
<1>2. CASE Accept
  <2> DEFINE r == next % Upstreams
             s == next' % Upstreams
  <2>1. PICK n \in Nat : \A u \in Ups : assigned[u] = IF u <= r THEN n + 1 ELSE n
    BY DEF Turns
  <2>2. /\ next' = (next + 1) % CounterMod /\ target' = r + 1
        /\ assigned' = [assigned EXCEPT ![target'] = @ + 1]
    BY <1>2 DEF Accept
  <2>3. /\ r \in 0 .. Upstreams - 1
        /\ r + 1 < Upstreams => s = r + 1
        /\ r + 1 = Upstreams => s = 0
    BY <2>2, Round DEF Types
  <2> HIDE DEF r, s
  <2>4. \A u \in Ups : assigned'[u] = IF u <= r + 1 THEN n + 1 ELSE n
    <3>1. r + 1 \in Ups /\ r \in Nat BY <2>3, Ranges DEF Ups
    <3>2. assigned'[r + 1] = n + 1
      <4>1. assigned[r + 1] = n BY <2>1, <3>1
      <4>2. assigned \in [Ups -> Nat] BY DEF Types
      <4>3. QED BY <2>2, <3>1, <4>1, <4>2
    <3>3. \A u \in Ups : u # r + 1 => assigned'[u] = assigned[u] BY <2>2 DEF Types
    <3>4. \A u \in Ups : u # r + 1 => (u <= r + 1 <=> u <= r) BY <3>1 DEF Ups
    <3>5. QED BY <2>1, <3>1, <3>2, <3>3, <3>4
  <2>5. CASE r + 1 < Upstreams
    <3>1. s = r + 1 BY <2>3, <2>5
    <3>2. QED BY <2>4, <3>1 DEF Turns, s
  <2>6. CASE r + 1 = Upstreams
    <3>1. s = 0 /\ n + 1 \in Nat BY <2>3, <2>6
    <3>2. \A u \in Ups : assigned'[u] = IF u <= s THEN (n + 1) + 1 ELSE n + 1
      BY <2>4, <2>6, <3>1, Ranges DEF Ups
    <3>3. QED BY <3>1, <3>2 DEF Turns, s
  <2>7. QED BY <2>3, <2>5, <2>6, Ranges
<1>3. CASE BalancerEnds
  <2>1. next' = 0 /\ \A u \in Ups : assigned'[u] = 0 BY <1>3 DEF BalancerEnds
  <2>2. 0 % Upstreams = 0 BY Ranges
  <2>3. \A u \in Ups : assigned'[u] = IF u <= next' % Upstreams THEN 0 + 1 ELSE 0
    BY <2>1, <2>2 DEF Ups
  <2>4. QED BY <2>3 DEF Turns
<1>4. ASSUME NEW u \in Ups, UpstreamStep(u) PROVE Turns'
  BY <1>1, <1>4, UpstreamKeeps DEF balancer
<1>5. CASE Dial \/ Send \/ Reconnect \/ Close \/ BalancerStarts \/ UNCHANGED vars
  BY <1>1, <1>5 DEF Dial, Send, Reconnect, Close, BalancerStarts, vars, balancer
<1>6. QED BY <1>2, <1>3, <1>4, <1>5, NextCases
-----------------------------------------------------------------------------
(* Losses                                                                  *)

\* While the kernel refuses nothing, a connection breaks only by an end.
LEMMA NextLosses ==
  ASSUME Types, Hand, Kept, Losses, ~Faults, [Next]_vars
  PROVE  Losses'
<1>0. /\ Len(ctrl) \in Nat
      /\ \A k \in 1 .. Len(ctrl) : ctrl[k] \in Connections
      /\ \A u \in Ups : /\ ctrlFds[u] \in Nat /\ ctrlFds[u] <= Len(ctrl)
                        /\ ctrlFds[u] # 0 => ctrlFds[u] \in 1 .. Len(ctrl) /\ ctrl[ctrlFds[u]].to = u
                        /\ failedUp[u] \in Nat /\ restarts[u] \in Nat
  <2>1. Len(ctrl) \in Nat /\ \A k \in 1 .. Len(ctrl) : ctrl[k] \in Connections
    BY CtrlSized DEF Sized
  <2>2. ASSUME NEW u \in Ups PROVE failedUp[u] \in Nat /\ restarts[u] \in Nat
    <3>1. failedUp[u] \in Nat /\ restarts[u] \in 0 .. MaxRestarts BY DEF Types
    <3>2. QED BY <3>1, Ranges
  <2>3. ASSUME NEW u \in Ups
        PROVE  /\ ctrlFds[u] \in Nat /\ ctrlFds[u] <= Len(ctrl)
               /\ ctrlFds[u] # 0 => ctrlFds[u] \in 1 .. Len(ctrl) /\ ctrl[ctrlFds[u]].to = u
    <3>1. ctrlFds[u] \in Nat /\ ctrlFds[u] <= Len(ctrl) BY DEF Types
    <3>2. ctrlFds[u] # 0 => ctrl[ctrlFds[u]].to = u BY DEF Kept
    <3>3. QED BY <2>1, <3>1, <3>2
  <2>4. QED BY <2>1, <2>2, <2>3
<1>1. ASSUME UNCHANGED <<ctrlFds, failedUp, up, restarts>>, lb' \in Dealing <=> lb \in Dealing,
             \A j \in 1 .. Len(ctrl) : ctrl'[j].api = "gone" => ctrl[j].api = "gone"
      PROVE  Losses'
  <2>1. \A u \in Ups : Broken(u)' => Broken(u) BY <1>0, <1>1 DEF Broken
  <2>2. QED BY <1>1, <2>1 DEF Losses
<1>2. CASE Dial
  <2>1. lb \notin Dealing /\ UNCHANGED <<failedUp, restarts>> BY <1>2 DEF Dial, Dealing, upstream
  <2>2. \A u \in Ups : failedUp'[u] <= restarts'[u] /\ failedUp'[u] = 0 BY <2>1 DEF Losses
  <2>3. CASE \A u \in Ups : up[u]
    <3>1. ASSUME NEW u \in Ups PROVE ~Broken(u)'
      <4>1. /\ ctrl'[Len(ctrl) + u] = Dialed(u) /\ ctrlFds'[u] = Len(ctrl) + u /\ u >= 1
        BY <1>2, <2>3, DialEffect DEF Ups
      <4>2. ctrlFds'[u] # 0 BY <1>0, <4>1 DEF Ups
      <4>3. Dialed(u).api = "backlog" BY DEF Dialed
      <4>4. QED BY <4>1, <4>2, <4>3 DEF Broken
    <3>2. QED BY <2>2, <3>1 DEF Losses
  <2>4. CASE ~\A u \in Ups : up[u]
    <3>1. lb' \notin Dealing BY <1>2, <2>4 DEF Dial, Dealing
    <3>2. QED BY <2>2, <3>1 DEF Losses
  <2>5. QED BY <2>3, <2>4
<1>3. CASE Accept \/ Close \/ BalancerStarts \/ UNCHANGED vars
  <2>1. UNCHANGED <<ctrl, ctrlFds, failedUp, up, restarts>>
    BY <1>3 DEF Accept, Close, BalancerStarts, vars, balancer, upstream
  <2>2. lb' \in Dealing <=> lb \in Dealing
    BY <1>3 DEF Accept, Close, BalancerStarts, vars, balancer, Dealing
  <2>3. QED BY <1>1, <2>1, <2>2
<1>4. CASE Send
  <2> DEFINE k == ctrlFds[target]
             v == [ctrl[k] EXCEPT !.queue = Append(@, held)]
  <2>1. Only(k, v) BY <1>4, SendEffect
  <2>2. v.api = ctrl[k].api BY <1>0, <2>1 DEF Only, Connections
  <2> HIDE DEF v
  <2>3. \A j \in 1 .. Len(ctrl) : ctrl'[j].api = ctrl[j].api BY <2>1, <2>2, OnlyEffect
  <2>4. QED BY <1>1, <1>4, <2>3 DEF Send, Dealing, upstream
<1>5. CASE Reconnect
  <2>1. /\ lb = "send" /\ Broken(target) /\ lb' = "close" /\ target \in Ups
        /\ \A j \in 1 .. Len(ctrl) :
             ctrl'[j] = IF j = ctrlFds[target] THEN [ctrl[j] EXCEPT !.lb = FALSE] ELSE ctrl[j]
    BY <1>5, ReconnectEffect DEF Types
  <2>2. UNCHANGED <<up, restarts>> BY <1>5 DEF Reconnect, upstream
  <2>3. ASSUME NEW j \in 1 .. Len(ctrl) PROVE ctrl'[j].api = ctrl[j].api
    <3> DEFINE d == [ctrl[j] EXCEPT !.lb = FALSE]
    <3>1. d.api = ctrl[j].api BY <1>0, Closing
    <3>2. ctrl'[j] = IF j = ctrlFds[target] THEN d ELSE ctrl[j] BY <2>1
    <3> HIDE DEF d
    <3>3. QED BY <3>1, <3>2
  <2>4. CASE up[target]
    <3>1. /\ Len(ctrl') = Len(ctrl) + 1 /\ ctrl'[Len(ctrl) + 1] = Dialed(target)
          /\ ctrlFds' = [ctrlFds EXCEPT ![target] = Len(ctrl) + 1]
      BY <1>5, <2>4, ReconnectEffect
    <3>2. failedUp' = [failedUp EXCEPT ![target] = failedUp[target] + 1]
      BY <1>5, <2>4 DEF Reconnect
    <3>3. failedUp[target] < restarts[target] BY <2>1, <2>4 DEF Losses, Dealing
    <3>4. ~Broken(target)'
      <4>1. ctrlFds'[target] = Len(ctrl) + 1 BY <2>1, <3>1 DEF Types
      <4>2. Dialed(target).api = "backlog" BY DEF Dialed
      <4>3. ctrl'[ctrlFds'[target]].api = "backlog" /\ ctrlFds'[target] # 0 BY <1>0, <3>1, <4>1, <4>2
      <4>4. target' = target BY <1>5 DEF Reconnect
      <4>5. QED BY <4>3, <4>4 DEF Broken
    <3>5. ASSUME NEW u \in Ups, u # target
          PROVE  failedUp'[u] = failedUp[u] /\ (Broken(u)' => Broken(u))
      <4>1. ctrlFds'[u] = ctrlFds[u] /\ failedUp'[u] = failedUp[u] BY <3>1, <3>2, <3>5 DEF Types
      <4>2. QED BY <1>0, <2>3, <4>1 DEF Broken
    <3>6. failedUp'[target] = failedUp[target] + 1 /\ failedUp[target] + 1 <= restarts[target]
      BY <1>0, <2>1, <3>2, <3>3 DEF Types
    <3>7. ASSUME NEW u \in Ups
          PROVE  /\ failedUp'[u] <= restarts'[u]
                 /\ Broken(u)' /\ up'[u] => failedUp'[u] < restarts'[u]
      <4>1. CASE u = target
        <5>1. ~Broken(u)'
          <6>1. target' = target BY <1>5 DEF Reconnect
          <6>2. QED BY <3>4, <4>1, <6>1 DEF Broken
        <5>2. QED BY <2>2, <3>6, <4>1, <5>1
      <4>2. CASE u # target BY <2>1, <2>2, <3>5, <4>2 DEF Losses, Dealing
      <4>3. QED BY <4>1, <4>2
    <3>8. QED BY <2>1, <3>7 DEF Losses, Dealing
  <2>5. CASE ~up[target]
    <3>1. ctrlFds' = [ctrlFds EXCEPT ![target] = 0] /\ UNCHANGED failedUp
      BY <1>5, <2>5 DEF Reconnect
    <3>2. ASSUME NEW u \in Ups, Broken(u)', up'[u] PROVE Broken(u) /\ up[u]
      <4>1. u # target /\ up[u] BY <2>2, <2>5, <3>2
      <4>2. ctrlFds'[u] = ctrlFds[u] BY <3>1, <4>1 DEF Types
      <4>3. QED BY <1>0, <2>3, <3>2, <4>1, <4>2 DEF Broken
    <3>3. QED BY <2>1, <2>2, <3>1, <3>2 DEF Losses, Dealing
  <2>6. QED BY <2>4, <2>5
<1>6. CASE BalancerEnds
  <2>1. lb' \notin Dealing /\ UNCHANGED restarts /\ \A u \in Ups : failedUp'[u] = 0
    BY <1>6 DEF BalancerEnds, Dealing, upstream
  <2>2. QED BY <1>0, <2>1 DEF Losses
<1>7. ASSUME NEW u \in Ups, Ends(u) PROVE Losses'
  <2>1. UNCHANGED <<ctrlFds, failedUp, lb, restarts>> /\ up' = [up EXCEPT ![u] = FALSE]
    BY <1>7 DEF Ends, balancer
  <2>2. ASSUME NEW w \in Ups, Broken(w)', up'[w] PROVE Broken(w) /\ up[w]
    <3>1. w # u /\ up[w] BY <2>1, <2>2 DEF Types
    <3>2. ASSUME ctrlFds[w] # 0 PROVE ctrl'[ctrlFds[w]] = ctrl[ctrlFds[w]]
      <4>1. ctrlFds[w] \in 1 .. Len(ctrl) /\ ctrl[ctrlFds[w]].to = w BY <1>0, <3>2
      <4>2. ~Owned(u, ctrlFds[w]) BY <3>1, <4>1, OwnedIs
      <4>3. QED BY <1>7, <4>1, <4>2, EndsEffect
    <3>3. QED BY <2>1, <2>2, <3>1, <3>2 DEF Broken
  <2>3. QED BY <2>1, <2>2 DEF Losses
<1>8. ASSUME NEW u \in Ups, UpstreamStarts(u) PROVE Losses'
  <2>1. /\ UNCHANGED <<ctrl, ctrlFds, failedUp, lb>>
        /\ up' = [up EXCEPT ![u] = TRUE] /\ restarts' = [restarts EXCEPT ![u] = restarts[u] + 1]
    BY <1>8 DEF UpstreamStarts, balancer
  <2>2. restarts'[u] = restarts[u] + 1 /\ \A w \in Ups : w # u => restarts'[w] = restarts[w] /\ up'[w] = up[w]
    BY <2>1 DEF Types
  <2>3. \A w \in Ups : Broken(w)' => Broken(w) BY <2>1 DEF Broken
  <2>4. ASSUME NEW w \in Ups
        PROVE  /\ failedUp'[w] <= restarts'[w] /\ (lb' \notin Dealing => failedUp'[w] = 0)
               /\ lb' \in Dealing /\ Broken(w)' /\ up'[w] => failedUp'[w] < restarts'[w]
    <3>1. failedUp[w] <= restarts[w] /\ failedUp[w] \in Nat /\ restarts[w] \in Nat
      BY <1>0 DEF Losses
    <3>2. CASE w = u BY <2>1, <2>2, <3>1, <3>2 DEF Losses
    <3>3. CASE w # u BY <2>1, <2>2, <2>3, <3>3 DEF Losses
    <3>4. QED BY <3>2, <3>3
  <2>5. QED BY <2>4 DEF Losses
<1>9. ASSUME NEW u \in Ups, NEW k, AcceptCtrl(u, k) \/ Recv(u, k) \/ Push(u, k) PROVE Losses'
  <2>1. UNCHANGED <<ctrlFds, failedUp, up, restarts, lb>>
    BY <1>9 DEF AcceptCtrl, Recv, Push, balancer, upstream
  <2>2. PICK v : Only(k, v) /\ v.api # "gone"
    <3>1. k \in 1 .. Len(ctrl) /\ ctrl[k].api # "gone"
      BY <1>9, OwnedIs DEF AcceptCtrl, FirstInBacklog, Recv, Push
    <3>2. ctrl[k] \in Connections BY <1>0, <3>1
    <3>3. CASE AcceptCtrl(u, k)
      <4>1. [ctrl[k] EXCEPT !.api = "loop"].api = "loop" BY <3>2 DEF Connections
      <4>2. QED BY <3>3, <4>1, AcceptCtrlEffect
    <3>4. CASE Recv(u, k)
      <4> DEFINE d == [ctrl[k] EXCEPT !.hand = Head(ctrl[k].queue), !.queue = Tail(@)]
      <4>1. d.api = ctrl[k].api BY <3>2 DEF Connections
      <4>2. Only(k, d) BY <3>4, RecvEffect
      <4> HIDE DEF d
      <4>3. QED BY <3>1, <4>1, <4>2
    <3>5. CASE Push(u, k)
      <4>1. [ctrl[k] EXCEPT !.hand = NoClient].api = ctrl[k].api BY <3>2 DEF Connections
      <4>2. QED BY <3>1, <3>5, <4>1, HandedEffect
    <3>6. QED BY <1>9, <3>3, <3>4, <3>5
  <2>3. \A j \in 1 .. Len(ctrl) : ctrl'[j].api = "gone" => ctrl[j].api = "gone"
    BY <2>2, OnlyEffect
  <2>4. QED BY <1>1, <2>1, <2>3
<1>10. ASSUME NEW u \in Ups, Adopt(u) PROVE Losses'
  BY <1>1, <1>10 DEF Adopt, balancer
<1>11. ASSUME NEW u \in Ups, UpstreamStep(u) PROVE Losses'
  <2>1. ~Failure(u) BY DEF Failure, AcceptCtrlFails, AdoptFails, RecvFails, NonblockFails
  <2>2. QED
    BY <1>7, <1>8, <1>9, <1>10, <1>11, <2>1
       DEF UpstreamStep, Step, UpstreamEnds, PushPanics
<1>12. QED BY <1>2, <1>3, <1>4, <1>5, <1>6, <1>11, NextCases
-----------------------------------------------------------------------------
(* Nobody lost                                                             *)

\* What is undisturbed was so before, and only ordinary steps keep it so.
LEMMA Ordinary ==
  ASSUME Types, Open, [Next]_vars, Undisturbed'
  PROVE  /\ Undisturbed
         /\ \/ Dial /\ (\A u \in Ups : up[u])
            \/ Accept \/ Send \/ Close \/ UNCHANGED vars
            \/ \E u \in Ups : \/ Adopt(u)
                              \/ \E k \in Conns : AcceptCtrl(u, k) \/ Push(u, k) \/ Recv(u, k)
<1>0. /\ ~Faults /\ lb' # "dead" /\ lbRestarts' = 0 /\ lbRestarts \in Nat
      /\ \A u \in Ups : up'[u] /\ restarts'[u] = 0 /\ restarts[u] \in Nat
  BY DEF Undisturbed, Types
<1>1. ASSUME lb # "dead", UNCHANGED <<lbRestarts, up, restarts>> PROVE Undisturbed
  BY <1>0, <1>1 DEF Undisturbed
<1>2. CASE Dial
  <2>1. Undisturbed BY <1>1, <1>2 DEF Dial, upstream
  <2>2. QED BY <1>2, <2>1 DEF Undisturbed
<1>3. CASE Accept BY <1>1, <1>3 DEF Accept, upstream
<1>4. CASE Send BY <1>1, <1>4 DEF Send, upstream
<1>5. CASE Close BY <1>1, <1>5 DEF Close, upstream
<1>6. CASE Reconnect
  <2>1. Undisturbed BY <1>1, <1>6 DEF Reconnect, upstream
  <2>2. lb = "send" /\ Broken(target) /\ target \in Ups BY <1>6 DEF Reconnect, Types
  <2>3. ctrlFds[target] # 0 BY <2>1, <2>2 DEF Open, Dealing
  <2>4. ctrlFds[target] \in 1 .. Len(ctrl) BY <2>2, <2>3, CtrlSized DEF Types, Sized
  <2>5. QED BY <2>1, <2>2, <2>4 DEF Open, Broken
<1>7. ~BalancerEnds BY <1>0 DEF BalancerEnds
<1>8. ~BalancerStarts BY <1>0 DEF BalancerStarts
<1>9. ASSUME NEW u \in Ups, UpstreamStep(u)
      PROVE  Undisturbed /\ \/ Adopt(u)
                            \/ \E k \in Conns : AcceptCtrl(u, k) \/ Push(u, k) \/ Recv(u, k)
  <2>1. ~Ends(u) BY <1>0 DEF Ends, Types
  <2>2. ~UpstreamStarts(u) BY <1>0 DEF UpstreamStarts, Types
  <2>3. ~Failure(u) BY <1>0 DEF Failure, AcceptCtrlFails, AdoptFails, RecvFails, NonblockFails
  <2>4. \/ Adopt(u)
        \/ \E k \in Conns : AcceptCtrl(u, k) \/ Push(u, k) \/ Recv(u, k)
    BY <1>9, <2>1, <2>2, <2>3 DEF UpstreamStep, Step, UpstreamEnds, PushPanics
  <2>5. UNCHANGED <<lb, lbRestarts, up, restarts>>
    BY <2>4 DEF Adopt, AcceptCtrl, Push, Recv, balancer, upstream
  <2>6. QED BY <1>0, <1>1, <2>4, <2>5
<1>10. CASE UNCHANGED vars BY <1>0, <1>1, <1>10 DEF vars, balancer, upstream
<1>11. QED BY <1>2, <1>3, <1>4, <1>5, <1>6, <1>7, <1>8, <1>9, <1>10, NextCases

\* A client on its way or adopted stays so while nothing is disturbed.
LEMMA StaysPlaced ==
  ASSUME Types, Hand, Open, [Next]_vars, Undisturbed', NEW c \in Clients, Placed(c)
  PROVE  Placed(c)'
<1>0. /\ Len(ctrl) \in Nat
      /\ \A k \in 1 .. Len(ctrl) : ctrl[k] \in Connections /\ ctrl[k].queue \in Seq(Clients)
      /\ \A u \in Ups : chan[u] \in Channels /\ chan[u].q \in Seq(Clients)
      /\ c # NoClient
  BY CtrlSized, Ranges DEF Types, Sized, Connections, Channels
<1>1. ASSUME Len(ctrl) <= Len(ctrl'), Len(ctrl') \in Nat,
             \A j \in 1 .. Len(ctrl) : Sent(c, j) => Placed(c)',
             \A u \in Ups : c \in ToSet(chan[u].q) => Placed(c)',
             \A u \in Ups : c \in served[u] => c \in served'[u]
      PROVE  Placed(c)'
  BY <1>1 DEF Placed, InTransit
<1>2. ASSUME UNCHANGED <<chan, served>>, Len(ctrl) <= Len(ctrl'), Len(ctrl') \in Nat,
             \A j \in 1 .. Len(ctrl) : ctrl'[j].hand = ctrl[j].hand /\ ctrl'[j].queue = ctrl[j].queue
      PROVE  Placed(c)'
  <2>1. ASSUME NEW j \in 1 .. Len(ctrl), Sent(c, j) PROVE Placed(c)'
    <3>1. Sent(c, j)' BY <1>2, <2>1 DEF Sent
    <3>2. j \in 1 .. Len(ctrl') BY <1>0, <1>2
    <3>3. QED BY <3>1, <3>2 DEF Placed, InTransit
  <2>2. \A u \in Ups : c \in ToSet(chan[u].q) => Placed(c)' BY <1>2 DEF Placed, InTransit
  <2>3. QED BY <1>1, <1>2, <2>1, <2>2
<1>3. CASE Dial /\ \A u \in Ups : up[u]
  <2>1. Len(ctrl') = Len(ctrl) + Upstreams /\ \A j \in 1 .. Len(ctrl) : ctrl'[j] = ctrl[j]
    BY <1>3, DialEffect
  <2>2. UNCHANGED <<chan, served>> BY <1>3 DEF Dial, upstream
  <2>3. QED BY <1>0, <1>2, <2>1, <2>2, Ranges
<1>4. CASE Accept \/ Close \/ UNCHANGED vars
  <2>1. UNCHANGED <<ctrl, chan, served>> BY <1>4 DEF Accept, Close, vars, upstream
  <2>2. QED BY <1>0, <1>2, <2>1
<1>5. CASE Send
  <2> DEFINE k == ctrlFds[target]
             v == [ctrl[k] EXCEPT !.queue = Append(@, held)]
  <2>1. Only(k, v) /\ held \in Clients BY <1>5, SendEffect
  <2>2. k \in 1 .. Len(ctrl) /\ ctrl[k] \in Connections /\ ctrl[k].queue \in Seq(Clients)
    BY <1>0, <2>1 DEF Only
  <2>3. v.queue = Append(ctrl[k].queue, held) /\ v.hand = ctrl[k].hand BY <2>2 DEF Connections
  <2>4. ToSet(v.queue) = ToSet(ctrl[k].queue) \cup {held} BY <2>1, <2>2, <2>3, Contents
  <2> HIDE DEF v, k
  <2>5. UNCHANGED <<chan, served>> BY <1>5 DEF Send, upstream
  <2>6. /\ Len(ctrl') = Len(ctrl) /\ ctrl'[k] = v
        /\ \A j \in 1 .. Len(ctrl) : j # k => ctrl'[j] = ctrl[j]
    BY <2>1, OnlyEffect DEF SameEnds
  <2>7. ASSUME NEW j \in 1 .. Len(ctrl), Sent(c, j) PROVE Placed(c)'
    <3>1. Sent(c, j)' BY <2>3, <2>4, <2>6, <2>7 DEF Sent
    <3>2. QED BY <2>6, <3>1 DEF Placed, InTransit
  <2>8. \A u \in Ups : c \in ToSet(chan[u].q) => Placed(c)' BY <2>5 DEF Placed, InTransit
  <2>9. Len(ctrl) <= Len(ctrl') /\ Len(ctrl') \in Nat BY <1>0, <2>6
  <2>10. \A u \in Ups : c \in served[u] => c \in served'[u] BY <2>5
  <2>11. QED BY <1>1, <2>7, <2>8, <2>9, <2>10
<1>6. ASSUME NEW u \in Ups, Adopt(u) PROVE Placed(c)'
  <2>1. /\ chan[u].q # <<>> /\ UNCHANGED ctrl
        /\ chan' = [chan EXCEPT ![u].q = Tail(chan[u].q)]
        /\ served' = [served EXCEPT ![u] = @ \cup {Head(chan[u].q)}]
    BY <1>6 DEF Adopt
  <2>2. chan'[u].q = Tail(chan[u].q) /\ \A w \in Ups : w # u => chan'[w] = chan[w]
    BY <1>0, <2>1 DEF Types, Channels
  <2>3. served'[u] = served[u] \cup {Head(chan[u].q)} /\ \A w \in Ups : w # u => served'[w] = served[w]
    BY <2>1 DEF Types
  <2>4. ToSet(chan[u].q) = {Head(chan[u].q)} \cup ToSet(chan'[u].q) BY <1>0, <2>1, <2>2, Contents
  <2>5. ASSUME NEW j \in 1 .. Len(ctrl), Sent(c, j) PROVE Placed(c)'
    BY <2>1, <2>5 DEF Placed, InTransit, Sent
  <2>6. ASSUME NEW w \in Ups, c \in ToSet(chan[w].q) PROVE Placed(c)'
    <3>1. CASE w # u BY <2>2, <2>6, <3>1 DEF Placed, InTransit
    <3>2. CASE w = u
      <4>1. c = Head(chan[u].q) \/ c \in ToSet(chan'[u].q) BY <2>4, <2>6, <3>2
      <4>2. QED BY <2>3, <4>1 DEF Placed, InTransit
    <3>3. QED BY <3>1, <3>2
  <2>7. QED BY <1>0, <1>1, <2>1, <2>3, <2>5, <2>6
<1>7. ASSUME NEW u \in Ups, NEW k, AcceptCtrl(u, k) PROVE Placed(c)'
  <2> DEFINE v == [ctrl[k] EXCEPT !.api = "loop"]
  <2>1. Only(k, v) BY <1>7, AcceptCtrlEffect
  <2>2. v.hand = ctrl[k].hand /\ v.queue = ctrl[k].queue BY <1>0, <2>1 DEF Only, Connections
  <2> HIDE DEF v
  <2>3. UNCHANGED <<chan, served>> BY <1>7 DEF AcceptCtrl, upstream
  <2>4. /\ Len(ctrl') = Len(ctrl) /\ ctrl'[k] = v
        /\ \A j \in 1 .. Len(ctrl) : j # k => ctrl'[j] = ctrl[j]
    BY <2>1, OnlyEffect DEF SameEnds
  <2>5. \A j \in 1 .. Len(ctrl) : ctrl'[j].hand = ctrl[j].hand /\ ctrl'[j].queue = ctrl[j].queue
    BY <2>2, <2>4
  <2>6. Len(ctrl) <= Len(ctrl') /\ Len(ctrl') \in Nat BY <1>0, <2>4
  <2>7. QED BY <1>2, <2>3, <2>5, <2>6
<1>8. ASSUME NEW u \in Ups, NEW k, Recv(u, k) PROVE Placed(c)'
  <2> DEFINE v == [ctrl[k] EXCEPT !.hand = Head(ctrl[k].queue), !.queue = Tail(@)]
  <2>1. Only(k, v) /\ ctrl[k].hand = NoClient /\ ctrl[k].queue # <<>> BY <1>8, RecvEffect
  <2>2. k \in 1 .. Len(ctrl) /\ ctrl[k] \in Connections /\ ctrl[k].queue \in Seq(Clients)
    BY <1>0, <2>1 DEF Only
  <2>3. v.hand = Head(ctrl[k].queue) /\ v.queue = Tail(ctrl[k].queue) BY <2>2 DEF Connections
  <2>4. ToSet(ctrl[k].queue) = {v.hand} \cup ToSet(v.queue) BY <2>1, <2>2, <2>3, Contents
  <2> HIDE DEF v
  <2>5. UNCHANGED <<chan, served>> BY <1>8 DEF Recv, upstream
  <2>6. /\ Len(ctrl') = Len(ctrl) /\ ctrl'[k] = v
        /\ \A j \in 1 .. Len(ctrl) : j # k => ctrl'[j] = ctrl[j]
    BY <2>1, OnlyEffect DEF SameEnds
  <2>7. ASSUME NEW j \in 1 .. Len(ctrl), Sent(c, j) PROVE Placed(c)'
    <3>1. Sent(c, j)' BY <1>0, <2>1, <2>4, <2>6, <2>7 DEF Sent
    <3>2. QED BY <2>6, <3>1 DEF Placed, InTransit
  <2>8. \A w \in Ups : c \in ToSet(chan[w].q) => Placed(c)' BY <2>5 DEF Placed, InTransit
  <2>9. Len(ctrl) <= Len(ctrl') /\ Len(ctrl') \in Nat BY <1>0, <2>6
  <2>10. \A w \in Ups : c \in served[w] => c \in served'[w] BY <2>5
  <2>11. QED BY <1>1, <2>7, <2>8, <2>9, <2>10
<1>9. ASSUME NEW u \in Ups, NEW k, Push(u, k) PROVE Placed(c)'
  <2> DEFINE v == [ctrl[k] EXCEPT !.hand = NoClient]
  <2>1. Only(k, v) /\ ctrl[k].hand \in Clients BY <1>9, HandedEffect
  <2>2. k \in 1 .. Len(ctrl) /\ ctrl[k] \in Connections BY <1>0, <2>1 DEF Only
  <2>3. v.queue = ctrl[k].queue BY <2>2 DEF Connections
  <2> HIDE DEF v
  <2>4. UNCHANGED served /\ chan' = [chan EXCEPT ![u].q = Append(chan[u].q, ctrl[k].hand)]
    BY <1>9 DEF Push
  <2>5. chan'[u].q = Append(chan[u].q, ctrl[k].hand) /\ \A w \in Ups : w # u => chan'[w] = chan[w]
    BY <1>0, <2>4 DEF Types, Channels
  <2>6. ToSet(chan'[u].q) = ToSet(chan[u].q) \cup {ctrl[k].hand} BY <1>0, <2>1, <2>5, Contents
  <2>7. /\ Len(ctrl') = Len(ctrl) /\ ctrl'[k] = v
        /\ \A j \in 1 .. Len(ctrl) : j # k => ctrl'[j] = ctrl[j]
    BY <2>1, OnlyEffect DEF SameEnds
  <2>8. ASSUME NEW w \in Ups, c \in ToSet(chan[w].q) PROVE Placed(c)'
    BY <2>5, <2>6, <2>8 DEF Placed, InTransit
  <2>9. ASSUME NEW j \in 1 .. Len(ctrl), Sent(c, j) PROVE Placed(c)'
    <3>1. CASE j = k /\ c = ctrl[k].hand BY <2>6, <3>1 DEF Placed, InTransit
    <3>2. CASE ~(j = k /\ c = ctrl[k].hand)
      <4>1. Sent(c, j)' BY <2>3, <2>7, <2>9, <3>2 DEF Sent
      <4>2. QED BY <2>7, <4>1 DEF Placed, InTransit
    <3>3. QED BY <3>1, <3>2
  <2>10. Len(ctrl) <= Len(ctrl') /\ Len(ctrl') \in Nat BY <1>0, <2>7
  <2>11. \A w \in Ups : c \in served[w] => c \in served'[w] BY <2>4
  <2>12. QED BY <1>1, <2>8, <2>9, <2>10, <2>11
<1>10. QED BY <1>3, <1>4, <1>5, <1>6, <1>7, <1>8, <1>9, Ordinary

LEMMA NextOpen ==
  ASSUME Types, Hand, Open, [Next]_vars
  PROVE  Open'
<1> SUFFICES ASSUME Undisturbed'
             PROVE  /\ \A k \in 1 .. Len(ctrl') : ctrl'[k].api # "gone"
                    /\ \A u \in Ups : chan'[u].open
                    /\ lb' \in Dealing => \A u \in Ups : ctrlFds'[u] # 0
                    /\ lb' = "close" => Placed(held)'
                    /\ \A c \in 1 .. accepted' : c \in lbFds' \/ Placed(c)'
  BY DEF Open, Placed, InTransit, Sent
<1>0. /\ Undisturbed /\ Len(ctrl) \in Nat /\ accepted \in Nat /\ accepted <= NumClients
      /\ (\A k \in 1 .. Len(ctrl) : ctrl[k].api # "gone" /\ ctrl[k] \in Connections)
      /\ (\A u \in Ups : chan[u].open /\ chan[u] \in Channels)
      /\ (lb \in Dealing => \A u \in Ups : ctrlFds[u] # 0)
      /\ (lb = "close" => Placed(held))
      /\ (\A c \in 1 .. accepted : c \in lbFds \/ Placed(c))
      /\ (lb \in {"send", "close"} => held \in Clients)
  <2>1. Undisturbed BY Ordinary
  <2>2. Len(ctrl) \in Nat /\ \A k \in 1 .. Len(ctrl) : ctrl[k] \in Connections
    BY CtrlSized DEF Sized
  <2>3. /\ (\A k \in 1 .. Len(ctrl) : ctrl[k].api # "gone")
        /\ (\A u \in Ups : chan[u].open)
        /\ (lb \in Dealing => \A u \in Ups : ctrlFds[u] # 0)
        /\ (lb = "close" => Placed(held))
        /\ (\A c \in 1 .. accepted : c \in lbFds \/ Placed(c))
    BY <2>1 DEF Open
  <2>4. /\ accepted \in Nat /\ accepted <= NumClients
        /\ \A u \in Ups : chan[u] \in Channels
    BY Ranges DEF Types
  <2>5. lb \in {"send", "close"} => held \in Clients BY DEF Types, Hand
  <2>6. QED BY <2>1, <2>2, <2>3, <2>4, <2>5
<1>1. ASSUME UNCHANGED <<lb, held, lbFds, accepted, ctrlFds>>
      PROVE  /\ lb' \in Dealing => \A u \in Ups : ctrlFds'[u] # 0
             /\ lb' = "close" => Placed(held)'
             /\ \A c \in 1 .. accepted' : c \in lbFds' \/ Placed(c)'
  <2>1. lb' = "close" => Placed(held)'
    <3>1. CASE lb = "close"
      <4>1. held \in Clients /\ Placed(held) BY <1>0, <3>1
      <4>2. \A c \in Clients : Placed(c) => Placed(c)' BY StaysPlaced
      <4>3. PICK c \in Clients : c = held BY <4>1
      <4>4. Placed(c)' BY <4>1, <4>2, <4>3
      <4>5. held' = c BY <1>1, <4>3
      <4>6. QED BY <4>4, <4>5 DEF Placed, InTransit, Sent
    <3>2. CASE lb # "close" BY <1>1, <3>2
    <3>3. QED BY <3>1, <3>2
  <2>2. ASSUME NEW c \in 1 .. accepted PROVE c \in lbFds' \/ Placed(c)'
    <3>1. c \in Clients BY <1>0, <2>2, Ranges DEF Clients
    <3>2. QED BY <1>0, <1>1, <2>2, <3>1, StaysPlaced
  <2>3. QED BY <1>0, <1>1, <2>1, <2>2
<1>2. CASE Dial /\ \A u \in Ups : up[u]
  <2>1. ASSUME NEW k \in 1 .. Len(ctrl') PROVE ctrl'[k].api # "gone"
    <3>1. CASE k \in 1 .. Len(ctrl) BY <1>0, <1>2, <3>1, DialEffect
    <3>2. CASE k \notin 1 .. Len(ctrl)
      <4>1. k - Len(ctrl) \in Ups /\ Len(ctrl) + (k - Len(ctrl)) = k
        BY <1>0, <1>2, <3>2, DialEffect, Ranges DEF Ups
      <4>2. ctrl'[k] = Dialed(k - Len(ctrl)) BY <1>2, <4>1, DialEffect
      <4>3. Dialed(k - Len(ctrl)).api = "backlog" BY DEF Dialed
      <4>4. QED BY <4>2, <4>3
    <3>3. QED BY <3>1, <3>2
  <2>2. \A u \in Ups : ctrlFds'[u] # 0
    <3>1. \A u \in Ups : ctrlFds'[u] = Len(ctrl) + u BY <1>2, DialEffect
    <3>2. QED BY <1>0, <3>1 DEF Ups
  <2>3. lb' = "accept" /\ UNCHANGED <<lbFds, accepted, chan>> BY <1>2 DEF Dial, upstream
  <2>4. ASSUME NEW c \in 1 .. accepted PROVE c \in lbFds' \/ Placed(c)'
    <3>1. c \in Clients BY <1>0, <2>4, Ranges DEF Clients
    <3>2. QED BY <1>0, <2>3, <2>4, <3>1, StaysPlaced
  <2>5. QED BY <1>0, <2>1, <2>2, <2>3, <2>4
<1>3. CASE Accept
  <2>1. /\ lb = "accept" /\ lb' = "send" /\ accepted' = accepted + 1 /\ held' = accepted + 1
        /\ lbFds' = lbFds \cup {held'} /\ UNCHANGED <<ctrl, ctrlFds, chan>>
    BY <1>3 DEF Accept, upstream
  <2>2. ASSUME NEW c \in 1 .. accepted' PROVE c \in lbFds' \/ Placed(c)'
    <3>1. CASE c = accepted + 1 BY <2>1, <3>1
    <3>2. CASE c # accepted + 1
      <4>1. c \in 1 .. accepted /\ c \in Clients BY <1>0, <2>1, <2>2, <3>2, Ranges DEF Clients
      <4>2. QED BY <1>0, <2>1, <4>1, StaysPlaced
    <3>3. QED BY <3>1, <3>2
  <2>3. QED BY <1>0, <2>1, <2>2 DEF Dealing
<1>4. CASE Send
  <2> DEFINE k == ctrlFds[target]
             v == [ctrl[k] EXCEPT !.queue = Append(@, held)]
  <2>1. Only(k, v) /\ held \in Clients BY <1>4, SendEffect
  <2>2. k \in 1 .. Len(ctrl) /\ ctrl[k] \in Connections BY <1>0, <2>1 DEF Only
  <2>3. v.queue = Append(ctrl[k].queue, held) /\ v.api = ctrl[k].api /\ ctrl[k].queue \in Seq(Clients)
    BY <2>2 DEF Connections
  <2>4. held \in ToSet(v.queue) BY <2>1, <2>3, Contents
  <2> HIDE DEF v, k
  <2>5. /\ Len(ctrl') = Len(ctrl) /\ ctrl'[k] = v
        /\ \A j \in 1 .. Len(ctrl) : j # k => ctrl'[j] = ctrl[j]
    BY <2>1, OnlyEffect DEF SameEnds
  <2>6. /\ lb = "send" /\ lb' = "close" /\ UNCHANGED <<lbFds, held, accepted, ctrlFds, chan>>
    BY <1>4 DEF Send, upstream
  <2>8. Placed(held)'
    <3>1. held' = held /\ held' \in ToSet(ctrl'[k].queue) /\ k \in 1 .. Len(ctrl')
      BY <2>2, <2>4, <2>5, <2>6
    <3>2. QED BY <3>1 DEF Placed, InTransit, Sent
  <2>9. ASSUME NEW c \in 1 .. accepted PROVE c \in lbFds' \/ Placed(c)'
    <3>1. c \in Clients BY <1>0, <2>9, Ranges DEF Clients
    <3>2. QED BY <1>0, <2>6, <2>9, <3>1, StaysPlaced
  <2>10. QED BY <1>0, <2>2, <2>3, <2>5, <2>6, <2>8, <2>9 DEF Dealing
<1>5. CASE Close
  <2>1. /\ lb = "close" /\ lb' = "accept" /\ lbFds' = lbFds \ {held}
        /\ UNCHANGED <<ctrl, ctrlFds, chan, accepted>>
    BY <1>5 DEF Close, upstream
  <2>2. ASSUME NEW c \in 1 .. accepted PROVE c \in lbFds' \/ Placed(c)'
    <3>1. c \in Clients BY <1>0, <2>2, Ranges DEF Clients
    <3>2. c \in lbFds' \/ Placed(c) BY <1>0, <2>1, <2>2
    <3>3. QED BY <3>1, <3>2, StaysPlaced
  <2>3. QED BY <1>0, <2>1, <2>2 DEF Dealing
<1>6. CASE UNCHANGED vars
  <2>1. UNCHANGED <<lb, held, lbFds, accepted, ctrl, ctrlFds, chan>> BY <1>6 DEF vars, balancer, upstream
  <2>2. QED BY <1>0, <1>1, <2>1
<1>7. ASSUME NEW u \in Ups, Adopt(u) \/ \E k \in Conns : AcceptCtrl(u, k) \/ Push(u, k) \/ Recv(u, k)
      PROVE  /\ \A k \in 1 .. Len(ctrl') : ctrl'[k].api # "gone"
             /\ \A w \in Ups : chan'[w].open
             /\ UNCHANGED <<lb, held, lbFds, accepted, ctrlFds>>
  <2>1. UNCHANGED <<lb, held, lbFds, accepted, ctrlFds>>
    BY <1>7 DEF Adopt, AcceptCtrl, Push, Recv, balancer
  <2>2. CASE Adopt(u)
    <3>1. UNCHANGED ctrl /\ chan' = [chan EXCEPT ![u].q = Tail(@)] BY <2>2 DEF Adopt
    <3>2. \A w \in Ups : chan'[w].open BY <1>0, <3>1 DEF Types, Channels
    <3>3. QED BY <1>0, <2>1, <3>1, <3>2
  <2>3. ASSUME NEW k, AcceptCtrl(u, k) \/ Push(u, k) \/ Recv(u, k)
        PROVE  /\ \A j \in 1 .. Len(ctrl') : ctrl'[j].api # "gone"
               /\ \A w \in Ups : chan'[w].open
    <3>1. k \in 1 .. Len(ctrl) BY <2>3, OwnedIs DEF AcceptCtrl, FirstInBacklog, Push, Recv
    <3>2. ctrl[k] \in Connections /\ ctrl[k].api # "gone" BY <1>0, <3>1
    <3>3. PICK v : Only(k, v) /\ v.api # "gone"
      <4>1. CASE AcceptCtrl(u, k)
        <5>1. [ctrl[k] EXCEPT !.api = "loop"].api = "loop" BY <3>2 DEF Connections
        <5>2. QED BY <4>1, <5>1, AcceptCtrlEffect
      <4>2. CASE Recv(u, k)
        <5> DEFINE d == [ctrl[k] EXCEPT !.hand = Head(ctrl[k].queue), !.queue = Tail(@)]
        <5>1. d.api = ctrl[k].api BY <3>2 DEF Connections
        <5>2. Only(k, d) BY <4>2, RecvEffect
        <5> HIDE DEF d
        <5>3. QED BY <3>2, <5>1, <5>2
      <4>3. CASE Push(u, k)
        <5>1. [ctrl[k] EXCEPT !.hand = NoClient].api = ctrl[k].api BY <3>2 DEF Connections
        <5>2. QED BY <3>2, <4>3, <5>1, HandedEffect
      <4>4. QED BY <2>3, <4>1, <4>2, <4>3
    <3>4. \A j \in 1 .. Len(ctrl') : ctrl'[j].api # "gone"
      BY <1>0, <3>3, OnlyEffect DEF SameEnds
    <3>5. \A w \in Ups : chan'[w].open
      <4>1. UNCHANGED chan \/ chan' = [chan EXCEPT ![u].q = Append(@, ctrl[k].hand)]
        BY <2>3 DEF AcceptCtrl, Push, Recv, upstream
      <4>2. ASSUME chan' = [chan EXCEPT ![u].q = Append(@, ctrl[k].hand)], NEW w \in Ups
            PROVE  chan'[w].open
        <5>1. chan[w] \in Channels /\ chan[w].open BY <1>0
        <5>2. chan'[w] = chan[w] \/ chan'[w] = [chan[w] EXCEPT !.q = Append(@, ctrl[k].hand)]
          BY <4>2 DEF Types
        <5>3. QED BY <5>1, <5>2 DEF Channels
      <4>3. QED BY <1>0, <4>1, <4>2
    <3>6. QED BY <3>4, <3>5
  <2>4. QED BY <1>7, <2>1, <2>2, <2>3
<1>8. QED BY <1>1, <1>2, <1>3, <1>4, <1>5, <1>6, <1>7, Ordinary
-----------------------------------------------------------------------------
(* The theorems                                                            *)

LEMMA InitIInv == Init => IInv
<1> SUFFICES ASSUME Init PROVE IInv OBVIOUS
<1>1. ctrl = <<>> /\ Len(ctrl) = 0 /\ accepted = 0 /\ lb = "dialing" /\ lbRestarts = 0 /\ next = 0
  BY DEF Init
<1>2. Capacities BY <1>1, Ranges DEF Init, Capacities
<1>3. Dials
  <2>1. Upstreams * 0 = 0 BY Ranges
  <2>2. QED BY <1>1, <2>1 DEF Dials
<1>4. Kept BY <1>1 DEF Init, Kept
<1>5. Losses BY <1>1 DEF Init, Losses, Dealing
<1>6. Turns
  <2>1. 0 % Upstreams = 0 BY Ranges
  <2>2. \A u \in Ups : assigned[u] = IF u <= next % Upstreams THEN 0 + 1 ELSE 0
    BY <1>1, <2>1 DEF Init, Ups
  <2>3. QED BY <2>2 DEF Turns
<1>7. Open BY <1>1 DEF Init, Open, Dealing
<1>8. QED BY <1>2, <1>3, <1>4, <1>5, <1>6, <1>7, InitTypes DEF IInv

LEMMA NextIInv == IInv /\ [Next]_vars => IInv'
BY NextTypes, NextHand, NextCapacities, NextDials, NextKept, NextLosses, NextTurns, NextOpen DEF IInv

\* The inductive invariant holds throughout.
THEOREM FdInvariant == Spec => []IInv
BY InitIInv, NextIInv, PTL DEF Spec

\* Every variable of the balancer and of the upstreams has its type, queues
\* and channels their capacity, and control connections their number.
THEOREM FdTypeCorrect == Spec => []TypeOK
<1>1. IInv => TypeOK
  <2> SUFFICES ASSUME IInv PROVE TypeOK OBVIOUS
  <2>1. Types /\ Capacities /\ Dials /\ Sized BY CtrlSized DEF IInv
  <2>2. ctrlFds \in [Ups -> 0 .. Len(ctrl)] BY <2>1 DEF Types, Sized
  <2>3. Len(ctrl) \in {0} \cup Conns
    <3> DEFINE m == IF lb = "dialing" THEN lbRestarts ELSE lbRestarts + 1
    <3>1. m \in Nat /\ m <= 1 + MaxRestarts /\ accepted <= NumClients /\ accepted \in Nat
      BY <2>1, Ranges DEF Types
    <3>2. Upstreams * m <= Upstreams * (1 + MaxRestarts)
      <4>1. Upstreams * (1 + MaxRestarts) = Upstreams * m + Upstreams * (1 + MaxRestarts - m)
        BY <3>1, Ranges
      <4>2. Upstreams * (1 + MaxRestarts - m) >= 0 BY <3>1, Ranges
      <4>3. Upstreams * m \in Int /\ Upstreams * (1 + MaxRestarts - m) \in Int BY <3>1, Ranges
      <4>4. QED BY <4>1, <4>2, <4>3
    <3>3. Len(ctrl) <= Upstreams * m + accepted BY <2>1, <3>1, Ranges DEF Dials
    <3>4. Upstreams * m \in Int /\ Upstreams * (1 + MaxRestarts) \in Int BY <3>1, Ranges
    <3> HIDE DEF m
    <3>5. QED BY <2>1, <3>1, <3>2, <3>3, <3>4, Ranges DEF Conns, Sized
  <2>4. ASSUME NEW k \in 1 .. Len(ctrl)
        PROVE  /\ ctrl[k].to \in Ups /\ ctrl[k].hand \in Clients \cup {NoClient}
               /\ Len(ctrl[k].queue) <= SockCap /\ ToSet(ctrl[k].queue) \subseteq Clients
               /\ ctrl[k].lb \in BOOLEAN /\ ctrl[k].api \in {"backlog", "loop", "gone"}
    <3>1. ctrl[k] \in Connections BY <2>1 DEF Sized
    <3>2. ToSet(ctrl[k].queue) \subseteq Clients BY <3>1, Contents DEF Connections
    <3>3. QED BY <2>1, <3>1, <3>2 DEF Connections, Capacities
  <2>5. ASSUME NEW u \in Ups
        PROVE  /\ Len(chan[u].q) <= ChanCap /\ ToSet(chan[u].q) \subseteq Clients
               /\ chan[u].open \in BOOLEAN /\ served[u] \subseteq Clients
    <3>1. chan[u] \in Channels BY <2>1 DEF Types
    <3>2. ToSet(chan[u].q) \subseteq Clients BY <3>1, Contents DEF Channels
    <3>3. QED BY <2>1, <3>1, <3>2 DEF Channels, Capacities, Types
  <2>6. QED BY <2>1, <2>2, <2>3, <2>4, <2>5 DEF Types, TypeOK, Dealing
<1>2. QED BY <1>1, FdInvariant, PTL

\* The balancer has the descriptor of the client in hand open and one control
\* descriptor per upstream, on every path of cmd/lb's loop.
THEOREM DescriptorsNeverLeak == Spec => []NoFdLeak
<1>1. IInv => NoFdLeak
  <2> SUFFICES ASSUME IInv PROVE NoFdLeak OBVIOUS
  <2>1. Types /\ Hand /\ Kept /\ Sized BY CtrlSized DEF IInv
  <2>2. ASSUME NEW k \in 1 .. Len(ctrl), ctrl[k].lb PROVE k \in {ctrlFds[u] : u \in Ups} \ {0}
    <3>1. ctrl[k].to \in Ups /\ ctrlFds[ctrl[k].to] = k /\ k # 0
      BY <2>1, <2>2 DEF Kept, Sized, Connections
    <3>2. QED BY <3>1
  <2>3. ASSUME NEW u \in Ups, ctrlFds[u] # 0
        PROVE  ctrlFds[u] \in {k \in 1 .. Len(ctrl) : ctrl[k].lb}
    <3>1. ctrlFds[u] \in 1 .. Len(ctrl) BY <2>1, <2>3 DEF Types, Sized
    <3>2. ctrl[ctrlFds[u]].to = u BY <2>1, <2>3 DEF Kept
    <3>3. QED BY <2>1, <3>1, <3>2 DEF Kept
  <2>4. {k \in 1 .. Len(ctrl) : ctrl[k].lb} = {ctrlFds[u] : u \in Ups} \ {0}
    BY <2>2, <2>3
  <2>5. QED BY <2>1, <2>4 DEF NoFdLeak, Hand
<1>2. QED BY <1>1, FdInvariant, PTL

\* Turns stay even over restarts and the wrap of the counter, if the number of
\* upstreams divides its range.
THEOREM TurnsStayEven ==
  ASSUME CounterMod % Upstreams = 0
  PROVE  Spec => []Balanced
<1>1. IInv => Balanced
  <2> SUFFICES ASSUME IInv PROVE Balanced OBVIOUS
  <2>1. PICK n \in Nat : \A u \in Ups : assigned[u] = IF u <= next % Upstreams THEN n + 1 ELSE n
    BY DEF IInv, Turns
  <2>2. \A u \in Ups : assigned[u] \in {n, n + 1} BY <2>1
  <2>3. QED BY <2>2 DEF Balanced
<1>2. QED BY <1>1, FdInvariant, PTL

\* If the kernel refuses nothing, redialing a broken control connection costs
\* one client per restart of the upstream.
THEOREM RestartCostsOne ==
  ASSUME ~Faults
  PROVE  Spec => []OneLossPerRestart
<1>1. IInv => OneLossPerRestart BY DEF IInv, Losses, OneLossPerRestart
<1>2. QED BY <1>1, FdInvariant, PTL

\* While neither program ends and the kernel refuses nothing, every client
\* accepted is in the balancer's hand, on its way or adopted.
THEOREM NobodyIsLost == Spec => []NobodyLost
<1>1. IInv => NobodyLost BY DEF IInv, Open, NobodyLost, Placed
<1>2. QED BY <1>1, FdInvariant, PTL
-----------------------------------------------------------------------------
(* FdDispatch is implemented, if the kernel refuses no call.               *)

\* A client is in the balancer's hand on its turn, on a connection of an
\* upstream or in its channel.
Handed(u, c) == c = held /\ lb = "send" /\ u = target
Line(u, c) == \E k \in 1 .. Len(ctrl) : Sent(c, k) /\ ctrl[k].to = u
Carried(u, c) == Line(u, c) \/ c \in ToSet(chan[u].q)

\* The channel of an upstream that is down is empty and closed.
Down == \A u \in Ups : ~up[u] => chan[u].q = <<>> /\ ~chan[u].open

\* A client is with one upstream only, none is before it was accepted, and the
\* one in hand on its turn is nowhere else.
Lone ==
  /\ \A c \in Clients, u, v \in Ups :
       (Carries(u, c) \/ Serves(u, c)) /\ (Carries(v, c) \/ Serves(v, c)) => u = v
  /\ \A c \in Clients, u \in Ups : Carries(u, c) \/ Serves(u, c) => c <= accepted
  /\ lb = "send" => \A u \in Ups : ~Carried(u, held) /\ ~Serves(u, held)
  /\ Down

LEMMA CarriesIs == \A u, c : Carries(u, c) <=> Handed(u, c) \/ Carried(u, c)
BY DEF Carries, Handed, Carried, Line

LEMMA CarriesIsNext == \A u, c : Carries(u, c)' <=> Handed(u, c)' \/ Carried(u, c)'
BY DEF Carries, Handed, Carried, Line

\* Connections that keep their load, and new ones without any.
LEMMA SameLines ==
  ASSUME Types, Len(ctrl') \in Nat, Len(ctrl) <= Len(ctrl'),
         \A j \in 1 .. Len(ctrl) :
           ctrl'[j].to = ctrl[j].to /\ ctrl'[j].hand = ctrl[j].hand /\ ctrl'[j].queue = ctrl[j].queue,
         \A j \in 1 .. Len(ctrl') :
           j > Len(ctrl) => ctrl'[j].hand = NoClient /\ ctrl'[j].queue = <<>>
  PROVE  \A u \in Ups, c \in Clients : Line(u, c)' <=> Line(u, c)
<1>0. Len(ctrl) \in Nat /\ ToSet(<<>>) = {} /\ NoClient \notin Clients
  BY CtrlSized, Ranges, Contents DEF Sized
<1> SUFFICES ASSUME NEW u \in Ups, NEW c \in Clients PROVE Line(u, c)' <=> Line(u, c)
  OBVIOUS
<1>1. ASSUME NEW k \in 1 .. Len(ctrl), Sent(c, k), ctrl[k].to = u PROVE Line(u, c)'
  <2>1. k \in 1 .. Len(ctrl') /\ Sent(c, k)' /\ ctrl'[k].to = u BY <1>0, <1>1 DEF Sent
  <2>2. QED BY <2>1 DEF Line
<1>2. ASSUME NEW k \in 1 .. Len(ctrl'), Sent(c, k)', ctrl'[k].to = u PROVE Line(u, c)
  <2>1. c = ctrl'[k].hand \/ c \in ToSet(ctrl'[k].queue) BY <1>2 DEF Sent
  <2>2. k \in 1 .. Len(ctrl) BY <1>0, <2>1
  <2>3. Sent(c, k) /\ ctrl[k].to = u BY <1>2, <2>1, <2>2 DEF Sent
  <2>4. QED BY <2>2, <2>3 DEF Line
<1>3. QED BY <1>1, <1>2 DEF Line

\* One connection changes its load.
LEMMA OneLine ==
  ASSUME Types, NEW k, NEW v, Only(k, v)
  PROVE  \A u \in Ups, c \in Clients :
           /\ u # ctrl[k].to => (Line(u, c)' <=> Line(u, c))
           /\ Line(u, c)' => Line(u, c) \/ c = v.hand \/ c \in ToSet(v.queue)
           /\ Line(u, c) => Line(u, c)' \/ Sent(c, k)
           /\ u = ctrl[k].to /\ (c = v.hand \/ c \in ToSet(v.queue)) => Line(u, c)'
           /\ u = ctrl[k].to /\ Sent(c, k) => Line(u, c)
<1>1. /\ Len(ctrl') = Len(ctrl) /\ ctrl'[k] = v
      /\ (\A j \in 1 .. Len(ctrl) : ctrl'[j].to = ctrl[j].to)
      /\ (\A j \in 1 .. Len(ctrl) : j # k => ctrl'[j] = ctrl[j])
      /\ k \in 1 .. Len(ctrl) /\ v.to = ctrl[k].to
  BY OnlyEffect DEF SameEnds, Only
<1>2. ASSUME NEW j \in 1 .. Len(ctrl), j # k, NEW c PROVE Sent(c, j)' <=> Sent(c, j)
  BY <1>1, <1>2 DEF Sent
<1>3. \A c : Sent(c, k)' <=> c = v.hand \/ c \in ToSet(v.queue) BY <1>1 DEF Sent
<1>4. \A u, c : Line(u, c)' <=> \E j \in 1 .. Len(ctrl) : Sent(c, j)' /\ ctrl[j].to = u
  BY <1>1 DEF Line
<1>5. QED BY <1>1, <1>2, <1>3, <1>4 DEF Line

\* What a step of upstream w does to the clients: it leaves all where they are,
\* or adopts one, or ends and lets some go.
Passing == \A u \in Ups, c \in Clients : (Carried(u, c)' <=> Carried(u, c)) /\ (Serves(u, c)' <=> Serves(u, c))

Adopting(w, d) ==
  /\ Carried(w, d) /\ Serves(w, d)'
  /\ \A u \in Ups, c \in Clients :
       u # w \/ c # d => (Carried(u, c)' <=> Carried(u, c)) /\ (Serves(u, c)' <=> Serves(u, c))

Ending(w) ==
  /\ \A u \in Ups, c \in Clients :
       u # w => (Carried(u, c)' <=> Carried(u, c)) /\ (Serves(u, c)' <=> Serves(u, c))
  /\ \A c \in Clients : (Carried(w, c)' => Carried(w, c)) /\ ~Serves(w, c)'

LEMMA UpstreamFlow ==
  ASSUME Types, Down, ~Faults, NEW w \in Ups, UpstreamStep(w)
  PROVE  /\ Down'
         /\ Passing \/ Ending(w) \/ \E d \in Clients : Adopting(w, d)
<1>0. /\ Len(ctrl) \in Nat
      /\ (\A k \in 1 .. Len(ctrl) : ctrl[k] \in Connections /\ ctrl[k].queue \in Seq(Clients))
      /\ (\A u \in Ups : chan[u] \in Channels /\ chan[u].q \in Seq(Clients))
      /\ NoClient \notin Clients /\ ToSet(<<>>) = {}
  BY CtrlSized, Ranges, Contents DEF Types, Sized, Connections, Channels
<1>1. ASSUME UNCHANGED upstream PROVE Down' /\ \A u \in Ups : UNCHANGED <<chan[u], served[u]>>
  BY <1>1 DEF upstream, Down
<1>2. CASE Adopt(w)
  <2>0. PICK d \in Clients : d = Head(chan[w].q) BY <1>0, <1>2, TailSeq DEF Adopt
  <2>1. /\ up[w] /\ chan[w].q # <<>> /\ UNCHANGED <<ctrl, up>>
        /\ chan' = [chan EXCEPT ![w].q = Tail(chan[w].q)]
        /\ served' = [served EXCEPT ![w] = @ \cup {d}]
    BY <1>2, <2>0 DEF Adopt
  <2>2. /\ chan'[w].q = Tail(chan[w].q) /\ chan'[w].open = chan[w].open
        /\ \A u \in Ups : u # w => chan'[u] = chan[u]
    BY <1>0, <2>1 DEF Types, Channels
  <2>3. served'[w] = served[w] \cup {d} /\ \A u \in Ups : u # w => served'[u] = served[u]
    BY <2>1 DEF Types
  <2>4. ToSet(chan[w].q) = {d} \cup ToSet(chan'[w].q)
    BY <1>0, <2>0, <2>1, <2>2, Contents
  <2>5. \A u, c : Line(u, c)' <=> Line(u, c) BY <2>1 DEF Line, Sent
  <2>6. Adopting(w, d)
    <3>1. Carried(w, d) /\ Serves(w, d)' BY <2>3, <2>4 DEF Carried, Serves
    <3>2. ASSUME NEW u \in Ups, NEW c \in Clients, u # w \/ c # d
          PROVE  (Carried(u, c)' <=> Carried(u, c)) /\ (Serves(u, c)' <=> Serves(u, c))
      BY <2>2, <2>3, <2>4, <2>5, <3>2 DEF Carried, Serves
    <3>3. QED BY <3>1, <3>2 DEF Adopting
  <2>7. Down' BY <2>1, <2>2 DEF Down
  <2>8. QED BY <2>6, <2>7
<1>3. ASSUME NEW k, AcceptCtrl(w, k) PROVE Down' /\ Passing
  <2> DEFINE v == [ctrl[k] EXCEPT !.api = "loop"]
  <2>1. Only(k, v) BY <1>3, AcceptCtrlEffect
  <2>2. v.hand = ctrl[k].hand /\ v.queue = ctrl[k].queue BY <1>0, <2>1 DEF Only, Connections
  <2> HIDE DEF v
  <2>3. UNCHANGED upstream BY <1>3 DEF AcceptCtrl
  <2>4. /\ Len(ctrl') = Len(ctrl) /\ ctrl'[k] = v
        /\ (\A j \in 1 .. Len(ctrl) : ctrl'[j].to = ctrl[j].to)
        /\ \A j \in 1 .. Len(ctrl) : j # k => ctrl'[j] = ctrl[j]
    BY <2>1, OnlyEffect DEF SameEnds
  <2>5. \A j \in 1 .. Len(ctrl) : ctrl'[j].hand = ctrl[j].hand /\ ctrl'[j].queue = ctrl[j].queue
    BY <2>2, <2>4
  <2>6. \A u \in Ups, c \in Clients : Line(u, c)' <=> Line(u, c)
    BY <1>0, <2>4, <2>5, SameLines
  <2>7. QED BY <1>1, <2>3, <2>6 DEF Passing, Carried, Serves
<1>4. ASSUME NEW k, Recv(w, k) PROVE Down' /\ Passing
  <2> DEFINE v == [ctrl[k] EXCEPT !.hand = Head(ctrl[k].queue), !.queue = Tail(@)]
  <2>1. Only(k, v) /\ ctrl[k].hand = NoClient /\ ctrl[k].queue # <<>> BY <1>4, RecvEffect
  <2>2. k \in 1 .. Len(ctrl) /\ ctrl[k] \in Connections /\ ctrl[k].queue \in Seq(Clients)
    BY <1>0, <2>1 DEF Only
  <2>3. v.hand = Head(ctrl[k].queue) /\ v.queue = Tail(ctrl[k].queue) BY <2>2 DEF Connections
  <2>4. ToSet(ctrl[k].queue) = {v.hand} \cup ToSet(v.queue) BY <2>1, <2>2, <2>3, Contents
  <2>5. UNCHANGED upstream BY <1>4 DEF Recv
  <2> HIDE DEF v
  <2>6. \A c \in Clients : Sent(c, k) <=> c = v.hand \/ c \in ToSet(v.queue)
    BY <1>0, <2>1, <2>4 DEF Sent
  <2>7. \A u \in Ups, c \in Clients : Line(u, c)' <=> Line(u, c) BY <2>1, <2>6, OneLine
  <2>8. QED BY <1>1, <2>5, <2>7 DEF Passing, Carried, Serves
<1>5. ASSUME NEW k, Push(w, k) PROVE Down' /\ Passing
  <2> DEFINE v == [ctrl[k] EXCEPT !.hand = NoClient]
             d == ctrl[k].hand
  <2>1. Only(k, v) /\ d \in Clients /\ ctrl[k].to = w BY <1>5, HandedEffect, OwnedIs
  <2>2. k \in 1 .. Len(ctrl) /\ ctrl[k] \in Connections BY <1>0, <2>1 DEF Only
  <2>3. v.queue = ctrl[k].queue /\ v.hand = NoClient BY <2>2 DEF Connections
  <2>4. \A c \in Clients : Sent(c, k) <=> c = d \/ c \in ToSet(v.queue) BY <2>3 DEF Sent
  <2> HIDE DEF v, d
  <2>5. /\ chan[w].open /\ UNCHANGED <<served, up>>
        /\ chan' = [chan EXCEPT ![w].q = Append(chan[w].q, d)]
    BY <1>5 DEF Push, d
  <2>6. /\ chan'[w].q = Append(chan[w].q, d) /\ chan'[w].open = chan[w].open
        /\ \A u \in Ups : u # w => chan'[u] = chan[u]
    BY <1>0, <2>5 DEF Types, Channels
  <2>7. ToSet(chan'[w].q) = ToSet(chan[w].q) \cup {d} BY <1>0, <2>1, <2>6, Contents
  <2>8. ASSUME NEW u \in Ups, NEW c \in Clients PROVE Carried(u, c)' <=> Carried(u, c)
    <3>1. CASE u # w BY <2>1, <2>6, <3>1, OneLine DEF Carried
    <3>2. CASE u = w
      <4>1. Line(u, c)' => Line(u, c) BY <1>0, <2>1, <2>3, <2>4, <3>2, OneLine
      <4>2. Line(u, c) => Line(u, c)' \/ c = d BY <2>1, <2>4, <3>2, OneLine
      <4>3. c = d => Line(u, c) BY <2>1, <2>4, <3>2, OneLine
      <4>4. QED BY <2>7, <3>2, <4>1, <4>2, <4>3 DEF Carried
    <3>3. QED BY <3>1, <3>2
  <2>9. Down' BY <2>5, <2>6 DEF Down
  <2>10. QED BY <2>5, <2>8, <2>9 DEF Passing, Serves
<1>6. ASSUME Ends(w) PROVE Down' /\ Ending(w)
  <2>1. /\ Len(ctrl') = Len(ctrl)
        /\ (\A j \in 1 .. Len(ctrl) : ctrl'[j].to = ctrl[j].to)
        /\ \A j \in 1 .. Len(ctrl) : ctrl'[j] = IF Owned(w, j) THEN Ended(ctrl[j]) ELSE ctrl[j]
    BY <1>6, EndsEffect DEF SameEnds
  <2>2. /\ chan' = [chan EXCEPT ![w] = [q |-> <<>>, open |-> FALSE]]
        /\ served' = [served EXCEPT ![w] = {}] /\ up' = [up EXCEPT ![w] = FALSE]
    BY <1>6 DEF Ends
  <2>3. /\ chan'[w].q = <<>> /\ ~chan'[w].open /\ served'[w] = {}
        /\ \A u \in Ups : u # w => chan'[u] = chan[u] /\ served'[u] = served[u] /\ up'[u] = up[u]
    BY <2>2 DEF Types
  <2>4. \A j \in 1 .. Len(ctrl), c \in Clients : Sent(c, j)' => Sent(c, j)
    <3>1. ASSUME NEW j \in 1 .. Len(ctrl), NEW c \in Clients, Sent(c, j)', Owned(w, j) PROVE FALSE
      <4>1. ctrl[j] \in Connections /\ ctrl'[j] = Ended(ctrl[j]) BY <1>0, <2>1, <3>1
      <4>2. ctrl'[j].hand = NoClient /\ ctrl'[j].queue = <<>> BY <4>1 DEF Ended, Connections
      <4>3. QED BY <1>0, <3>1, <4>2 DEF Sent
    <3>2. QED BY <2>1, <3>1 DEF Sent
  <2>5. \A j \in 1 .. Len(ctrl), c \in Clients : ctrl[j].to # w => (Sent(c, j)' <=> Sent(c, j))
    BY <2>1, OwnedIs DEF Sent
  <2>6. \A u, c : Line(u, c)' <=> \E j \in 1 .. Len(ctrl) : Sent(c, j)' /\ ctrl[j].to = u
    BY <2>1 DEF Line
  <2>7. \A u \in Ups, c \in Clients : u # w => (Line(u, c)' <=> Line(u, c))
    BY <2>5, <2>6 DEF Line
  <2>8. \A c \in Clients : Line(w, c)' => Line(w, c) BY <2>4, <2>6 DEF Line
  <2>9. Down' BY <2>3 DEF Down
  <2>10. QED BY <1>0, <2>3, <2>7, <2>8, <2>9 DEF Ending, Carried, Serves
<1>7. CASE UpstreamStarts(w)
  <2>1. /\ ~up[w] /\ UNCHANGED <<ctrl, served>> /\ up' = [up EXCEPT ![w] = TRUE]
        /\ chan' = [chan EXCEPT ![w] = [q |-> <<>>, open |-> TRUE]]
    BY <1>7 DEF UpstreamStarts
  <2>2. \A u \in Ups : chan'[u].q = chan[u].q
    <3>1. chan[w].q = <<>> BY <2>1 DEF Down
    <3>2. chan'[w].q = <<>> /\ \A u \in Ups : u # w => chan'[u] = chan[u] BY <2>1 DEF Types
    <3>3. QED BY <3>1, <3>2
  <2>3. Down' BY <2>1 DEF Down, Types
  <2>4. \A u, c : Line(u, c)' <=> Line(u, c) BY <2>1 DEF Line, Sent
  <2>5. Passing BY <2>1, <2>2, <2>4 DEF Passing, Carried, Serves
  <2>6. QED BY <2>3, <2>5
<1>8. ~Failure(w) BY DEF Failure, AcceptCtrlFails, AdoptFails, RecvFails, NonblockFails
<1>9. QED
  BY <1>2, <1>3, <1>4, <1>5, <1>6, <1>7, <1>8
     DEF UpstreamStep, Step, UpstreamEnds, PushPanics

\* The steps of the balancer but Accept and Send: the client in hand may leave
\* it, nobody else moves.
LEMMA BalancerFlow ==
  ASSUME Types, Dial \/ Reconnect \/ Close \/ BalancerEnds \/ BalancerStarts \/ UNCHANGED vars
  PROVE  /\ Passing /\ UNCHANGED <<accepted, chan, up>>
         /\ \A u, c : Handed(u, c)' => Handed(u, c)
<1>0. Len(ctrl) \in Nat /\ (\A j \in 1 .. Len(ctrl) : ctrl[j] \in Connections) BY CtrlSized DEF Sized
<1>1. UNCHANGED <<accepted, chan, served, up>>
  BY DEF Dial, Reconnect, Close, BalancerEnds, BalancerStarts, vars, balancer, upstream
<1>2. \A u, c : Handed(u, c)' => Handed(u, c)
  BY DEF Dial, Reconnect, Close, BalancerEnds, BalancerStarts, vars, balancer, Handed
<1>3. \A u : Dialed(u).hand = NoClient /\ Dialed(u).queue = <<>> BY DEF Dialed
<1>4. \A u \in Ups, c \in Clients : Line(u, c)' <=> Line(u, c)
  <2>1. CASE UNCHANGED ctrl BY <2>1 DEF Line, Sent
  <2>2. CASE Dial /\ \A u \in Ups : up[u]
    <3>1. /\ Len(ctrl') = Len(ctrl) + Upstreams /\ Len(ctrl') \in Nat
          /\ (\A j \in 1 .. Len(ctrl) : ctrl'[j] = ctrl[j])
          /\ \A u \in Ups : ctrl'[Len(ctrl) + u] = Dialed(u)
      BY <1>0, <2>2, DialEffect, Ranges
    <3>2. ASSUME NEW j \in 1 .. Len(ctrl'), j > Len(ctrl)
          PROVE  ctrl'[j].hand = NoClient /\ ctrl'[j].queue = <<>>
      <4>1. j - Len(ctrl) \in Ups /\ Len(ctrl) + (j - Len(ctrl)) = j
        BY <1>0, <3>1, <3>2, Ranges DEF Ups
      <4>2. ctrl'[j] = Dialed(j - Len(ctrl)) BY <3>1, <4>1
      <4>3. QED BY <1>3, <4>2
    <3>3. Len(ctrl) <= Len(ctrl') BY <1>0, <3>1, Ranges
    <3>4. QED BY <3>1, <3>2, <3>3, SameLines
  <2>3. CASE Reconnect
    <3>1. /\ ctrl' \in Seq(Connections)
          /\ (\A j \in 1 .. Len(ctrl) :
                ctrl'[j] = IF j = ctrlFds[target] THEN [ctrl[j] EXCEPT !.lb = FALSE] ELSE ctrl[j])
          /\ \/ Len(ctrl') = Len(ctrl) + 1 /\ ctrl'[Len(ctrl) + 1] = Dialed(target)
             \/ Len(ctrl') = Len(ctrl)
      BY <2>3, ReconnectEffect
    <3>2. \A j \in 1 .. Len(ctrl) :
            ctrl'[j].to = ctrl[j].to /\ ctrl'[j].hand = ctrl[j].hand /\ ctrl'[j].queue = ctrl[j].queue
      BY <1>0, <3>1 DEF Connections
    <3>3. Len(ctrl') \in Nat /\ Len(ctrl) <= Len(ctrl') BY <1>0, <3>1
    <3>4. ASSUME NEW j \in 1 .. Len(ctrl'), j > Len(ctrl)
          PROVE  ctrl'[j].hand = NoClient /\ ctrl'[j].queue = <<>>
      <4>1. j = Len(ctrl) + 1 /\ ctrl'[j] = Dialed(target) BY <1>0, <3>1, <3>4
      <4>2. QED BY <1>3, <4>1
    <3>5. QED BY <3>2, <3>3, <3>4, SameLines
  <2>4. CASE BalancerEnds
    <3>1. Len(ctrl') = Len(ctrl) /\ \A j \in 1 .. Len(ctrl) : ctrl'[j] = [ctrl[j] EXCEPT !.lb = FALSE]
      BY <2>4, BalancerEndsEffect
    <3>2. \A j \in 1 .. Len(ctrl) :
            ctrl'[j].to = ctrl[j].to /\ ctrl'[j].hand = ctrl[j].hand /\ ctrl'[j].queue = ctrl[j].queue
      BY <1>0, <3>1 DEF Connections
    <3>3. QED BY <1>0, <3>1, <3>2, SameLines
  <2>5. QED BY <2>1, <2>2, <2>3, <2>4 DEF Dial, Close, BalancerStarts, vars
<1>5. QED BY <1>1, <1>2, <1>4 DEF Passing, Carried, Serves

LEMMA SendFlow ==
  ASSUME Types, Hand, Kept, Send
  PROVE  /\ held \in Clients /\ lb = "send" /\ target \in Ups
         /\ UNCHANGED <<accepted, chan, up, served>> /\ lb' # "send"
         /\ \A u \in Ups, c \in Clients :
              Carried(u, c)' <=> Carried(u, c) \/ (u = target /\ c = held)
<1> DEFINE k == ctrlFds[target]
           v == [ctrl[k] EXCEPT !.queue = Append(@, held)]
<1>1. Only(k, v) /\ held \in Clients BY SendEffect
<1>2. k \in 1 .. Len(ctrl) /\ ctrl[k] \in Connections /\ ctrl[k].queue \in Seq(Clients)
  BY <1>1, CtrlSized DEF Only, Sized, Connections
<1>3. v.queue = Append(ctrl[k].queue, held) /\ v.hand = ctrl[k].hand BY <1>2 DEF Connections
<1>4. ToSet(v.queue) = ToSet(ctrl[k].queue) \cup {held} BY <1>1, <1>2, <1>3, Contents
<1>5. lb = "send" /\ target \in Ups /\ lb' = "close" /\ UNCHANGED <<accepted, chan, up, served>>
  BY DEF Send, Types, upstream
<1>6. ctrl[k].to = target
  <2>1. k # 0 BY <1>2
  <2>2. QED BY <1>5, <2>1 DEF Kept
<1> HIDE DEF v, k
<1>7. \A c : c = v.hand \/ c \in ToSet(v.queue) <=> Sent(c, k) \/ c = held
  BY <1>3, <1>4 DEF Sent
<1>8. ASSUME NEW u \in Ups, NEW c \in Clients
      PROVE  Line(u, c)' <=> Line(u, c) \/ (u = target /\ c = held)
  <2>1. CASE u # target BY <1>1, <1>6, <2>1, OneLine
  <2>2. CASE u = target
    <3>1. Line(u, c)' => Line(u, c) \/ Sent(c, k) \/ c = held BY <1>1, <1>7, OneLine
    <3>2. Sent(c, k) => Line(u, c) BY <1>1, <1>6, <2>2, OneLine
    <3>3. Line(u, c) => Line(u, c)' \/ Sent(c, k) BY <1>1, OneLine
    <3>4. Sent(c, k) \/ c = held => Line(u, c)' BY <1>1, <1>6, <1>7, <2>2, OneLine
    <3>5. QED BY <2>2, <3>1, <3>2, <3>3, <3>4
  <2>3. QED BY <2>1, <2>2
<1>9. QED BY <1>1, <1>5, <1>8 DEF Carried

LEMMA AcceptFlow ==
  ASSUME Types, Accept
  PROVE  /\ Passing /\ UNCHANGED <<chan, up>> /\ lb = "accept" /\ lb' = "send"
         /\ accepted' = accepted + 1 /\ held' = accepted + 1 /\ held' \in Clients
         /\ target' = (next % Upstreams) + 1 /\ target' \in Ups
         /\ next' = (next + 1) % CounterMod
<1>1. /\ UNCHANGED <<chan, served, ctrl, up>> /\ lb = "accept" /\ lb' = "send"
      /\ accepted' = accepted + 1 /\ held' = accepted + 1 /\ accepted < NumClients
      /\ target' = (next % Upstreams) + 1 /\ next' = (next + 1) % CounterMod
  BY DEF Accept, upstream
<1>2. held' \in Clients BY <1>1, Ranges DEF Types, Clients
<1>3. target' \in Ups BY <1>1, Ranges DEF Types, Ups
<1>4. Passing BY <1>1 DEF Passing, Carried, Line, Sent, Serves
<1>5. QED BY <1>1, <1>2, <1>3, <1>4

LEMMA InitLone == Init => Lone
<1> SUFFICES ASSUME Init PROVE Lone OBVIOUS
<1>1. ctrl = <<>> /\ Len(<<>>) = 0 /\ lb = "dialing" /\ ToSet(<<>>) = {}
  BY DEF Init, ToSet
<1>2. \A u \in Ups : chan[u].q = <<>> /\ served[u] = {} /\ up[u] BY DEF Init
<1>3. \A u \in Ups : \A c : ~Carries(u, c) /\ ~Serves(u, c)
  BY <1>1, <1>2 DEF Carries, Serves
<1>4. QED BY <1>1, <1>2, <1>3 DEF Lone, Down

\* A step that gives no client a place it had not, but the one that is dealt.
LEMMA StaysLone ==
  ASSUME Types, Hand, Lone, Down', accepted' = accepted,
         \A u \in Ups, c \in Clients : Carries(u, c)' \/ Serves(u, c)' => Carries(u, c) \/ Serves(u, c),
         lb' = "send" =>
           /\ lb = "send" /\ held' = held
           /\ \A u \in Ups, c \in Clients :
                Carried(u, c)' \/ Serves(u, c)' => Carried(u, c) \/ Serves(u, c)
  PROVE  Lone'
<1>1. lb = "send" => held \in Clients BY DEF Hand, Types
<1>2. \A c \in Clients, u, v \in Ups :
        (Carries(u, c)' \/ Serves(u, c)') /\ (Carries(v, c)' \/ Serves(v, c)') => u = v
  BY DEF Lone
<1>3. \A c \in Clients, u \in Ups : Carries(u, c)' \/ Serves(u, c)' => c <= accepted'
  BY DEF Lone
<1>4. lb' = "send" => \A u \in Ups : ~Carried(u, held)' /\ ~Serves(u, held)'
  <2> SUFFICES ASSUME lb' = "send", NEW u \in Ups PROVE ~Carried(u, held)' /\ ~Serves(u, held)'
    OBVIOUS
  <2>1. PICK c \in Clients : c = held /\ c = held' BY <1>1
  <2>2. lb = "send" /\ ~Carried(u, held) /\ ~Serves(u, held) BY DEF Lone
  <2>3. ~Carried(u, c) /\ ~Serves(u, c) BY <2>1, <2>2
  <2>4. ~Carried(u, c)' /\ ~Serves(u, c)' BY <2>3
  <2>5. QED BY <2>1, <2>4 DEF Carried, Serves, Line, Sent
<1>5. QED BY <1>2, <1>3, <1>4 DEF Lone

LEMMA NextLone ==
  ASSUME Types, Hand, Kept, Lone, ~Faults, [Next]_vars
  PROVE  Lone'
<1>0. Down BY DEF Lone
<1>1. CASE Dial \/ Reconnect \/ Close \/ BalancerEnds \/ BalancerStarts \/ UNCHANGED vars
  <2>1. /\ Passing /\ UNCHANGED <<accepted, chan, up>>
        /\ \A u, c : Handed(u, c)' => Handed(u, c)
    BY <1>1, BalancerFlow
  <2>2. Down' BY <1>0, <2>1 DEF Down
  <2>3. \A u \in Ups, c \in Clients : Carries(u, c)' \/ Serves(u, c)' => Carries(u, c) \/ Serves(u, c)
    BY <2>1, CarriesIs, CarriesIsNext DEF Passing
  <2>4. lb' = "send" => lb = "send" /\ held' = held
    BY <1>1 DEF Dial, Reconnect, Close, BalancerEnds, BalancerStarts, vars, balancer
  <2>5. QED BY <2>1, <2>2, <2>3, <2>4, StaysLone DEF Passing
<1>2. CASE Accept
  <2>1. /\ Passing /\ UNCHANGED <<chan, up>> /\ lb = "accept" /\ lb' = "send"
        /\ accepted' = accepted + 1 /\ held' = accepted + 1 /\ held' \in Clients
        /\ target' \in Ups
    BY <1>2, AcceptFlow
  <2>2. accepted \in Nat BY Ranges DEF Types
  <2>3. Clients \subseteq Nat BY Ranges DEF Clients
  <2>4. \A u \in Ups, c \in Clients :
          /\ Carries(u, c)' <=> Carries(u, c) \/ (c = accepted + 1 /\ u = target')
          /\ Serves(u, c)' <=> Serves(u, c)
    BY <2>1, CarriesIs, CarriesIsNext DEF Passing, Handed
  <2>5. \A u \in Ups, c \in Clients : Carries(u, c) \/ Serves(u, c) => c <= accepted
    BY DEF Lone
  <2>6. \A c \in Clients, u, v \in Ups :
          (Carries(u, c)' \/ Serves(u, c)') /\ (Carries(v, c)' \/ Serves(v, c)') => u = v
    <3> SUFFICES ASSUME NEW c \in Clients, NEW u \in Ups, NEW v \in Ups,
                        Carries(u, c)' \/ Serves(u, c)', Carries(v, c)' \/ Serves(v, c)'
                 PROVE  u = v
      OBVIOUS
    <3>1. CASE c <= accepted
      <4>1. c # accepted + 1 BY <2>2, <2>3, <3>1
      <4>2. (Carries(u, c) \/ Serves(u, c)) /\ (Carries(v, c) \/ Serves(v, c)) BY <2>4, <4>1
      <4>3. QED BY <4>2 DEF Lone
    <3>2. CASE ~(c <= accepted)
      <4>1. ~Carries(u, c) /\ ~Serves(u, c) /\ ~Carries(v, c) /\ ~Serves(v, c) BY <2>5, <3>2
      <4>2. QED BY <2>4, <4>1
    <3>3. QED BY <3>1, <3>2
  <2>7. \A c \in Clients, u \in Ups : Carries(u, c)' \/ Serves(u, c)' => c <= accepted'
    BY <2>1, <2>2, <2>3, <2>4, <2>5
  <2>8. ASSUME NEW u \in Ups PROVE ~Carried(u, held)' /\ ~Serves(u, held)'
    <3>1. PICK c \in Clients : c = held' /\ c = accepted + 1 BY <2>1
    <3>2. ~Carried(u, c) /\ ~Serves(u, c) BY <2>2, <2>5, <3>1, CarriesIs
    <3>3. ~Carried(u, c)' /\ ~Serves(u, c)' BY <2>1, <3>2 DEF Passing
    <3>4. QED BY <3>1, <3>3 DEF Carried, Serves, Line, Sent
  <2>9. Down' BY <1>0, <2>1 DEF Down
  <2>10. QED BY <2>6, <2>7, <2>8, <2>9 DEF Lone
<1>3. CASE Send
  <2>1. /\ lb = "send" /\ target \in Ups /\ held \in Clients
        /\ UNCHANGED <<accepted, chan, up, served>> /\ lb' # "send"
        /\ \A u \in Ups, c \in Clients :
             Carried(u, c)' <=> Carried(u, c) \/ (u = target /\ c = held)
    BY <1>3, SendFlow
  <2>2. \A u \in Ups, c \in Clients : Carries(u, c)' <=> Carries(u, c)
    BY <2>1, CarriesIs, CarriesIsNext DEF Handed
  <2>3. \A u, c : Serves(u, c)' <=> Serves(u, c) BY <2>1 DEF Serves
  <2>4. Down' BY <1>0, <2>1 DEF Down
  <2>5. QED BY <2>1, <2>2, <2>3, <2>4, StaysLone
<1>4. ASSUME NEW w \in Ups, UpstreamStep(w) PROVE Lone'
  <2>1. Down' /\ (Passing \/ Ending(w) \/ \E d \in Clients : Adopting(w, d))
    BY <1>0, <1>4, UpstreamFlow
  <2>2. UNCHANGED <<lb, held, target, accepted>> BY <1>4, UpstreamKeeps DEF balancer
  <2>3. \A u \in Ups, c \in Clients : Carried(u, c)' \/ Serves(u, c)' => Carried(u, c) \/ Serves(u, c)
    <3>1. CASE Passing BY <3>1 DEF Passing
    <3>2. CASE Ending(w) BY <3>2 DEF Ending
    <3>3. ASSUME NEW d \in Clients, Adopting(w, d)
          PROVE  \A u \in Ups, c \in Clients :
                   Carried(u, c)' \/ Serves(u, c)' => Carried(u, c) \/ Serves(u, c)
      BY <3>3 DEF Adopting
    <3>4. QED BY <2>1, <3>1, <3>2, <3>3
  <2>4. \A u, c : Handed(u, c)' <=> Handed(u, c) BY <2>2 DEF Handed
  <2>5. \A u \in Ups, c \in Clients : Carries(u, c)' \/ Serves(u, c)' => Carries(u, c) \/ Serves(u, c)
    BY <2>3, <2>4, CarriesIs, CarriesIsNext
  <2>6. QED BY <2>1, <2>2, <2>3, <2>5, StaysLone
<1>5. QED BY <1>1, <1>2, <1>3, <1>4, NextCases
-----------------------------------------------------------------------------
\* Where a client is, by who has it.
LEMMA PlaceOfIs ==
  ASSUME NEW C, NEW S, \A u, v \in C \cup S : u = v
  PROVE  /\ \A u \in C : PlaceOf(C, S) = Dispatch!Moving(u)
         /\ C = {} => \A u \in S : PlaceOf(C, S) = Dispatch!Serving(u)
         /\ C = {} /\ S = {} => PlaceOf(C, S) = Dispatch!Closed
<1>1. ASSUME NEW u \in C PROVE PlaceOf(C, S) = Dispatch!Moving(u)
  <2>1. (CHOOSE v \in C : TRUE) \in C BY <1>1
  <2>2. (CHOOSE v \in C : TRUE) = u BY <1>1, <2>1
  <2>3. QED BY <1>1, <2>2 DEF PlaceOf, Dispatch!Moving
<1>2. ASSUME C = {}, NEW u \in S PROVE PlaceOf(C, S) = Dispatch!Serving(u)
  <2>1. (CHOOSE v \in S : TRUE) \in S BY <1>2
  <2>2. (CHOOSE v \in S : TRUE) = u BY <1>2, <2>1
  <2>3. QED BY <1>2, <2>2 DEF PlaceOf, Dispatch!Serving
<1>3. QED BY <1>1, <1>2 DEF PlaceOf, Dispatch!Closed

Located ==
  \A c \in Clients :
    /\ c > accepted => Place(c) = Dispatch!Waiting
    /\ ~(c > accepted) =>
         /\ \A u \in Ups : Carries(u, c) => Place(c) = Dispatch!Moving(u)
         /\ (\A u \in Ups : ~Carries(u, c)) =>
              /\ \A u \in Ups : Serves(u, c) => Place(c) = Dispatch!Serving(u)
              /\ (\A u \in Ups : ~Serves(u, c)) => Place(c) = Dispatch!Closed

LEMMA LoneLocated == Lone => Located
<1> SUFFICES ASSUME Lone, NEW c \in Clients
             PROVE  /\ c > accepted => Place(c) = Dispatch!Waiting
                    /\ ~(c > accepted) =>
                         /\ \A u \in Ups : Carries(u, c) => Place(c) = Dispatch!Moving(u)
                         /\ (\A u \in Ups : ~Carries(u, c)) =>
                              /\ \A u \in Ups : Serves(u, c) => Place(c) = Dispatch!Serving(u)
                              /\ (\A u \in Ups : ~Serves(u, c)) => Place(c) = Dispatch!Closed
  BY DEF Located
<1>1. c > accepted => Place(c) = Dispatch!Waiting BY DEF Place, Dispatch!Waiting
<1>2. ASSUME ~(c > accepted)
      PROVE  /\ \A u \in Ups : Carries(u, c) => Place(c) = Dispatch!Moving(u)
             /\ (\A u \in Ups : ~Carries(u, c)) =>
                  /\ \A u \in Ups : Serves(u, c) => Place(c) = Dispatch!Serving(u)
                  /\ (\A u \in Ups : ~Serves(u, c)) => Place(c) = Dispatch!Closed
  <2>1. Place(c) = PlaceOf(Carriers(c), Servers(c)) BY <1>2 DEF Place
  <2>2. \A u, v \in Carriers(c) \cup Servers(c) : u = v BY DEF Lone, Carriers, Servers
  <2>3. /\ \A u \in Carriers(c) : Place(c) = Dispatch!Moving(u)
        /\ Carriers(c) = {} => \A u \in Servers(c) : Place(c) = Dispatch!Serving(u)
        /\ Carriers(c) = {} /\ Servers(c) = {} => Place(c) = Dispatch!Closed
    BY <2>1, <2>2, PlaceOfIs
  <2>4. QED BY <2>3 DEF Carriers, Servers
<1>3. QED BY <1>1, <1>2

LEMMA LoneLocatedNext == Lone' => Located'
BY LoneLocated, PTL

\* Nobody moves if nobody changes hands.
LEMMA SamePlace ==
  ASSUME NEW c, accepted' = accepted,
         \A u \in Ups : (Carries(u, c)' <=> Carries(u, c)) /\ (Serves(u, c)' <=> Serves(u, c))
  PROVE  Place(c)' = Place(c)
<1>1. Carriers(c)' = Carriers(c) BY DEF Carriers
<1>2. Servers(c)' = Servers(c) BY DEF Servers
<1>3. QED BY <1>1, <1>2 DEF Place

LEMMA PlacesAre == Located => \A c \in Clients : Place(c) \in Dispatch!Places
<1> SUFFICES ASSUME Located, NEW c \in Clients PROVE Place(c) \in Dispatch!Places OBVIOUS
<1>1. \/ Place(c) \in {Dispatch!Waiting, Dispatch!Closed}
      \/ \E u \in Ups : Place(c) \in {Dispatch!Moving(u), Dispatch!Serving(u)}
  BY DEF Located
<1>2. QED BY <1>1 DEF Dispatch!Places, Ups

LEMMA PlacesAreNext == Located' => \A c \in Clients : Place(c)' \in Dispatch!Places
<1>1. (Located => \A c \in Clients : Place(c) \in Dispatch!Places)' BY PlacesAre, PTL
<1>2. QED BY <1>1

\* A step that moves nobody and leaves the turn is none of the dispatch's.
LEMMA Unmoved ==
  ASSUME accepted' = accepted, next' = next,
         \A u \in Ups, c \in Clients :
           (Carries(u, c)' <=> Carries(u, c)) /\ (Serves(u, c)' <=> Serves(u, c))
  PROVE  UNCHANGED Dispatch!vars
<1>1. \A c \in Clients : Place(c)' = Place(c) BY SamePlace
<1>2. QED BY <1>1 DEF Dispatch!vars

\* The client in hand leaves it, on a turn or not, and nobody else moves.
LEMMA HandEmptied ==
  ASSUME Types, Hand, Lone, Lone', Passing, accepted' = accepted, lb' # "send"
  PROVE  \/ \A c \in Clients : Place(c)' = Place(c)
         \/ \E c \in Clients :
              /\ Place(c).is = "moving" /\ Place(c)' = Dispatch!Closed
              /\ \A d \in Clients \ {c} : Place(d)' = Place(d)
<1>0. Located /\ Located' BY LoneLocated, LoneLocatedNext
<1>1. \A u \in Ups, c \in Clients :
        /\ Carries(u, c)' <=> Carried(u, c)
        /\ Serves(u, c)' <=> Serves(u, c)
        /\ Carries(u, c) <=> Handed(u, c) \/ Carried(u, c)
  BY CarriesIs, CarriesIsNext DEF Passing, Handed
<1>2. CASE lb # "send"
  <2>1. \A u \in Ups, c \in Clients : Carries(u, c)' <=> Carries(u, c) BY <1>1, <1>2 DEF Handed
  <2>2. QED BY <1>1, <2>1, SamePlace
<1>3. CASE lb = "send"
  <2>1. PICK c \in Clients : c = held BY <1>3 DEF Hand, Types
  <2>2. target \in Ups /\ Carries(target, c) BY <1>1, <1>3, <2>1 DEF Handed, Types
  <2>3. ~(c > accepted)
    <3>1. c <= accepted BY <2>2 DEF Lone
    <3>2. QED BY <3>1, Ranges DEF Types, Clients
  <2>4. Place(c).is = "moving" BY <1>0, <2>2, <2>3 DEF Located, Dispatch!Moving
  <2>5. \A u \in Ups : ~Carried(u, c) /\ ~Serves(u, c) BY <1>3, <2>1 DEF Lone
  <2>6. Place(c)' = Dispatch!Closed BY <1>0, <1>1, <2>3, <2>5 DEF Located
  <2>7. \A d \in Clients \ {c} : Place(d)' = Place(d)
    <3>1. \A u \in Ups, d \in Clients \ {c} : Carries(u, d)' <=> Carries(u, d)
      BY <1>1, <2>1 DEF Handed
    <3>2. QED BY <1>1, <3>1, SamePlace
  <2>8. QED BY <2>4, <2>6, <2>7
<1>4. QED BY <1>2, <1>3

\* A function that changes in one place.
LEMMA OneMoves ==
  ASSUME NEW c \in Clients, NEW p, Place(c)' = p,
         \A d \in Clients \ {c} : Place(d)' = Place(d)
  PROVE  [d \in Clients |-> Place(d)]' = [[d \in Clients |-> Place(d)] EXCEPT ![c] = p]
OBVIOUS

\* An upstream that ends closes those it served and some on their way to it.
LEMMA EndingIsUpstreamEnds ==
  ASSUME Lone, Lone', NEW w \in Ups, Ending(w),
         UNCHANGED <<next, accepted>>, \A u, c : Handed(u, c)' <=> Handed(u, c)
  PROVE  Dispatch!UpstreamEnds(w)
<1>0. Located /\ Located' BY LoneLocated, LoneLocatedNext
<1>1. \A u \in Ups, c \in Clients :
        /\ u # w => (Carries(u, c)' <=> Carries(u, c)) /\ (Serves(u, c)' <=> Serves(u, c))
        /\ Carries(w, c)' => Carries(w, c)
        /\ ~Serves(w, c)'
  BY CarriesIs, CarriesIsNext DEF Ending
<1>2. ASSUME NEW c \in Clients
      PROVE  \/ Place(c) # Dispatch!Serving(w) /\ Place(c)' = Place(c)
             \/ Place(c) \in {Dispatch!Serving(w), Dispatch!Moving(w)} /\ Place(c)' = Dispatch!Closed
  <2>1. CASE c > accepted
    <3>1. Place(c) = Dispatch!Waiting /\ Place(c)' = Dispatch!Waiting BY <1>0, <2>1 DEF Located
    <3>2. QED BY <3>1 DEF Dispatch!Waiting, Dispatch!Serving
  <2>2. ASSUME ~(c > accepted), NEW u \in Ups, Carries(u, c), Carries(u, c)'
        PROVE  Place(c) # Dispatch!Serving(w) /\ Place(c)' = Place(c)
    <3>1. Place(c) = Dispatch!Moving(u) /\ Place(c)' = Dispatch!Moving(u)
      BY <1>0, <2>2 DEF Located
    <3>2. QED BY <3>1 DEF Dispatch!Moving, Dispatch!Serving
  <2>3. ASSUME ~(c > accepted), NEW u \in Ups, Carries(u, c), ~Carries(u, c)'
        PROVE  Place(c) = Dispatch!Moving(w) /\ Place(c)' = Dispatch!Closed
    <3>1. u = w BY <1>1, <2>3
    <3>2. \A v \in Ups : v # w => ~Carries(v, c) /\ ~Serves(v, c) BY <2>3, <3>1 DEF Lone
    <3>3. \A v \in Ups : ~Carries(v, c)' /\ ~Serves(v, c)' BY <1>1, <2>3, <3>1, <3>2
    <3>4. QED BY <1>0, <2>3, <3>1, <3>3 DEF Located
  <2>4. ASSUME ~(c > accepted), \A u \in Ups : ~Carries(u, c), NEW u \in Ups, Serves(u, c)
        PROVE  \/ Place(c) # Dispatch!Serving(w) /\ Place(c)' = Place(c)
               \/ Place(c) = Dispatch!Serving(w) /\ Place(c)' = Dispatch!Closed
    <3>1. \A v \in Ups : ~Carries(v, c)' BY <1>1, <2>4
    <3>2. Place(c) = Dispatch!Serving(u) BY <1>0, <2>4 DEF Located
    <3>3. CASE u = w
      <4>1. \A v \in Ups : ~Serves(v, c)' BY <1>1, <2>4, <3>3 DEF Lone
      <4>2. QED BY <1>0, <2>4, <3>1, <3>2, <3>3, <4>1 DEF Located
    <3>4. CASE u # w
      <4>1. Serves(u, c)' BY <1>1, <2>4, <3>4
      <4>2. Place(c)' = Dispatch!Serving(u) BY <1>0, <2>4, <3>1, <4>1 DEF Located
      <4>3. QED BY <3>2, <3>4, <4>2 DEF Dispatch!Serving
    <3>5. QED BY <3>3, <3>4
  <2>5. ASSUME ~(c > accepted), \A u \in Ups : ~Carries(u, c) /\ ~Serves(u, c)
        PROVE  Place(c) # Dispatch!Serving(w) /\ Place(c)' = Place(c)
    <3>1. \A u \in Ups : ~Carries(u, c)' /\ ~Serves(u, c)' BY <1>1, <2>5
    <3>2. Place(c) = Dispatch!Closed /\ Place(c)' = Dispatch!Closed BY <1>0, <2>5, <3>1 DEF Located
    <3>3. QED BY <3>2 DEF Dispatch!Closed, Dispatch!Serving
  <2>6. QED BY <2>1, <2>2, <2>3, <2>4, <2>5
<1>3. [c \in Clients |-> Place(c)]' \in [Clients -> Dispatch!Places] BY <1>0, PlacesAreNext
<1>4. next' = next OBVIOUS
<1>5. QED BY <1>2, <1>3, <1>4 DEF Dispatch!UpstreamEnds

\* Adopting a client is its arrival; the turn and everybody else stay.
LEMMA AdoptingIsArrive ==
  ASSUME Types, Lone, Lone', NEW w \in Ups, NEW d \in Clients, Adopting(w, d),
         UNCHANGED <<next, accepted>>, \A u, c : Handed(u, c)' <=> Handed(u, c)
  PROVE  Dispatch!Arrive(d) \/ UNCHANGED Dispatch!vars
<1>0. Located /\ Located' BY LoneLocated, LoneLocatedNext
<1>1. \A u \in Ups, c \in Clients :
        u # w \/ c # d => (Carries(u, c)' <=> Carries(u, c)) /\ (Serves(u, c)' <=> Serves(u, c))
  BY CarriesIs, CarriesIsNext DEF Adopting
<1>2. \A c \in Clients \ {d} : Place(c)' = Place(c) BY <1>1, SamePlace
<1>3. Carries(w, d) /\ Serves(w, d)' BY CarriesIs DEF Adopting
<1>4. ~(d > accepted)
  <2>1. d <= accepted BY <1>3 DEF Lone
  <2>2. QED BY <2>1, Ranges DEF Types, Clients
<1>5. Place(d) = Dispatch!Moving(w) BY <1>0, <1>3, <1>4 DEF Located
<1>6. \A u \in Ups : Carries(u, d)' => u = w BY <1>3 DEF Lone
<1>7. CASE Carries(w, d)'
  <2>1. Place(d)' = Place(d) BY <1>0, <1>4, <1>5, <1>7 DEF Located
  <2>2. \A c \in Clients : Place(c)' = Place(c) BY <1>2, <2>1
  <2>3. QED BY <2>2 DEF Dispatch!vars
<1>8. CASE ~Carries(w, d)'
  <2>1. \A u \in Ups : ~Carries(u, d)' BY <1>6, <1>8
  <2>2. Place(d)' = Dispatch!Serving(w) BY <1>0, <1>3, <1>4, <2>1 DEF Located
  <2>3. [c \in Clients |-> Place(c)]' =
          [[c \in Clients |-> Place(c)] EXCEPT ![d] = Dispatch!Serving(w)]
    BY <1>2, <2>2, OneMoves
  <2>4. QED BY <1>5, <2>3 DEF Dispatch!Arrive, Ups
<1>9. QED BY <1>7, <1>8

\* accept4 and the turn are the deal.
LEMMA AcceptIsDeal ==
  ASSUME Types, Lone, Lone', Accept
  PROVE  \E c \in Clients : Dispatch!Deal(c)
<1>0. Located /\ Located' BY LoneLocated, LoneLocatedNext
<1>1. /\ Passing /\ lb = "accept" /\ lb' = "send"
      /\ accepted' = accepted + 1 /\ held' = accepted + 1 /\ held' \in Clients
      /\ target' = (next % Upstreams) + 1 /\ target' \in Ups
      /\ next' = (next + 1) % CounterMod
  BY AcceptFlow
<1>2. PICK c \in Clients : c = held' /\ c = accepted + 1 BY <1>1
<1>3. accepted \in Nat /\ Clients \subseteq Nat BY Ranges DEF Types, Clients
<1>4. Place(c) = Dispatch!Waiting BY <1>0, <1>2, <1>3 DEF Located
<1>5. PICK t \in Ups : t = target' /\ t = (next % Upstreams) + 1 BY <1>1
<1>6. Carries(t, c)' BY <1>1, <1>2, <1>5, CarriesIsNext DEF Handed
<1>7. Place(c)' = Dispatch!Moving(t) BY <1>0, <1>1, <1>2, <1>3, <1>6 DEF Located
<1>8. ASSUME NEW d \in Clients \ {c} PROVE Place(d)' = Place(d)
  <2>1. d > accepted <=> d > accepted' BY <1>1, <1>2, <1>3
  <2>2. \A u \in Ups : /\ Carries(u, d)' <=> Carries(u, d)
                       /\ Serves(u, d)' <=> Serves(u, d)
    BY <1>1, <1>2, CarriesIs, CarriesIsNext DEF Passing, Handed
  <2>3. Carriers(d)' = Carriers(d) /\ Servers(d)' = Servers(d) BY <2>2 DEF Carriers, Servers
  <2>4. QED BY <2>1, <2>3 DEF Place
<1>9. \A d \in Clients : d < c => Place(d) # Dispatch!Waiting
  <2> SUFFICES ASSUME NEW d \in Clients, d < c PROVE Place(d) # Dispatch!Waiting OBVIOUS
  <2>1. ~(d > accepted) BY <1>2, <1>3
  <2>2. \/ \E u \in Ups : Place(d) \in {Dispatch!Moving(u), Dispatch!Serving(u)}
        \/ Place(d) = Dispatch!Closed
    BY <1>0, <2>1 DEF Located
  <2>3. QED BY <2>2 DEF Dispatch!Moving, Dispatch!Serving, Dispatch!Closed, Dispatch!Waiting
<1>10. [d \in Clients |-> Place(d)]' =
         [[d \in Clients |-> Place(d)] EXCEPT ![c] = Dispatch!Moving(Dispatch!Taker)]
  BY <1>5, <1>7, <1>8, OneMoves DEF Dispatch!Taker
<1>11. Dispatch!Deal(c) BY <1>1, <1>4, <1>9, <1>10 DEF Dispatch!Deal
<1>12. QED BY <1>11

LEMMA DispatchInit == Init => Dispatch!Init
<1> SUFFICES ASSUME Init PROVE Dispatch!Init OBVIOUS
<1>1. Located BY InitLone, LoneLocated
<1>2. next = 0 /\ accepted = 0 BY DEF Init
<1>3. \A c \in Clients : c > accepted BY <1>2, Ranges DEF Clients
<1>4. \A c \in Clients : Place(c) = Dispatch!Waiting BY <1>1, <1>3 DEF Located
<1>5. QED BY <1>2, <1>4 DEF Dispatch!Init

LEMMA DispatchNext ==
  ASSUME ~Faults, IInv, Lone, Lone', [Next]_vars
  PROVE  Dispatch!Next \/ UNCHANGED Dispatch!vars
<1>0. Types /\ Hand /\ Kept BY DEF IInv
<1>1. CASE Dial \/ Close \/ BalancerStarts \/ UNCHANGED vars
  <2>1. /\ Passing /\ accepted' = accepted
        /\ \A u, c : Handed(u, c)' <=> Handed(u, c)
    <3>1. \A u, c : Handed(u, c)' <=> Handed(u, c)
      BY <1>1 DEF Dial, Close, BalancerStarts, vars, balancer, Handed
    <3>2. QED BY <1>0, <1>1, <3>1, BalancerFlow
  <2>2. next' = next BY <1>1 DEF Dial, Close, BalancerStarts, vars, balancer
  <2>3. QED BY <2>1, <2>2, Unmoved, CarriesIs, CarriesIsNext DEF Passing
<1>2. CASE Accept BY <1>0, <1>2, AcceptIsDeal DEF Dispatch!Next
<1>3. CASE Send
  <2>1. /\ lb = "send" /\ target \in Ups /\ held \in Clients
        /\ UNCHANGED <<accepted, served>> /\ lb' # "send"
        /\ \A u \in Ups, c \in Clients :
             Carried(u, c)' <=> Carried(u, c) \/ (u = target /\ c = held)
    BY <1>0, <1>3, SendFlow
  <2>2. \A u \in Ups, c \in Clients : Carries(u, c)' <=> Carries(u, c)
    BY <2>1, CarriesIs, CarriesIsNext DEF Handed
  <2>3. \A u, c : Serves(u, c)' <=> Serves(u, c) BY <2>1 DEF Serves
  <2>4. next' = next BY <1>3 DEF Send
  <2>5. QED BY <2>1, <2>2, <2>3, <2>4, Unmoved
<1>4. CASE Reconnect \/ BalancerEnds
  <2>1. Passing /\ accepted' = accepted BY <1>0, <1>4, BalancerFlow
  <2>2. lb' # "send" BY <1>4 DEF Reconnect, BalancerEnds
  <2>3. \/ \A c \in Clients : Place(c)' = Place(c)
        \/ \E c \in Clients :
             /\ Place(c).is = "moving" /\ Place(c)' = Dispatch!Closed
             /\ \A d \in Clients \ {c} : Place(d)' = Place(d)
    BY <1>0, <2>1, <2>2, HandEmptied
  <2>4. \/ [c \in Clients |-> Place(c)]' = [c \in Clients |-> Place(c)]
        \/ \E c \in Clients :
             /\ Place(c).is = "moving"
             /\ [d \in Clients |-> Place(d)]' =
                  [[d \in Clients |-> Place(d)] EXCEPT ![c] = Dispatch!Closed]
    BY <2>3, OneMoves
  <2>5. CASE Reconnect
    <3>1. next' = next BY <2>5 DEF Reconnect
    <3>2. QED BY <2>4, <3>1 DEF Dispatch!Next, Dispatch!Drop, Dispatch!vars
  <2>6. CASE BalancerEnds
    <3>1. next' = 0 BY <2>6 DEF BalancerEnds
    <3>2. QED BY <2>4, <3>1 DEF Dispatch!Next, Dispatch!BalancerEnds
  <2>7. QED BY <1>4, <2>5, <2>6
<1>5. ASSUME NEW w \in Ups, UpstreamStep(w) PROVE Dispatch!Next \/ UNCHANGED Dispatch!vars
  <2>1. Passing \/ Ending(w) \/ \E d \in Clients : Adopting(w, d)
    <3>1. Down BY DEF Lone
    <3>2. QED BY <1>0, <1>5, <3>1, UpstreamFlow
  <2>2. UNCHANGED <<lb, held, target, accepted, next>> BY <1>0, <1>5, UpstreamKeeps DEF balancer
  <2>3. \A u, c : Handed(u, c)' <=> Handed(u, c) BY <2>2 DEF Handed
  <2>4. CASE Passing BY <2>2, <2>3, <2>4, Unmoved, CarriesIs, CarriesIsNext DEF Passing
  <2>5. CASE Ending(w)
    <3>1. Dispatch!UpstreamEnds(w) BY <2>2, <2>3, <2>5, EndingIsUpstreamEnds
    <3>2. QED BY <3>1 DEF Dispatch!Next, Ups
  <2>6. ASSUME NEW d \in Clients, Adopting(w, d)
        PROVE  Dispatch!Next \/ UNCHANGED Dispatch!vars
    <3>1. Dispatch!Arrive(d) \/ UNCHANGED Dispatch!vars
      BY <1>0, <2>2, <2>3, <2>6, AdoptingIsArrive
    <3>2. QED BY <3>1 DEF Dispatch!Next
  <2>7. QED BY <2>1, <2>4, <2>5, <2>6
<1>6. QED BY <1>1, <1>2, <1>3, <1>4, <1>5, NextCases

\* The hand-over implements the dispatch, if the kernel refuses no call: in
\* turn, one upstream each, and a client let go never comes back.
THEOREM ImplementsDispatch ==
  ASSUME ~Faults
  PROVE  Spec => DispatchSpec
<1>1. Init => Lone /\ Dispatch!Init BY InitLone, DispatchInit
<1>2. IInv /\ Lone /\ [Next]_vars => Lone' BY NextLone DEF IInv
<1>3. IInv /\ Lone /\ Lone' /\ [Next]_vars => [Dispatch!Next]_(Dispatch!vars)
  BY DispatchNext
<1>4. QED BY <1>1, <1>2, <1>3, FdInvariant, PTL DEF Spec, DispatchSpec, Dispatch!Spec
=============================================================================
