----------------------------- MODULE ApiServer ------------------------------
(***************************************************************************)
(* cmd/api/main.go and internal/api/server.go: one replica.  The main      *)
(* goroutine listens first and then brings the index up; one goroutine per *)
(* connection takes its requests through RouteRaw (or ServeHTTP), sharing  *)
(* the atomics ready and idx, the semaphore shedSem, and the pools of scan *)
(* scratches and body buffers.  A goroutine's steps are its accesses to    *)
(* shared state; VectorizeFast works on locals and joins the next one.     *)
(* Some bodies it panics on: net/http recovers and drops the request, a    *)
(* raw connection does not and the process ends.                           *)
(***************************************************************************)
EXTENDS FiniteSets, Integers

CONSTANTS
  Conns,         \* connections, each with its goroutine
  ShedSlots,     \* SHED_SLOTS, the capacity of shedSem
  Scratches,     \* what scratchPool can hold
  Buffers,       \* what bodyBufPool can hold
  MaxRequests    \* bound on the number of requests

ASSUME ApiServerAssumption ==
  /\ ShedSlots \in Nat \ {0} /\ MaxRequests \in Nat
  /\ IsFiniteSet(Conns)
  /\ "none" \notin Conns \cup Scratches \cup Buffers /\ Scratches \cap Buffers = {}

Routes == {"fraud", "http", "ready", "other"}
\* What VectorizeFast makes of a body: a query, FALSE, or a panic.
Bodies == {"good", "bad", "panic"}
Requests == [route : Routes, body : Bodies]
NoOne == "none"
Plain(k) == [kind |-> k, of |-> NoOne]
Verdict(q) == [kind |-> "verdict", of |-> q]
NoReply == Plain("none")

VARIABLES
  file,       \* "absent" | "sound" | "unsound": /resources/index.bin
  main,       \* where main() is
  idx,        \* Handler.idx: is an index stored?
  ready,      \* Handler.ready
  sem,        \* tokens in shedSem
  shedCount,
  pool,       \* scratchPool
  bodyPool,   \* bodyBufPool
  pc,         \* of each connection's goroutine
  req,        \* the request it serves
  reply,      \* its last answer
  query,      \* qi and qf, known by the request they were made from
  scratch,    \* the scratch it has taken, or none
  bufp,       \* the body buffer it has taken, or none
  written,    \* the request whose data a scratch or a buffer holds
  arrived,    \* requests so far
  defaults,   \* good bodies answered by fraudResponses[0] without a search
  announced,  \* has anyone been told the replica is ready?
  late        \* did this request arrive after that?

startup == <<file, main, idx, ready>>
shared == <<sem, shedCount, pool, bodyPool, written>>
locals == <<req, query, scratch, bufp>>
history == <<arrived, defaults, announced, late>>

vars == <<startup, shared, pc, reply, locals, history>>

Goto(c, l) == pc' = [pc EXCEPT ![c] = l]
Set(f, c, x) == [f EXCEPT ![c] = x]

\* return: the answer is on its way and the goroutine waits for a request.
Return(c, r) ==
  /\ Goto(c, "idle")
  /\ reply' = Set(reply, c, r)
  /\ defaults' = IF r.kind = "default" /\ req[c].body = "good" THEN defaults + 1 ELSE defaults
  /\ announced' = (announced \/ r.kind = "ready")
  /\ UNCHANGED <<arrived, late>>
-----------------------------------------------------------------------------
(* main                                                                    *)

\* os.Stat: without the file the handler is marked ready with no index.
StartStub ==
  /\ main = "listening" /\ file = "absent"
  /\ ready' = TRUE /\ main' = "serving"
  /\ UNCHANGED <<file, idx, shared, pc, reply, locals, history>>

\* LoadMmap and Warmup.
Load ==
  /\ main = "listening" /\ file = "sound"
  /\ main' = "warm"
  /\ UNCHANGED <<file, idx, ready, shared, pc, reply, locals, history>>

\* The process ends, and with it the connections and all they hold.
Exit ==
  /\ main' = "dead"
  /\ pc' = [c \in Conns |-> "idle"]
  /\ reply' = [c \in Conns |-> IF pc[c] = "idle" THEN reply[c] ELSE NoReply]
  /\ sem' = 0
  /\ scratch' = [c \in Conns |-> NoOne] /\ bufp' = [c \in Conns |-> NoOne]
  /\ UNCHANGED <<file, idx, ready, shedCount, pool, bodyPool, written, req, query, history>>

\* log.Fatalf
LoadFails ==
  /\ main = "listening" /\ file = "unsound"
  /\ Exit

\* Mutant: ready is published before the index.
SetIndexReadyFirst ==
  /\ \/ /\ main = "warm"
        /\ ready' = TRUE /\ main' = "stored"
        /\ UNCHANGED idx
     \/ /\ main = "stored"
        /\ idx' = TRUE /\ main' = "serving"
        /\ UNCHANGED ready
  /\ UNCHANGED <<file, shared, pc, reply, locals, history>>

\* SetIndex, one atomic store after the other.
SetIndex ==
  /\ \/ /\ main = "warm"
        /\ idx' = TRUE /\ main' = "stored"
        /\ UNCHANGED ready
     \/ /\ main = "stored"
        /\ ready' = TRUE /\ main' = "serving"
        /\ UNCHANGED idx
  /\ UNCHANGED <<file, shared, pc, reply, locals, history>>

Main == StartStub \/ Load \/ LoadFails \/ SetIndex
-----------------------------------------------------------------------------
(* The goroutine of connection c.                                          *)

Entry(route) ==
  CASE route = "fraud" -> "ready?"
    [] route = "http"  -> "method"
    [] route = "ready" -> "probe"
    [] route = "other" -> "other"

\* A request reaches RouteRaw or ServeHTTP.
Arrive(c) ==
  /\ main # "dead" /\ pc[c] = "idle" /\ arrived < MaxRequests
  /\ arrived' = arrived + 1
  /\ \E r \in Requests :
       /\ req' = Set(req, c, r)
       /\ Goto(c, Entry(r.route))
  /\ reply' = Set(reply, c, NoReply)
  /\ late' = Set(late, c, announced)
  /\ UNCHANGED <<startup, shared, query, scratch, bufp, defaults, announced>>

\* Mutant: the replica calls itself ready as soon as it listens.
ProbeListening(c) ==
  /\ pc[c] = "probe"
  /\ Return(c, Plain("ready"))
  /\ UNCHANGED <<startup, shared, locals>>

\* /ready
Probe(c) ==
  /\ pc[c] = "probe"
  /\ Return(c, Plain(IF ready THEN "ready" ELSE "notReady"))
  /\ UNCHANGED <<startup, shared, locals>>

\* /debug/info, which only reads, and unknown paths.
Other(c) ==
  /\ pc[c] = "other"
  /\ Return(c, Plain("other"))
  /\ UNCHANGED <<startup, shared, locals>>

\* handleFraudScore wants POST.
Method(c) ==
  /\ pc[c] = "method"
  /\ \/ Goto(c, "ready?") /\ UNCHANGED <<reply, history>>
     \/ Return(c, Plain("refused"))
  /\ UNCHANGED <<startup, shared, locals>>

LoadReady(c) ==
  /\ pc[c] = "ready?"
  /\ \/ /\ ready
        /\ Goto(c, IF req[c].route = "http" THEN "getBody" ELSE "idx?")
        /\ UNCHANGED <<reply, history>>
     \/ /\ ~ready
        /\ Return(c, Plain("notReady"))
  /\ UNCHANGED <<startup, shared, locals>>

\* bodyBufPool.Get: a pooled buffer, or a new one if there is none (the
\* collector may have swept the pool).
GetBody(c) ==
  /\ pc[c] = "getBody"
  /\ \E b \in bodyPool \cup (Buffers \ {bufp[d] : d \in Conns}) :
       bufp' = Set(bufp, c, b) /\ bodyPool' = bodyPool \ {b}
  /\ Goto(c, "read")
  /\ UNCHANGED <<startup, sem, shedCount, pool, written, reply, req, query, scratch, history>>

\* readBodyInto, which may fail half way.
ReadBody(c) ==
  /\ pc[c] = "read"
  /\ written' = Set(written, bufp[c], c)
  /\ \/ Goto(c, "idx?") /\ UNCHANGED reply
     \/ Goto(c, "putBody") /\ reply' = Set(reply, c, Plain("refused"))
  /\ UNCHANGED <<startup, sem, shedCount, pool, bodyPool, locals, history>>

\* Mutant: the goroutine waits for an index that a stub never gets.
LoadIdxWaits(c) ==
  /\ pc[c] = "idx?" /\ idx
  /\ Goto(c, IF req[c].route = "http" THEN "vectorize" ELSE "slot")
  /\ UNCHANGED <<startup, shared, reply, locals, history>>

LoadIdx(c) ==
  /\ pc[c] = "idx?"
  /\ \/ /\ idx
        /\ Goto(c, IF req[c].route = "http" THEN "vectorize" ELSE "slot")
        /\ UNCHANGED <<reply, history>>
     \/ /\ ~idx /\ req[c].route = "http"
        /\ Goto(c, "putBody")
        /\ reply' = Set(reply, c, Plain("default"))
        /\ UNCHANGED history
     \/ /\ ~idx /\ req[c].route = "fraud"
        /\ Return(c, Plain("default"))
  /\ UNCHANGED <<startup, shared, locals>>

\* Mutant: a slot is taken whether or not one is free.
AcquireOverfull(c) ==
  /\ pc[c] = "slot"
  /\ sem' = sem + 1
  /\ Goto(c, "vectorize")
  /\ UNCHANGED <<startup, shedCount, pool, bodyPool, written, reply, req, query, scratch, bufp, history>>

\* case shedSem <- struct{}{}
Acquire(c) ==
  /\ pc[c] = "slot" /\ sem < ShedSlots
  /\ sem' = sem + 1
  /\ Goto(c, "vectorize")
  /\ UNCHANGED <<startup, shedCount, pool, bodyPool, written, reply, req, query, scratch, bufp, history>>

\* Mutant: shedding is not counted.
ShedUncounted(c) ==
  /\ pc[c] = "slot" /\ sem = ShedSlots
  /\ Return(c, Plain("default"))
  /\ UNCHANGED <<startup, shared, req, query, scratch, bufp>>

\* default
Shed(c) ==
  /\ pc[c] = "slot" /\ sem = ShedSlots
  /\ shedCount' = shedCount + 1
  /\ Return(c, Plain("default"))
  /\ UNCHANGED <<startup, sem, pool, bodyPool, written, req, query, scratch, bufp>>

\* Where the deferred functions run.
Unwind(c) == IF req[c].route = "http" THEN "putBody" ELSE "release"

\* The query is made of the connection's own body, or of the pooled buffer's.
Vectorized(c) ==
  /\ req[c].body = "good"
  /\ query' = Set(query, c, IF req[c].route = "http" THEN written[bufp[c]] ELSE c)
  /\ Goto(c, "get")
  /\ UNCHANGED <<reply, history>>

\* Without a query the request is over: r is what becomes of it.
GivesUp(c, body, r) ==
  /\ req[c].body = body
  /\ reply' = Set(reply, c, r)
  /\ Goto(c, Unwind(c))
  /\ UNCHANGED <<query, history>>

\* Mutant: a body that cannot be vectorised returns without its slot.
VectorizeKeepsSlot(c) ==
  /\ pc[c] = "vectorize"
  /\ \/ Vectorized(c)
     \/ req[c].body # "good" /\ Return(c, Plain("default")) /\ UNCHANGED query
  /\ UNCHANGED <<startup, shared, req, scratch, bufp>>

\* VectorizeFast finds everything, misses a member, or panics: the date ends
\* where the body does (fast.go:92), or its month is none (fast.go:359).
Vectorize(c) ==
  /\ pc[c] = "vectorize"
  /\ \/ Vectorized(c)
     \/ GivesUp(c, "bad", Plain("default"))
     \/ GivesUp(c, "panic", Plain("dropped"))
  /\ UNCHANGED <<startup, shared, req, scratch, bufp>>

\* Mutant: the scratch stays in the pool while it is used.
GetScratchShared(c) ==
  /\ pc[c] = "get"
  /\ \E s \in pool \cup (Scratches \ {scratch[d] : d \in Conns}) :
       scratch' = Set(scratch, c, s) /\ pool' = pool \cup {s}
  /\ Goto(c, "scan")
  /\ UNCHANGED <<startup, sem, shedCount, bodyPool, written, reply, req, query, bufp, history>>

\* scratchPool.Get
GetScratch(c) ==
  /\ pc[c] = "get"
  /\ \E s \in pool \cup (Scratches \ {scratch[d] : d \in Conns}) :
       scratch' = Set(scratch, c, s) /\ pool' = pool \ {s}
  /\ Goto(c, "scan")
  /\ UNCHANGED <<startup, sem, shedCount, bodyPool, written, reply, req, query, bufp, history>>

\* FraudCountIVF fills the scratch with the candidates of its query ...
Scan(c) ==
  /\ pc[c] = "scan"
  /\ written' = Set(written, scratch[c], query[c])
  /\ Goto(c, "count")
  /\ UNCHANGED <<startup, sem, shedCount, pool, bodyPool, reply, locals, history>>

\* ... and counts the frauds among them.
Count(c) ==
  /\ pc[c] = "count"
  /\ reply' = Set(reply, c, Verdict(written[scratch[c]]))
  /\ Goto(c, "put")
  /\ UNCHANGED <<startup, shared, locals, history>>

PutScratch(c) ==
  /\ pc[c] = "put"
  /\ pool' = pool \cup {scratch[c]}
  /\ scratch' = Set(scratch, c, NoOne)
  /\ Goto(c, Unwind(c))
  /\ UNCHANGED <<startup, sem, shedCount, bodyPool, written, reply, req, query, bufp, history>>

\* defer func() { <-shedSem }(), which a panic runs too.
Release(c) ==
  /\ pc[c] = "release"
  /\ sem' = sem - 1
  /\ \/ reply[c].kind # "dropped" /\ Return(c, reply[c])
     \/ reply[c].kind = "dropped" /\ Goto(c, "panic") /\ UNCHANGED <<reply, history>>
  /\ UNCHANGED <<startup, shedCount, pool, bodyPool, written, locals>>

\* Nothing in handleRawConn recovers: the panic ends the process.
Panic(c) ==
  /\ pc[c] = "panic"
  /\ Exit

\* bodyBufPool.Put, deferred or on a failed read.  A panic runs it too, and
\* net/http recovers: the connection is closed without an answer.
PutBody(c) ==
  /\ pc[c] = "putBody"
  /\ bodyPool' = bodyPool \cup {bufp[c]}
  /\ bufp' = Set(bufp, c, NoOne)
  /\ Return(c, reply[c])
  /\ UNCHANGED <<startup, sem, shedCount, pool, written, req, query, scratch>>

Serve(c) ==
  \/ Probe(c) \/ Other(c) \/ Method(c) \/ LoadReady(c) \/ GetBody(c) \/ ReadBody(c)
  \/ LoadIdx(c) \/ Acquire(c) \/ Shed(c) \/ Vectorize(c) \/ GetScratch(c) \/ Scan(c)
  \/ Count(c) \/ PutScratch(c) \/ Release(c) \/ Panic(c) \/ PutBody(c)
-----------------------------------------------------------------------------
Init ==
  /\ file \in {"absent", "sound", "unsound"}
  /\ main = "listening" /\ idx = FALSE /\ ready = FALSE
  /\ sem = 0 /\ shedCount = 0 /\ pool = {} /\ bodyPool = {}
  /\ pc = [c \in Conns |-> "idle"]
  /\ req = [c \in Conns |-> [route |-> "other", body |-> "bad"]]
  /\ reply = [c \in Conns |-> NoReply]
  /\ query = [c \in Conns |-> NoOne]
  /\ scratch = [c \in Conns |-> NoOne]
  /\ bufp = [c \in Conns |-> NoOne]
  /\ written = [b \in Scratches \cup Buffers |-> NoOne]
  /\ arrived = 0 /\ defaults = 0 /\ announced = FALSE
  /\ late = [c \in Conns |-> FALSE]

Next == Main \/ \E c \in Conns : Arrive(c) \/ Serve(c)

Spec == Init /\ [][Next]_vars

\* The Go scheduler runs every runnable goroutine; no client must send.
FairSpec == Spec /\ WF_vars(Main) /\ \A c \in Conns : WF_vars(Serve(c))
-----------------------------------------------------------------------------
TypeOK ==
  /\ file \in {"absent", "sound", "unsound"}
  /\ main \in {"listening", "warm", "stored", "serving", "dead"}
  /\ idx \in BOOLEAN /\ ready \in BOOLEAN
  /\ sem \in 0 .. ShedSlots /\ shedCount \in Nat
  /\ pool \subseteq Scratches /\ bodyPool \subseteq Buffers
  /\ pc \in [Conns -> {"idle", "probe", "other", "method", "ready?", "getBody", "read", "idx?",
                       "slot", "vectorize", "get", "scan", "count", "put", "release", "panic",
                       "putBody"}]
  /\ req \in [Conns -> Requests]
  /\ reply \in [Conns -> [kind : {"none", "notReady", "ready", "default", "refused", "other",
                                  "dropped", "verdict"}, of : Conns \cup {NoOne}]]
  /\ query \in [Conns -> Conns \cup {NoOne}]
  /\ scratch \in [Conns -> Scratches \cup {NoOne}]
  /\ bufp \in [Conns -> Buffers \cup {NoOne}]
  /\ written \in [Scratches \cup Buffers -> Conns \cup {NoOne}]
  /\ arrived \in 0 .. MaxRequests /\ defaults \in Nat /\ announced \in BOOLEAN
  /\ late \in [Conns -> BOOLEAN]

Searching == {"vectorize", "get", "scan", "count", "put", "release"}
Holders == {c \in Conns : req[c].route = "fraud" /\ pc[c] \in Searching}

\* The semaphore holds one token per raw request past the select, on every way
\* out of fraudScoreRaw: no slot leaks and at most SHED_SLOTS search at once.
SlotsHeld == sem = Cardinality(Holders)

\* A verdict is that of the request it answers, though scratches and body
\* buffers go from request to request through the pools.
OwnVerdict == \A c \in Conns : reply[c].kind = "verdict" => reply[c].of = c

\* With an index file, every good body answered by the default without a
\* search is in shed_count: no request is approved behind the operator's back.
DefaultsCounted == file # "absent" => defaults <= shedCount

\* A client that saw the replica ready, or heard it from another, is never
\* told "not ready" again.
ReadyIsFinal == \A c \in Conns : reply[c].kind = "notReady" => ~late[c]

Served(c) == pc[c] = "idle" /\ reply[c].kind \notin {"none", "dropped"}
Dropped(c) == pc[c] = "idle" /\ reply[c].kind = "dropped" /\ req[c] = [route |-> "http", body |-> "panic"]
Ended ==
  /\ main = "dead"
  /\ file = "unsound" \/ \E c \in Conns : req[c] = [route |-> "fraud", body |-> "panic"]

\* A request that reached the process is answered.  What it can meet instead
\* has a cause: its own body made VectorizeFast panic, or the process ended,
\* by its index file or by somebody's body.
Answered == \A c \in Conns : pc[c] # "idle" ~> Served(c) \/ Dropped(c) \/ Ended
-----------------------------------------------------------------------------
Service == INSTANCE FraudService WITH
  phase   <- IF main = "dead" THEN "dead" ELSE IF ~ready THEN "starting"
             ELSE IF idx THEN "scoring" ELSE "stub",
  pending <- [c \in Conns |-> IF pc[c] = "idle" THEN [route |-> "none", body |-> "none"] ELSE req[c]],
  reply   <- [c \in Conns |-> IF pc[c] = "idle" THEN reply[c] ELSE NoReply]

\* The replica implements the service, also in that it starts and answers.
ServiceSpec == Service!FairSpec

=============================================================================
