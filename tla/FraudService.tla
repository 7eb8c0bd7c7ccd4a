---------------------------- MODULE FraudService ----------------------------
(***************************************************************************)
(* What one API replica promises whoever asks it: "not ready" until the    *)
(* index is in place and never after, then each request's own verdict;     *)
(* the default answer only without an index, for a body that cannot be     *)
(* vectorised, or while SHED_SLOTS other requests are in flight.  A body   *)
(* that VectorizeFast panics on costs its request the answer, or everybody *)
(* the replica.  ApiServer implements it.                                  *)
(***************************************************************************)
EXTENDS FiniteSets, Integers

CONSTANTS Conns, ShedSlots

Routes == {"fraud", "http", "ready", "other"}
Bodies == {"good", "bad", "panic"}
Requests == [route : Routes, body : Bodies]
NoRequest == [route |-> "none", body |-> "none"]

NoOne == "none"
Plain(k) == [kind |-> k, of |-> NoOne]
Verdict(q) == [kind |-> "verdict", of |-> q]
NoReply == Plain("none")
Replies == {Plain(k) : k \in {"none", "notReady", "ready", "default", "refused", "other", "dropped"}}
             \cup {Verdict(q) : q \in Conns}

VARIABLES phase, pending, reply

vars == <<phase, pending, reply>>

Init ==
  /\ phase = "starting"
  /\ pending = [c \in Conns |-> NoRequest]
  /\ reply = [c \in Conns |-> NoReply]

Open ==
  /\ phase = "starting"
  /\ phase' \in {"stub", "scoring"}
  /\ UNCHANGED <<pending, reply>>

\* The process ends: whoever waits for an answer gets none.
End ==
  /\ phase' = "dead"
  /\ pending' = [c \in Conns |-> NoRequest]
  /\ UNCHANGED reply

\* The index cannot be loaded.
Die == phase = "starting" /\ End

\* The body of a raw request makes the scoring goroutine panic.
Crash(c) ==
  /\ phase = "scoring" /\ pending[c] = [route |-> "fraud", body |-> "panic"]
  /\ End

Receive(c) ==
  /\ phase # "dead" /\ pending[c] = NoRequest
  /\ pending' \in {[pending EXCEPT ![c] = r] : r \in Requests}
  /\ reply' = [reply EXCEPT ![c] = NoReply]
  /\ UNCHANGED phase

Others(c) == {d \in Conns \ {c} : pending[d].route = "fraud"}

\* The answers a request may get in the present phase.
Scored(c) ==
  CASE pending[c].body = "good" -> {Verdict(c)}
    [] pending[c].body = "bad"  -> {Plain("default")}
    [] pending[c] = [route |-> "http", body |-> "panic"]  -> {Plain("dropped")}
    [] pending[c] = [route |-> "fraud", body |-> "panic"] -> {}

Shed(c) ==
  IF pending[c].route = "fraud" /\ Cardinality(Others(c)) >= ShedSlots
  THEN {Plain("default")} ELSE {}

Refused(c) == IF pending[c].route = "http" THEN {Plain("refused")} ELSE {}

Allowed(c) ==
  CASE pending[c].route = "other" -> {Plain("other")}
    [] pending[c].route = "ready" ->
         {Plain(IF phase = "starting" THEN "notReady" ELSE "ready")}
    [] pending[c].route \in {"fraud", "http"} ->
         Refused(c) \cup
           (CASE phase = "starting" -> {Plain("notReady")}
              [] phase = "stub"     -> {Plain("default")}
              [] phase = "scoring"  -> Scored(c) \cup Shed(c))

Answer(c) ==
  /\ phase # "dead" /\ pending[c] # NoRequest
  /\ reply' \in {[reply EXCEPT ![c] = r] : r \in Allowed(c)}
  /\ pending' = [pending EXCEPT ![c] = NoRequest]
  /\ UNCHANGED phase

Next == Open \/ Die \/ \E c \in Conns : Receive(c) \/ Answer(c) \/ Crash(c)

Spec == Init /\ [][Next]_vars

FairSpec ==
  Spec /\ WF_vars(Open \/ Die) /\ \A c \in Conns : WF_vars(Answer(c) \/ Crash(c))

=============================================================================
