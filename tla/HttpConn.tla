------------------------------ MODULE HttpConn ------------------------------
(***************************************************************************)
(* What internal/api promises the client of one keep-alive connection at a *)
(* time, whatever buffers serve it: requests are answered in order, once,  *)
(* by their own path and body, after they have arrived whole; a connection *)
(* ends because its client left or because the next request is larger than *)
(* maxRequestSize.  RawConn implements it.                                 *)
(***************************************************************************)
EXTENDS HttpRequests

CONSTANTS MaxRequestSize, Workloads, MaxConns

VARIABLES conn, work, client, sent, answers, open

vars == <<conn, work, client, sent, answers, open>>

next == Len(answers) + 1

Init ==
  /\ conn = 0 /\ work \in Workloads /\ client = "closed"
  /\ sent = 0 /\ answers = <<>> /\ open = FALSE

Accept ==
  /\ ~open /\ conn < MaxConns
  /\ conn' = conn + 1 /\ work' \in Workloads
  /\ client' = "open" /\ sent' = 0 /\ answers' = <<>> /\ open' = TRUE

Send ==
  /\ open /\ client = "open"
  /\ sent' \in sent + 1 .. work.start[work.n + 1]
  /\ UNCHANGED <<conn, work, client, answers, open>>

Leave ==
  /\ open /\ client = "open"
  /\ client' = "closed"
  /\ UNCHANGED <<conn, work, sent, answers, open>>

Fits(k) == work.head[k] + work.body[k] <= MaxRequestSize

Answer ==
  /\ open /\ next <= work.n /\ Fits(next) /\ work.start[next + 1] <= sent
  /\ answers' = Append(answers, Expected(conn, work, next))
  /\ UNCHANGED <<conn, work, client, sent, open>>

HangUp ==
  /\ open /\ client = "closed"
  /\ open' = FALSE
  /\ UNCHANGED <<conn, work, client, sent, answers>>

Refuse ==
  /\ open /\ next <= work.n /\ ~Fits(next)
  /\ open' = FALSE
  /\ UNCHANGED <<conn, work, client, sent, answers>>

Next == Accept \/ Send \/ Leave \/ Answer \/ HangUp \/ Refuse

Spec == Init /\ [][Next]_vars

FairSpec == Spec /\ WF_vars(Answer \/ HangUp)

=============================================================================
