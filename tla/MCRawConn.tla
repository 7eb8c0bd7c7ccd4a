----------------------------- MODULE MCRawConn ------------------------------
(* Small workloads for RawConn: lists of <<head, body>> laid end to end.   *)
EXTENDS RawConn, TLC

Starts(reqs) ==
  [k \in 1 .. Len(reqs) + 1 |->
     LET upTo[j \in 0 .. k - 1] == IF j = 0 THEN 0 ELSE upTo[j - 1] + reqs[j][1] + reqs[j][2]
     IN  upTo[k - 1]]

Workload(reqs) ==
  [n     |-> Len(reqs),
   start |-> Starts(reqs),
   head  |-> [k \in 1 .. Len(reqs) |-> reqs[k][1]],
   body  |-> [k \in 1 .. Len(reqs) |-> reqs[k][2]]]

\* With a buffer of 4 growing to 8: a head alone, a body that needs no growth,
\* one that fills the largest buffer, one over it, and a head over it.
Ready   == <<3, 0>>
Small   == <<3, 1>>
Medium  == <<3, 3>>
Exact   == <<4, 4>>
Over    == <<4, 5>>
LongHead == <<9, 0>>

MCWorkloads ==
  {Workload(r) : r \in {<<Small, Ready, Medium>>, <<Medium, Small>>, <<Exact, Ready, Medium>>,
                        <<Small, Over>>, <<Ready, LongHead>>}}

=============================================================================
