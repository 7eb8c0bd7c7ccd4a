--------------------------- MODULE ApiServerProofs ---------------------------
(***************************************************************************)
(* What the replica keeps, for any number of connections, slots, scratches *)
(* and buffers; and that it implements FraudService.                       *)
(***************************************************************************)
EXTENDS ApiServer, FiniteSetTheorems, TLAPS

-----------------------------------------------------------------------------
(* The inductive invariant.                                                *)

\* Where a goroutine is once it has seen the replica ready.
Past ==
  {"getBody", "read", "idx?", "slot", "vectorize", "get", "scan", "count", "put", "release", "panic",
   "putBody"}

\* The order of the stores in SetIndex: ready comes last.
Startup ==
  /\ ready => main \in {"serving", "dead"}
  /\ idx => main \in {"stored", "serving", "dead"}
  /\ main = "stored" => idx
  /\ ready /\ file # "absent" => idx

\* A goroutine is where its route takes it, and no farther than the start of
\* the replica lets it.
Where ==
  \A c \in Conns :
    /\ pc[c] # "idle" => main # "dead"
    /\ pc[c] \in Past => ready
    /\ pc[c] \in Searching \cup {"slot", "panic"} => idx
    /\ pc[c] = "probe" => req[c].route = "ready"
    /\ pc[c] = "other" => req[c].route = "other"
    /\ pc[c] \in {"method", "getBody", "read", "putBody"} => req[c].route = "http"
    /\ pc[c] \in {"slot", "release", "panic"} => req[c].route = "fraud"
    /\ pc[c] \in Past \cup {"ready?"} => req[c].route \in {"fraud", "http"}

HasScratch(c) == pc[c] \in {"scan", "count", "put"}
HasBuffer(c) ==
  \/ pc[c] \in {"read", "putBody"}
  \/ req[c].route = "http" /\ pc[c] \in {"idx?", "vectorize", "get", "scan", "count", "put"}

\* A scratch or a buffer in use belongs to one goroutine and to no pool.
Owned ==
  \A c \in Conns :
    /\ scratch[c] # NoOne <=> HasScratch(c)
    /\ bufp[c] # NoOne <=> HasBuffer(c)
    /\ scratch[c] \notin pool /\ bufp[c] \notin bodyPool
    /\ \A d \in Conns \ {c} : /\ scratch[c] # NoOne => scratch[c] # scratch[d]
                              /\ bufp[c] # NoOne => bufp[c] # bufp[d]

\* What a goroutine reads from them is what it has written.
Data ==
  \A c \in Conns :
    /\ req[c].route = "http" /\ pc[c] \in {"idx?", "vectorize"} => written[bufp[c]] = c
    /\ pc[c] \in {"get", "scan", "count"} => query[c] = c
    /\ pc[c] = "count" => written[scratch[c]] = c

\* What becomes of a request that was searched for, or could not be.
Scored(c) ==
  IF req[c].body = "good" THEN Verdict(c)
  ELSE Plain(IF req[c].body = "bad" THEN "default" ELSE "dropped")

\* The answer a goroutine holds while it unwinds.
Replied ==
  \A c \in Conns :
    /\ pc[c] \notin {"idle", "put", "release", "panic", "putBody"} => reply[c] = NoReply
    /\ pc[c] \in {"get", "scan", "count", "put"} => req[c].body = "good"
    /\ pc[c] = "put" => reply[c] = Verdict(c)
    /\ pc[c] = "release" => reply[c] = Scored(c)
    /\ pc[c] = "panic" => req[c].body = "panic" /\ reply[c] = Scored(c)
    /\ pc[c] = "putBody" => \/ reply[c] = Plain("refused")
                            \/ ~idx /\ reply[c] = Plain("default")
                            \/ idx /\ reply[c] = Scored(c)

\* Nobody hears of readiness before it is final.
Told == (announced => ready) /\ \A c \in Conns : late[c] => announced

IInv ==
  /\ TypeOK /\ Startup /\ Where /\ Owned /\ Data /\ Replied /\ Told
  /\ SlotsHeld /\ OwnVerdict /\ DefaultsCounted /\ ReadyIsFinal

-----------------------------------------------------------------------------
(* One lemma for each part, one step for each action.                      *)

Places ==
  {"idle", "probe", "other", "method", "ready?", "getBody", "read", "idx?", "slot", "vectorize",
   "get", "scan", "count", "put", "release", "panic", "putBody"}
Kinds == {"none", "notReady", "ready", "default", "refused", "other", "dropped", "verdict"}

\* An answer is what it is called, and of whom it is called.
LEMMA ReplyFacts ==
  /\ \A k \in Kinds : /\ Plain(k).kind = k /\ Plain(k).of = NoOne
                      /\ Plain(k) \in [kind : Kinds, of : Conns \cup {NoOne}]
  /\ \A q : Verdict(q).kind = "verdict" /\ Verdict(q).of = q
  /\ \A q \in Conns \cup {NoOne} : Verdict(q) \in [kind : Kinds, of : Conns \cup {NoOne}]
BY DEF Plain, Verdict, Kinds

\* A goroutine that holds a slot is counted.
LEMMA HoldersCounted ==
  /\ IsFiniteSet(Holders) /\ Cardinality(Holders) \in Nat
  /\ \A c \in Holders : Cardinality(Holders) >= 1
<1>1. Holders \subseteq Conns BY DEF Holders
<1>2. IsFiniteSet(Holders) BY <1>1, FS_Subset, ApiServerAssumption
<1>3. QED BY <1>2, FS_CardinalityType, FS_EmptySet, FS_RemoveElement

\* An answer kept while the goroutine unwinds is one.
LEMMA ReplyTypes ==
  ASSUME TypeOK, NEW c \in Conns, NEW k \in Kinds,
         reply' = reply \/ reply' = [reply EXCEPT ![c] = Plain(k)]
  PROVE  reply' \in [Conns -> [kind : Kinds, of : Conns \cup {NoOne}]]
<1>1. reply \in [Conns -> [kind : Kinds, of : Conns \cup {NoOne}]] BY DEF TypeOK, Kinds
<1>2. Plain(k) \in [kind : Kinds, of : Conns \cup {NoOne}] BY ReplyFacts
<1>3. QED BY <1>1, <1>2

\* Returning leaves every variable it sets within its type.
LEMMA ReturnTypes ==
  ASSUME TypeOK, NEW c \in Conns, NEW r \in [kind : Kinds, of : Conns \cup {NoOne}], Return(c, r)
  PROVE  /\ pc' \in [Conns -> Places] /\ reply' \in [Conns -> [kind : Kinds, of : Conns \cup {NoOne}]]
         /\ arrived' = arrived /\ late' = late /\ defaults' \in Nat /\ announced' \in BOOLEAN
<1>1. pc' \in [Conns -> Places] BY DEF TypeOK, Return, Goto, Places
<1>2. reply' \in [Conns -> [kind : Kinds, of : Conns \cup {NoOne}]]
  BY DEF TypeOK, Return, Set, Kinds
<1>3. arrived' = arrived /\ late' = late BY DEF Return
<1>4. defaults' \in Nat BY DEF TypeOK, Return
<1>5. announced' \in BOOLEAN BY Zenon DEF TypeOK, Return
<1>6. QED BY <1>1, <1>2, <1>3, <1>4, <1>5

\* Every step moves the semaphore with the goroutines that hold it.
LEMMA NextSlotsHeld ==
  ASSUME TypeOK, Startup, Where, SlotsHeld, [Next]_vars
  PROVE  SlotsHeld'
<1> USE ApiServerAssumption DEF TypeOK, Startup, Where, Holders, Searching, Past, Requests,
      Routes, Bodies, Goto, Set, Return, Unwind, Plain, Verdict, NoReply, NoOne, startup, shared,
      locals, history

<1>1. CASE StartStub
  <2>1. Holders' = Holders /\ sem' = sem BY <1>1 DEF StartStub
  <2>2. QED BY <2>1 DEF SlotsHeld
<1>2. CASE Load
  <2>1. Holders' = Holders /\ sem' = sem BY <1>2 DEF Load
  <2>2. QED BY <2>1 DEF SlotsHeld
<1>3. CASE LoadFails
  <2>1. Holders' = {} /\ sem' = 0 BY <1>3 DEF LoadFails, Exit
  <2>2. QED BY <2>1, FS_EmptySet DEF SlotsHeld
<1>4. CASE SetIndex
  <2>1. Holders' = Holders /\ sem' = sem BY <1>4 DEF SetIndex
  <2>2. QED BY <2>1 DEF SlotsHeld
<1>5. ASSUME NEW c \in Conns, Arrive(c) PROVE SlotsHeld'
  <2>1. Holders' = Holders /\ sem' = sem BY <1>5 DEF Arrive, Entry
  <2>2. QED BY <2>1 DEF SlotsHeld
<1>6. ASSUME NEW c \in Conns, Probe(c) PROVE SlotsHeld'
  <2>1. Holders' = Holders /\ sem' = sem BY <1>6 DEF Probe
  <2>2. QED BY <2>1 DEF SlotsHeld
<1>7. ASSUME NEW c \in Conns, Other(c) PROVE SlotsHeld'
  <2>1. Holders' = Holders /\ sem' = sem BY <1>7 DEF Other
  <2>2. QED BY <2>1 DEF SlotsHeld
<1>8. ASSUME NEW c \in Conns, Method(c) PROVE SlotsHeld'
  <2>1. Holders' = Holders /\ sem' = sem BY <1>8 DEF Method
  <2>2. QED BY <2>1 DEF SlotsHeld
<1>9. ASSUME NEW c \in Conns, LoadReady(c) PROVE SlotsHeld'
  <2>1. Holders' = Holders /\ sem' = sem BY <1>9 DEF LoadReady
  <2>2. QED BY <2>1 DEF SlotsHeld
<1>10. ASSUME NEW c \in Conns, GetBody(c) PROVE SlotsHeld'
  <2>1. Holders' = Holders /\ sem' = sem BY <1>10 DEF GetBody
  <2>2. QED BY <2>1 DEF SlotsHeld
<1>11. ASSUME NEW c \in Conns, ReadBody(c) PROVE SlotsHeld'
  <2>1. Holders' = Holders /\ sem' = sem BY <1>11 DEF ReadBody
  <2>2. QED BY <2>1 DEF SlotsHeld
<1>12. ASSUME NEW c \in Conns, LoadIdx(c) PROVE SlotsHeld'
  <2>1. Holders' = Holders /\ sem' = sem BY <1>12 DEF LoadIdx
  <2>2. QED BY <2>1 DEF SlotsHeld
<1>13. ASSUME NEW c \in Conns, Acquire(c) PROVE SlotsHeld'
  <2>1. Holders' = Holders \cup {c} /\ c \notin Holders /\ sem' = sem + 1 BY <1>13 DEF Acquire
  <2>2. Cardinality(Holders \cup {c}) = Cardinality(Holders) + 1
    BY <2>1, HoldersCounted, FS_AddElement
  <2>3. QED BY <2>1, <2>2 DEF SlotsHeld
<1>14. ASSUME NEW c \in Conns, Shed(c) PROVE SlotsHeld'
  <2>1. Holders' = Holders /\ sem' = sem BY <1>14 DEF Shed
  <2>2. QED BY <2>1 DEF SlotsHeld
<1>15. ASSUME NEW c \in Conns, Vectorize(c) PROVE SlotsHeld'
  <2>1. Holders' = Holders /\ sem' = sem BY <1>15 DEF Vectorize, Vectorized, GivesUp
  <2>2. QED BY <2>1 DEF SlotsHeld
<1>16. ASSUME NEW c \in Conns, GetScratch(c) PROVE SlotsHeld'
  <2>1. Holders' = Holders /\ sem' = sem BY <1>16 DEF GetScratch
  <2>2. QED BY <2>1 DEF SlotsHeld
<1>17. ASSUME NEW c \in Conns, Scan(c) PROVE SlotsHeld'
  <2>1. Holders' = Holders /\ sem' = sem BY <1>17 DEF Scan
  <2>2. QED BY <2>1 DEF SlotsHeld
<1>18. ASSUME NEW c \in Conns, Count(c) PROVE SlotsHeld'
  <2>1. Holders' = Holders /\ sem' = sem BY <1>18 DEF Count
  <2>2. QED BY <2>1 DEF SlotsHeld
<1>19. ASSUME NEW c \in Conns, PutScratch(c) PROVE SlotsHeld'
  <2>1. Holders' = Holders /\ sem' = sem BY <1>19 DEF PutScratch
  <2>2. QED BY <2>1 DEF SlotsHeld
<1>20. ASSUME NEW c \in Conns, Release(c) PROVE SlotsHeld'
  <2>1. Holders' = Holders \ {c} /\ c \in Holders /\ sem' = sem - 1 BY <1>20 DEF Release
  <2>2. Cardinality(Holders \ {c}) = Cardinality(Holders) - 1
    BY <2>1, HoldersCounted, FS_RemoveElement
  <2>3. QED BY <2>1, <2>2 DEF SlotsHeld
<1>21. ASSUME NEW c \in Conns, PutBody(c) PROVE SlotsHeld'
  <2>1. Holders' = Holders /\ sem' = sem BY <1>21 DEF PutBody
  <2>2. QED BY <2>1 DEF SlotsHeld
<1>23. ASSUME NEW c \in Conns, Panic(c) PROVE SlotsHeld'
  <2>1. Holders' = {} /\ sem' = 0 BY <1>23 DEF Panic, Exit
  <2>2. QED BY <2>1, FS_EmptySet DEF SlotsHeld
<1>22. CASE UNCHANGED vars
  BY <1>22 DEF vars, SlotsHeld
<1> QED BY <1>1, <1>2, <1>3, <1>4, <1>5, <1>6, <1>7, <1>8, <1>9, <1>10, <1>11, <1>12,
      <1>13, <1>14, <1>15, <1>16, <1>17, <1>18, <1>19, <1>20, <1>21, <1>22, <1>23
  DEF Next, Main, Serve

\* Every step keeps every variable within its type.
LEMMA NextTypeOK ==
  ASSUME TypeOK, Startup, Where, Owned, SlotsHeld, [Next]_vars
  PROVE  TypeOK'
<1> USE ApiServerAssumption, ReplyFacts DEF TypeOK, Startup, Where, Owned, HasScratch,
      HasBuffer, Past, Kinds, Requests, Routes, Bodies, Goto, Set, Return, Unwind, NoReply, NoOne,
      startup, shared, locals, history
<1>1. CASE StartStub
  BY <1>1 DEF StartStub
<1>2. CASE Load
  BY <1>2 DEF Load
<1>3. CASE LoadFails
  BY <1>3 DEF LoadFails, Exit
<1>4. CASE SetIndex
  BY <1>4 DEF SetIndex
<1>5. ASSUME NEW c \in Conns, Arrive(c) PROVE TypeOK'
  BY <1>5 DEF Arrive, Entry
<1>6. ASSUME NEW c \in Conns, Probe(c) PROVE TypeOK'
  BY <1>6 DEF Probe
<1>7. ASSUME NEW c \in Conns, Other(c) PROVE TypeOK'
  BY <1>7 DEF Other
<1>8. ASSUME NEW c \in Conns, Method(c) PROVE TypeOK'
  <2>1. CASE Return(c, Plain("refused"))
    BY <1>8, <2>1, ReturnTypes DEF Method, Places
  <2>2. CASE Goto(c, "ready?") /\ UNCHANGED <<reply, history>>
    BY <1>8, <2>2 DEF Method
  <2>3. QED BY <1>8, <2>1, <2>2 DEF Method
<1>9. ASSUME NEW c \in Conns, LoadReady(c) PROVE TypeOK'
  <2>1. CASE Return(c, Plain("notReady"))
    BY <1>9, <2>1, ReturnTypes DEF LoadReady, Places
  <2>2. CASE /\ Goto(c, IF req[c].route = "http" THEN "getBody" ELSE "idx?")
             /\ UNCHANGED <<reply, history>>
    BY <1>9, <2>2 DEF LoadReady
  <2>3. QED BY <1>9, <2>1, <2>2 DEF LoadReady
<1>10. ASSUME NEW c \in Conns, GetBody(c) PROVE TypeOK'
  BY <1>10 DEF GetBody
<1>11. ASSUME NEW c \in Conns, ReadBody(c) PROVE TypeOK'
  <2>1. bufp[c] \in Buffers BY <1>11 DEF ReadBody
  <2>2. written' \in [Scratches \cup Buffers -> Conns \cup {NoOne}] BY <1>11, <2>1 DEF ReadBody
  <2>3. pc' \in [Conns -> Places]
    <3>1. \E p \in Places : pc' = [pc EXCEPT ![c] = p] BY <1>11 DEF ReadBody, Places
    <3>2. QED BY <3>1 DEF Places
  <2>4. reply' \in [Conns -> [kind : Kinds, of : Conns \cup {NoOne}]]
    <3>1. reply' = reply \/ reply' = [reply EXCEPT ![c] = Plain("refused")]
      BY <1>11 DEF ReadBody
    <3>2. QED BY <3>1, ReplyTypes
  <2>5. QED BY <1>11, <2>2, <2>3, <2>4 DEF ReadBody, Places
<1>12. ASSUME NEW c \in Conns, LoadIdx(c) PROVE TypeOK'
  <2>1. CASE Return(c, Plain("default"))
    BY <1>12, <2>1, ReturnTypes DEF LoadIdx, Places
  <2>2. CASE /\ Goto(c, IF req[c].route = "http" THEN "vectorize" ELSE "slot")
             /\ UNCHANGED <<reply, history>>
    BY <1>12, <2>2 DEF LoadIdx
  <2>3. CASE /\ Goto(c, "putBody") /\ reply' = Set(reply, c, Plain("default"))
             /\ UNCHANGED history
    BY <1>12, <2>3 DEF LoadIdx
  <2>4. QED BY <1>12, <2>1, <2>2, <2>3 DEF LoadIdx
<1>13. ASSUME NEW c \in Conns, Acquire(c) PROVE TypeOK'
  BY <1>13 DEF Acquire
<1>14. ASSUME NEW c \in Conns, Shed(c) PROVE TypeOK'
  BY <1>14 DEF Shed
<1>15. ASSUME NEW c \in Conns, Vectorize(c) PROVE TypeOK'
  <2>1. query' \in [Conns -> Conns \cup {NoOne}]
    <3>1. CASE Vectorized(c)
      <4>1. req[c].route = "http" => bufp[c] \in Buffers BY <1>15 DEF Vectorize
      <4>2. PICK q \in Conns \cup {NoOne} : query' = [query EXCEPT ![c] = q]
        BY <3>1, <4>1 DEF Vectorized
      <4>3. QED BY <4>2
    <3>2. CASE query' = query BY <3>2
    <3>3. QED BY <1>15, <3>1, <3>2 DEF Vectorize, GivesUp
  <2>2. pc' \in [Conns -> Places]
    <3>1. \E p \in Places : pc' = [pc EXCEPT ![c] = p] BY <1>15 DEF Vectorize, Vectorized, GivesUp, Places
    <3>2. QED BY <3>1 DEF Places
  <2>3. reply' \in [Conns -> [kind : Kinds, of : Conns \cup {NoOne}]]
    <3>1. reply' = reply \/ \E k \in Kinds : reply' = [reply EXCEPT ![c] = Plain(k)]
      BY <1>15 DEF Vectorize, Vectorized, GivesUp
    <3>2. CASE reply' = reply BY <3>2
    <3>3. CASE \E k \in Kinds : reply' = [reply EXCEPT ![c] = Plain(k)]
      <4>1. PICK k \in Kinds : reply' = [reply EXCEPT ![c] = Plain(k)] BY <3>3
      <4>2. Plain(k) \in [kind : Kinds, of : Conns \cup {NoOne}] BY ReplyTypes
      <4>3. QED BY <4>1, <4>2
    <3>4. QED BY <3>1, <3>2, <3>3
  <2>4. QED BY <1>15, <2>1, <2>2, <2>3 DEF Vectorize, Vectorized, GivesUp, Places
<1>16. ASSUME NEW c \in Conns, GetScratch(c) PROVE TypeOK'
  BY <1>16 DEF GetScratch
<1>17. ASSUME NEW c \in Conns, Scan(c) PROVE TypeOK'
  BY <1>17 DEF Scan
<1>18. ASSUME NEW c \in Conns, Count(c) PROVE TypeOK'
  BY <1>18 DEF Count
<1>19. ASSUME NEW c \in Conns, PutScratch(c) PROVE TypeOK'
  BY <1>19 DEF PutScratch
<1>20. ASSUME NEW c \in Conns, Release(c) PROVE TypeOK'
  <2>1. c \in Holders BY <1>20 DEF Release, Holders, Searching
  <2>2. sem >= 1 BY <2>1, HoldersCounted DEF SlotsHeld
  <2>3. sem' \in 0 .. ShedSlots BY <1>20, <2>2 DEF Release
  <2>4. reply[c] \in [kind : Kinds, of : Conns \cup {NoOne}] OBVIOUS
  <2>5. CASE Return(c, reply[c])
    BY <1>20, <2>3, <2>4, <2>5, ReturnTypes DEF Release, Places
  <2>6. CASE Goto(c, "panic") /\ UNCHANGED <<reply, history>>
    BY <1>20, <2>3, <2>6 DEF Release
  <2>7. QED BY <1>20, <2>5, <2>6 DEF Release
<1>21. ASSUME NEW c \in Conns, PutBody(c) PROVE TypeOK'
  BY <1>21 DEF PutBody
<1>23. ASSUME NEW c \in Conns, Panic(c) PROVE TypeOK'
  BY <1>23 DEF Panic, Exit
<1>22. CASE UNCHANGED vars
  BY <1>22 DEF vars
<1> QED BY <1>1, <1>2, <1>3, <1>4, <1>5, <1>6, <1>7, <1>8, <1>9, <1>10, <1>11, <1>12,
      <1>13, <1>14, <1>15, <1>16, <1>17, <1>18, <1>19, <1>20, <1>21, <1>22, <1>23
  DEF Next, Main, Serve

\* Every step keeps the order of the stores in SetIndex.
LEMMA NextStartup ==
  ASSUME TypeOK, Startup, [Next]_vars
  PROVE  Startup'
<1> USE ApiServerAssumption DEF TypeOK, Startup, Goto, Set, Return, Unwind, Plain, Verdict,
      NoReply, NoOne, startup, shared, locals, history
<1>1. CASE StartStub
  BY <1>1 DEF StartStub
<1>2. CASE Load
  BY <1>2 DEF Load
<1>3. CASE LoadFails
  BY <1>3 DEF LoadFails, Exit
<1>4. CASE SetIndex
  BY <1>4 DEF SetIndex
<1>5. ASSUME NEW c \in Conns, Arrive(c) PROVE Startup'
  BY <1>5 DEF Arrive, Entry
<1>6. ASSUME NEW c \in Conns, Probe(c) PROVE Startup'
  BY <1>6 DEF Probe
<1>7. ASSUME NEW c \in Conns, Other(c) PROVE Startup'
  BY <1>7 DEF Other
<1>8. ASSUME NEW c \in Conns, Method(c) PROVE Startup'
  BY <1>8 DEF Method
<1>9. ASSUME NEW c \in Conns, LoadReady(c) PROVE Startup'
  BY <1>9 DEF LoadReady
<1>10. ASSUME NEW c \in Conns, GetBody(c) PROVE Startup'
  BY <1>10 DEF GetBody
<1>11. ASSUME NEW c \in Conns, ReadBody(c) PROVE Startup'
  BY <1>11 DEF ReadBody
<1>12. ASSUME NEW c \in Conns, LoadIdx(c) PROVE Startup'
  BY <1>12 DEF LoadIdx
<1>13. ASSUME NEW c \in Conns, Acquire(c) PROVE Startup'
  BY <1>13 DEF Acquire
<1>14. ASSUME NEW c \in Conns, Shed(c) PROVE Startup'
  BY <1>14 DEF Shed
<1>15. ASSUME NEW c \in Conns, Vectorize(c) PROVE Startup'
  BY <1>15 DEF Vectorize, Vectorized, GivesUp
<1>16. ASSUME NEW c \in Conns, GetScratch(c) PROVE Startup'
  BY <1>16 DEF GetScratch
<1>17. ASSUME NEW c \in Conns, Scan(c) PROVE Startup'
  BY <1>17 DEF Scan
<1>18. ASSUME NEW c \in Conns, Count(c) PROVE Startup'
  BY <1>18 DEF Count
<1>19. ASSUME NEW c \in Conns, PutScratch(c) PROVE Startup'
  BY <1>19 DEF PutScratch
<1>20. ASSUME NEW c \in Conns, Release(c) PROVE Startup'
  BY <1>20 DEF Release
<1>21. ASSUME NEW c \in Conns, PutBody(c) PROVE Startup'
  BY <1>21 DEF PutBody
<1>23. ASSUME NEW c \in Conns, Panic(c) PROVE Startup'
  BY <1>23 DEF Panic, Exit
<1>22. CASE UNCHANGED vars
  BY <1>22 DEF vars
<1> QED BY <1>1, <1>2, <1>3, <1>4, <1>5, <1>6, <1>7, <1>8, <1>9, <1>10, <1>11, <1>12,
      <1>13, <1>14, <1>15, <1>16, <1>17, <1>18, <1>19, <1>20, <1>21, <1>22, <1>23
  DEF Next, Main, Serve

\* Every step keeps each goroutine on its route.
LEMMA NextWhere ==
  ASSUME TypeOK, Startup, Where, [Next]_vars
  PROVE  Where'
<1> USE ApiServerAssumption DEF TypeOK, Startup, Where, Past, Searching, Requests, Routes, Bodies, Goto,
      Set, Return, Unwind, Plain, Verdict, NoReply, NoOne, startup, shared, locals, history
<1>1. CASE StartStub
  BY <1>1 DEF StartStub
<1>2. CASE Load
  BY <1>2 DEF Load
<1>3. CASE LoadFails
  BY <1>3 DEF LoadFails, Exit
<1>4. CASE SetIndex
  BY <1>4 DEF SetIndex
<1>5. ASSUME NEW c \in Conns, Arrive(c) PROVE Where'
  BY <1>5 DEF Arrive, Entry
<1>6. ASSUME NEW c \in Conns, Probe(c) PROVE Where'
  BY <1>6 DEF Probe
<1>7. ASSUME NEW c \in Conns, Other(c) PROVE Where'
  BY <1>7 DEF Other
<1>8. ASSUME NEW c \in Conns, Method(c) PROVE Where'
  BY <1>8 DEF Method
<1>9. ASSUME NEW c \in Conns, LoadReady(c) PROVE Where'
  BY <1>9 DEF LoadReady
<1>10. ASSUME NEW c \in Conns, GetBody(c) PROVE Where'
  BY <1>10 DEF GetBody
<1>11. ASSUME NEW c \in Conns, ReadBody(c) PROVE Where'
  BY <1>11 DEF ReadBody
<1>12. ASSUME NEW c \in Conns, LoadIdx(c) PROVE Where'
  BY <1>12 DEF LoadIdx
<1>13. ASSUME NEW c \in Conns, Acquire(c) PROVE Where'
  BY <1>13 DEF Acquire
<1>14. ASSUME NEW c \in Conns, Shed(c) PROVE Where'
  BY <1>14 DEF Shed
<1>15. ASSUME NEW c \in Conns, Vectorize(c) PROVE Where'
  BY <1>15 DEF Vectorize, Vectorized, GivesUp
<1>16. ASSUME NEW c \in Conns, GetScratch(c) PROVE Where'
  BY <1>16 DEF GetScratch
<1>17. ASSUME NEW c \in Conns, Scan(c) PROVE Where'
  BY <1>17 DEF Scan
<1>18. ASSUME NEW c \in Conns, Count(c) PROVE Where'
  BY <1>18 DEF Count
<1>19. ASSUME NEW c \in Conns, PutScratch(c) PROVE Where'
  BY <1>19 DEF PutScratch
<1>20. ASSUME NEW c \in Conns, Release(c) PROVE Where'
  BY <1>20 DEF Release
<1>21. ASSUME NEW c \in Conns, PutBody(c) PROVE Where'
  BY <1>21 DEF PutBody
<1>23. ASSUME NEW c \in Conns, Panic(c) PROVE Where'
  BY <1>23 DEF Panic, Exit
<1>22. CASE UNCHANGED vars
  BY <1>22 DEF vars
<1> QED BY <1>1, <1>2, <1>3, <1>4, <1>5, <1>6, <1>7, <1>8, <1>9, <1>10, <1>11, <1>12,
      <1>13, <1>14, <1>15, <1>16, <1>17, <1>18, <1>19, <1>20, <1>21, <1>22, <1>23
  DEF Next, Main, Serve

\* No step lets two goroutines, or a goroutine and a pool, share one.
LEMMA NextOwned ==
  ASSUME TypeOK, Startup, Where, Owned, [Next]_vars
  PROVE  Owned'
<1> USE ApiServerAssumption DEF TypeOK, Startup, Where, Owned, HasScratch, HasBuffer, Past,
      Requests, Routes, Bodies, Goto, Set, Return, Unwind, Plain, Verdict, NoReply, NoOne, startup,
      shared, locals, history
<1>1. CASE StartStub
  BY <1>1 DEF StartStub
<1>2. CASE Load
  BY <1>2 DEF Load
<1>3. CASE LoadFails
  BY <1>3 DEF LoadFails, Exit
<1>4. CASE SetIndex
  BY <1>4 DEF SetIndex
<1>5. ASSUME NEW c \in Conns, Arrive(c) PROVE Owned'
  BY <1>5 DEF Arrive, Entry
<1>6. ASSUME NEW c \in Conns, Probe(c) PROVE Owned'
  BY <1>6 DEF Probe
<1>7. ASSUME NEW c \in Conns, Other(c) PROVE Owned'
  BY <1>7 DEF Other
<1>8. ASSUME NEW c \in Conns, Method(c) PROVE Owned'
  BY <1>8 DEF Method
<1>9. ASSUME NEW c \in Conns, LoadReady(c) PROVE Owned'
  BY <1>9 DEF LoadReady
<1>10. ASSUME NEW c \in Conns, GetBody(c) PROVE Owned'
  BY <1>10 DEF GetBody
<1>11. ASSUME NEW c \in Conns, ReadBody(c) PROVE Owned'
  BY <1>11 DEF ReadBody
<1>12. ASSUME NEW c \in Conns, LoadIdx(c) PROVE Owned'
  BY <1>12 DEF LoadIdx
<1>13. ASSUME NEW c \in Conns, Acquire(c) PROVE Owned'
  BY <1>13 DEF Acquire
<1>14. ASSUME NEW c \in Conns, Shed(c) PROVE Owned'
  BY <1>14 DEF Shed
<1>15. ASSUME NEW c \in Conns, Vectorize(c) PROVE Owned'
  BY <1>15 DEF Vectorize, Vectorized, GivesUp
<1>16. ASSUME NEW c \in Conns, GetScratch(c) PROVE Owned'
  BY <1>16 DEF GetScratch
<1>17. ASSUME NEW c \in Conns, Scan(c) PROVE Owned'
  BY <1>17 DEF Scan
<1>18. ASSUME NEW c \in Conns, Count(c) PROVE Owned'
  BY <1>18 DEF Count
<1>19. ASSUME NEW c \in Conns, PutScratch(c) PROVE Owned'
  BY <1>19 DEF PutScratch
<1>20. ASSUME NEW c \in Conns, Release(c) PROVE Owned'
  BY <1>20 DEF Release
<1>21. ASSUME NEW c \in Conns, PutBody(c) PROVE Owned'
  BY <1>21 DEF PutBody
<1>23. ASSUME NEW c \in Conns, Panic(c) PROVE Owned'
  BY <1>23 DEF Panic, Exit
<1>22. CASE UNCHANGED vars
  BY <1>22 DEF vars
<1> QED BY <1>1, <1>2, <1>3, <1>4, <1>5, <1>6, <1>7, <1>8, <1>9, <1>10, <1>11, <1>12,
      <1>13, <1>14, <1>15, <1>16, <1>17, <1>18, <1>19, <1>20, <1>21, <1>22, <1>23
  DEF Next, Main, Serve

\* No step writes what another goroutine is about to read.
LEMMA NextData ==
  ASSUME TypeOK, Startup, Where, Owned, Data, [Next]_vars
  PROVE  Data'
<1> USE ApiServerAssumption DEF TypeOK, Startup, Where, Owned, Data, HasScratch, HasBuffer,
      Past, Requests, Routes, Bodies, Goto, Set, Return, Unwind, Plain, Verdict, NoReply, NoOne,
      startup, shared, locals, history
<1>1. CASE StartStub
  BY <1>1 DEF StartStub
<1>2. CASE Load
  BY <1>2 DEF Load
<1>3. CASE LoadFails
  BY <1>3 DEF LoadFails, Exit
<1>4. CASE SetIndex
  BY <1>4 DEF SetIndex
<1>5. ASSUME NEW c \in Conns, Arrive(c) PROVE Data'
  BY <1>5 DEF Arrive, Entry
<1>6. ASSUME NEW c \in Conns, Probe(c) PROVE Data'
  BY <1>6 DEF Probe
<1>7. ASSUME NEW c \in Conns, Other(c) PROVE Data'
  BY <1>7 DEF Other
<1>8. ASSUME NEW c \in Conns, Method(c) PROVE Data'
  BY <1>8 DEF Method
<1>9. ASSUME NEW c \in Conns, LoadReady(c) PROVE Data'
  BY <1>9 DEF LoadReady
<1>10. ASSUME NEW c \in Conns, GetBody(c) PROVE Data'
  BY <1>10 DEF GetBody
<1>11. ASSUME NEW c \in Conns, ReadBody(c) PROVE Data'
  BY <1>11 DEF ReadBody
<1>12. ASSUME NEW c \in Conns, LoadIdx(c) PROVE Data'
  BY <1>12 DEF LoadIdx
<1>13. ASSUME NEW c \in Conns, Acquire(c) PROVE Data'
  BY <1>13 DEF Acquire
<1>14. ASSUME NEW c \in Conns, Shed(c) PROVE Data'
  BY <1>14 DEF Shed
<1>15. ASSUME NEW c \in Conns, Vectorize(c) PROVE Data'
  BY <1>15 DEF Vectorize, Vectorized, GivesUp
<1>16. ASSUME NEW c \in Conns, GetScratch(c) PROVE Data'
  BY <1>16 DEF GetScratch
<1>17. ASSUME NEW c \in Conns, Scan(c) PROVE Data'
  BY <1>17 DEF Scan
<1>18. ASSUME NEW c \in Conns, Count(c) PROVE Data'
  BY <1>18 DEF Count
<1>19. ASSUME NEW c \in Conns, PutScratch(c) PROVE Data'
  BY <1>19 DEF PutScratch
<1>20. ASSUME NEW c \in Conns, Release(c) PROVE Data'
  BY <1>20 DEF Release
<1>21. ASSUME NEW c \in Conns, PutBody(c) PROVE Data'
  BY <1>21 DEF PutBody
<1>23. ASSUME NEW c \in Conns, Panic(c) PROVE Data'
  BY <1>23 DEF Panic, Exit
<1>22. CASE UNCHANGED vars
  BY <1>22 DEF vars
<1> QED BY <1>1, <1>2, <1>3, <1>4, <1>5, <1>6, <1>7, <1>8, <1>9, <1>10, <1>11, <1>12,
      <1>13, <1>14, <1>15, <1>16, <1>17, <1>18, <1>19, <1>20, <1>21, <1>22, <1>23
  DEF Next, Main, Serve

\* Every step keeps the answer a goroutine holds true to its request.
LEMMA NextReplied ==
  ASSUME TypeOK, Startup, Where, Data, Replied, [Next]_vars
  PROVE  Replied'
<1> USE ApiServerAssumption, ReplyFacts DEF TypeOK, Startup, Where, Data, Replied, Scored, Past,
      Searching, Kinds, Requests, Routes, Bodies, Goto, Set, Return, Unwind, NoReply, NoOne, startup,
      shared, locals, history
<1>1. CASE StartStub
  BY <1>1 DEF StartStub
<1>2. CASE Load
  BY <1>2 DEF Load
<1>3. CASE LoadFails
  BY <1>3 DEF LoadFails, Exit
<1>4. CASE SetIndex
  BY <1>4 DEF SetIndex
<1>5. ASSUME NEW c \in Conns, Arrive(c) PROVE Replied'
  BY <1>5 DEF Arrive, Entry
<1>6. ASSUME NEW c \in Conns, Probe(c) PROVE Replied'
  BY <1>6 DEF Probe
<1>7. ASSUME NEW c \in Conns, Other(c) PROVE Replied'
  BY <1>7 DEF Other
<1>8. ASSUME NEW c \in Conns, Method(c) PROVE Replied'
  BY <1>8 DEF Method
<1>9. ASSUME NEW c \in Conns, LoadReady(c) PROVE Replied'
  BY <1>9 DEF LoadReady
<1>10. ASSUME NEW c \in Conns, GetBody(c) PROVE Replied'
  BY <1>10 DEF GetBody
<1>11. ASSUME NEW c \in Conns, ReadBody(c) PROVE Replied'
  BY <1>11 DEF ReadBody
<1>12. ASSUME NEW c \in Conns, LoadIdx(c) PROVE Replied'
  BY <1>12 DEF LoadIdx
<1>13. ASSUME NEW c \in Conns, Acquire(c) PROVE Replied'
  BY <1>13 DEF Acquire
<1>14. ASSUME NEW c \in Conns, Shed(c) PROVE Replied'
  BY <1>14 DEF Shed
<1>15. ASSUME NEW c \in Conns, Vectorize(c) PROVE Replied'
  BY <1>15 DEF Vectorize, Vectorized, GivesUp
<1>16. ASSUME NEW c \in Conns, GetScratch(c) PROVE Replied'
  BY <1>16 DEF GetScratch
<1>17. ASSUME NEW c \in Conns, Scan(c) PROVE Replied'
  BY <1>17 DEF Scan
<1>18. ASSUME NEW c \in Conns, Count(c) PROVE Replied'
  BY <1>18 DEF Count
<1>19. ASSUME NEW c \in Conns, PutScratch(c) PROVE Replied'
  BY <1>19 DEF PutScratch
<1>20. ASSUME NEW c \in Conns, Release(c) PROVE Replied'
  BY <1>20 DEF Release
<1>21. ASSUME NEW c \in Conns, PutBody(c) PROVE Replied'
  BY <1>21 DEF PutBody
<1>23. ASSUME NEW c \in Conns, Panic(c) PROVE Replied'
  BY <1>23 DEF Panic, Exit
<1>22. CASE UNCHANGED vars
  BY <1>22 DEF vars
<1> QED BY <1>1, <1>2, <1>3, <1>4, <1>5, <1>6, <1>7, <1>8, <1>9, <1>10, <1>11, <1>12,
      <1>13, <1>14, <1>15, <1>16, <1>17, <1>18, <1>19, <1>20, <1>21, <1>22, <1>23
  DEF Next, Main, Serve

\* Nobody is told the replica is ready before it is.
LEMMA NextTold ==
  ASSUME TypeOK, Startup, Where, Replied, Told, [Next]_vars
  PROVE  Told'
<1> USE ApiServerAssumption, ReplyFacts DEF TypeOK, Startup, Where, Replied, Told, Scored, Past,
      Kinds, Goto, Set, Return, Unwind, NoReply, NoOne, startup, shared, locals, history
<1>1. CASE StartStub
  BY <1>1 DEF StartStub
<1>2. CASE Load
  BY <1>2 DEF Load
<1>3. CASE LoadFails
  BY <1>3 DEF LoadFails, Exit
<1>4. CASE SetIndex
  BY <1>4 DEF SetIndex
<1>5. ASSUME NEW c \in Conns, Arrive(c) PROVE Told'
  BY <1>5 DEF Arrive, Entry
<1>6. ASSUME NEW c \in Conns, Probe(c) PROVE Told'
  BY <1>6 DEF Probe
<1>7. ASSUME NEW c \in Conns, Other(c) PROVE Told'
  BY <1>7 DEF Other
<1>8. ASSUME NEW c \in Conns, Method(c) PROVE Told'
  BY <1>8 DEF Method
<1>9. ASSUME NEW c \in Conns, LoadReady(c) PROVE Told'
  BY <1>9 DEF LoadReady
<1>10. ASSUME NEW c \in Conns, GetBody(c) PROVE Told'
  BY <1>10 DEF GetBody
<1>11. ASSUME NEW c \in Conns, ReadBody(c) PROVE Told'
  BY <1>11 DEF ReadBody
<1>12. ASSUME NEW c \in Conns, LoadIdx(c) PROVE Told'
  BY <1>12 DEF LoadIdx
<1>13. ASSUME NEW c \in Conns, Acquire(c) PROVE Told'
  BY <1>13 DEF Acquire
<1>14. ASSUME NEW c \in Conns, Shed(c) PROVE Told'
  BY <1>14 DEF Shed
<1>15. ASSUME NEW c \in Conns, Vectorize(c) PROVE Told'
  BY <1>15 DEF Vectorize, Vectorized, GivesUp
<1>16. ASSUME NEW c \in Conns, GetScratch(c) PROVE Told'
  BY <1>16 DEF GetScratch
<1>17. ASSUME NEW c \in Conns, Scan(c) PROVE Told'
  BY <1>17 DEF Scan
<1>18. ASSUME NEW c \in Conns, Count(c) PROVE Told'
  BY <1>18 DEF Count
<1>19. ASSUME NEW c \in Conns, PutScratch(c) PROVE Told'
  BY <1>19 DEF PutScratch
<1>20. ASSUME NEW c \in Conns, Release(c) PROVE Told'
  BY <1>20 DEF Release
<1>21. ASSUME NEW c \in Conns, PutBody(c) PROVE Told'
  BY <1>21 DEF PutBody
<1>23. ASSUME NEW c \in Conns, Panic(c) PROVE Told'
  BY <1>23 DEF Panic, Exit
<1>22. CASE UNCHANGED vars
  BY <1>22 DEF vars
<1> QED BY <1>1, <1>2, <1>3, <1>4, <1>5, <1>6, <1>7, <1>8, <1>9, <1>10, <1>11, <1>12,
      <1>13, <1>14, <1>15, <1>16, <1>17, <1>18, <1>19, <1>20, <1>21, <1>22, <1>23
  DEF Next, Main, Serve

\* No step answers with another request's verdict.
LEMMA NextOwnVerdict ==
  ASSUME TypeOK, Where, Data, Replied, OwnVerdict, [Next]_vars
  PROVE  OwnVerdict'
<1> USE ApiServerAssumption, ReplyFacts DEF TypeOK, Where, Data, Replied, OwnVerdict, Scored,
      Past, Kinds, Goto, Set, Return, Unwind, NoReply, NoOne, startup, shared, locals, history
<1>1. CASE StartStub
  BY <1>1 DEF StartStub
<1>2. CASE Load
  BY <1>2 DEF Load
<1>3. CASE LoadFails
  BY <1>3 DEF LoadFails, Exit
<1>4. CASE SetIndex
  BY <1>4 DEF SetIndex
<1>5. ASSUME NEW c \in Conns, Arrive(c) PROVE OwnVerdict'
  BY <1>5 DEF Arrive, Entry
<1>6. ASSUME NEW c \in Conns, Probe(c) PROVE OwnVerdict'
  BY <1>6 DEF Probe
<1>7. ASSUME NEW c \in Conns, Other(c) PROVE OwnVerdict'
  BY <1>7 DEF Other
<1>8. ASSUME NEW c \in Conns, Method(c) PROVE OwnVerdict'
  BY <1>8 DEF Method
<1>9. ASSUME NEW c \in Conns, LoadReady(c) PROVE OwnVerdict'
  BY <1>9 DEF LoadReady
<1>10. ASSUME NEW c \in Conns, GetBody(c) PROVE OwnVerdict'
  BY <1>10 DEF GetBody
<1>11. ASSUME NEW c \in Conns, ReadBody(c) PROVE OwnVerdict'
  <2>1. reply' = reply \/ reply' = [reply EXCEPT ![c] = Plain("refused")]
    BY <1>11 DEF ReadBody
  <2>2. late' = late BY <1>11 DEF ReadBody
  <2>3. QED BY <2>1, <2>2
<1>12. ASSUME NEW c \in Conns, LoadIdx(c) PROVE OwnVerdict'
  BY <1>12 DEF LoadIdx
<1>13. ASSUME NEW c \in Conns, Acquire(c) PROVE OwnVerdict'
  BY <1>13 DEF Acquire
<1>14. ASSUME NEW c \in Conns, Shed(c) PROVE OwnVerdict'
  BY <1>14 DEF Shed
<1>15. ASSUME NEW c \in Conns, Vectorize(c) PROVE OwnVerdict'
  BY <1>15 DEF Vectorize, Vectorized, GivesUp
<1>16. ASSUME NEW c \in Conns, GetScratch(c) PROVE OwnVerdict'
  BY <1>16 DEF GetScratch
<1>17. ASSUME NEW c \in Conns, Scan(c) PROVE OwnVerdict'
  BY <1>17 DEF Scan
<1>18. ASSUME NEW c \in Conns, Count(c) PROVE OwnVerdict'
  BY <1>18 DEF Count
<1>19. ASSUME NEW c \in Conns, PutScratch(c) PROVE OwnVerdict'
  BY <1>19 DEF PutScratch
<1>20. ASSUME NEW c \in Conns, Release(c) PROVE OwnVerdict'
  BY <1>20 DEF Release
<1>21. ASSUME NEW c \in Conns, PutBody(c) PROVE OwnVerdict'
  BY <1>21 DEF PutBody
<1>23. ASSUME NEW c \in Conns, Panic(c) PROVE OwnVerdict'
  BY <1>23 DEF Panic, Exit
<1>22. CASE UNCHANGED vars
  BY <1>22 DEF vars
<1> QED BY <1>1, <1>2, <1>3, <1>4, <1>5, <1>6, <1>7, <1>8, <1>9, <1>10, <1>11, <1>12,
      <1>13, <1>14, <1>15, <1>16, <1>17, <1>18, <1>19, <1>20, <1>21, <1>22, <1>23
  DEF Next, Main, Serve

\* No step refuses who knew of readiness.
LEMMA NextReadyIsFinal ==
  ASSUME TypeOK, Startup, Where, Replied, Told, ReadyIsFinal, [Next]_vars
  PROVE  ReadyIsFinal'
<1> USE ApiServerAssumption, ReplyFacts DEF TypeOK, Startup, Where, Replied, Told, ReadyIsFinal,
      Scored, Past, Kinds, Goto, Set, Return, Unwind, NoReply, NoOne, startup, shared, locals,
      history
<1>1. CASE StartStub
  BY <1>1 DEF StartStub
<1>2. CASE Load
  BY <1>2 DEF Load
<1>3. CASE LoadFails
  BY <1>3 DEF LoadFails, Exit
<1>4. CASE SetIndex
  BY <1>4 DEF SetIndex
<1>5. ASSUME NEW c \in Conns, Arrive(c) PROVE ReadyIsFinal'
  BY <1>5 DEF Arrive, Entry
<1>6. ASSUME NEW c \in Conns, Probe(c) PROVE ReadyIsFinal'
  BY <1>6 DEF Probe
<1>7. ASSUME NEW c \in Conns, Other(c) PROVE ReadyIsFinal'
  BY <1>7 DEF Other
<1>8. ASSUME NEW c \in Conns, Method(c) PROVE ReadyIsFinal'
  BY <1>8 DEF Method
<1>9. ASSUME NEW c \in Conns, LoadReady(c) PROVE ReadyIsFinal'
  BY <1>9 DEF LoadReady
<1>10. ASSUME NEW c \in Conns, GetBody(c) PROVE ReadyIsFinal'
  BY <1>10 DEF GetBody
<1>11. ASSUME NEW c \in Conns, ReadBody(c) PROVE ReadyIsFinal'
  <2>1. reply' = reply \/ reply' = [reply EXCEPT ![c] = Plain("refused")]
    BY <1>11 DEF ReadBody
  <2>2. late' = late BY <1>11 DEF ReadBody
  <2>3. QED BY <2>1, <2>2
<1>12. ASSUME NEW c \in Conns, LoadIdx(c) PROVE ReadyIsFinal'
  BY <1>12 DEF LoadIdx
<1>13. ASSUME NEW c \in Conns, Acquire(c) PROVE ReadyIsFinal'
  BY <1>13 DEF Acquire
<1>14. ASSUME NEW c \in Conns, Shed(c) PROVE ReadyIsFinal'
  BY <1>14 DEF Shed
<1>15. ASSUME NEW c \in Conns, Vectorize(c) PROVE ReadyIsFinal'
  BY <1>15 DEF Vectorize, Vectorized, GivesUp
<1>16. ASSUME NEW c \in Conns, GetScratch(c) PROVE ReadyIsFinal'
  BY <1>16 DEF GetScratch
<1>17. ASSUME NEW c \in Conns, Scan(c) PROVE ReadyIsFinal'
  BY <1>17 DEF Scan
<1>18. ASSUME NEW c \in Conns, Count(c) PROVE ReadyIsFinal'
  BY <1>18 DEF Count
<1>19. ASSUME NEW c \in Conns, PutScratch(c) PROVE ReadyIsFinal'
  BY <1>19 DEF PutScratch
<1>20. ASSUME NEW c \in Conns, Release(c) PROVE ReadyIsFinal'
  BY <1>20 DEF Release
<1>21. ASSUME NEW c \in Conns, PutBody(c) PROVE ReadyIsFinal'
  BY <1>21 DEF PutBody
<1>23. ASSUME NEW c \in Conns, Panic(c) PROVE ReadyIsFinal'
  BY <1>23 DEF Panic, Exit
<1>22. CASE UNCHANGED vars
  BY <1>22 DEF vars
<1> QED BY <1>1, <1>2, <1>3, <1>4, <1>5, <1>6, <1>7, <1>8, <1>9, <1>10, <1>11, <1>12,
      <1>13, <1>14, <1>15, <1>16, <1>17, <1>18, <1>19, <1>20, <1>21, <1>22, <1>23
  DEF Next, Main, Serve

\* No step approves without a search and without counting it.
LEMMA NextDefaults ==
  ASSUME TypeOK, Startup, Where, Replied, DefaultsCounted, [Next]_vars
  PROVE  DefaultsCounted'
<1> USE ApiServerAssumption, ReplyFacts DEF TypeOK, Startup, Where, Replied, DefaultsCounted,
      Scored, Past, Searching, Kinds, Requests, Routes, Bodies, Goto, Set, Return, Unwind, NoReply,
      NoOne, startup, shared, locals, history
<1>1. CASE StartStub
  BY <1>1 DEF StartStub
<1>2. CASE Load
  BY <1>2 DEF Load
<1>3. CASE LoadFails
  BY <1>3 DEF LoadFails, Exit
<1>4. CASE SetIndex
  BY <1>4 DEF SetIndex
<1>5. ASSUME NEW c \in Conns, Arrive(c) PROVE DefaultsCounted'
  BY <1>5 DEF Arrive, Entry
<1>6. ASSUME NEW c \in Conns, Probe(c) PROVE DefaultsCounted'
  BY <1>6 DEF Probe
<1>7. ASSUME NEW c \in Conns, Other(c) PROVE DefaultsCounted'
  BY <1>7 DEF Other
<1>8. ASSUME NEW c \in Conns, Method(c) PROVE DefaultsCounted'
  BY <1>8 DEF Method
<1>9. ASSUME NEW c \in Conns, LoadReady(c) PROVE DefaultsCounted'
  BY <1>9 DEF LoadReady
<1>10. ASSUME NEW c \in Conns, GetBody(c) PROVE DefaultsCounted'
  BY <1>10 DEF GetBody
<1>11. ASSUME NEW c \in Conns, ReadBody(c) PROVE DefaultsCounted'
  BY <1>11 DEF ReadBody
<1>12. ASSUME NEW c \in Conns, LoadIdx(c) PROVE DefaultsCounted'
  BY <1>12 DEF LoadIdx
<1>13. ASSUME NEW c \in Conns, Acquire(c) PROVE DefaultsCounted'
  BY <1>13 DEF Acquire
<1>14. ASSUME NEW c \in Conns, Shed(c) PROVE DefaultsCounted'
  BY <1>14 DEF Shed
<1>15. ASSUME NEW c \in Conns, Vectorize(c) PROVE DefaultsCounted'
  BY <1>15 DEF Vectorize, Vectorized, GivesUp
<1>16. ASSUME NEW c \in Conns, GetScratch(c) PROVE DefaultsCounted'
  BY <1>16 DEF GetScratch
<1>17. ASSUME NEW c \in Conns, Scan(c) PROVE DefaultsCounted'
  BY <1>17 DEF Scan
<1>18. ASSUME NEW c \in Conns, Count(c) PROVE DefaultsCounted'
  BY <1>18 DEF Count
<1>19. ASSUME NEW c \in Conns, PutScratch(c) PROVE DefaultsCounted'
  BY <1>19 DEF PutScratch
<1>20. ASSUME NEW c \in Conns, Release(c) PROVE DefaultsCounted'
  <2>1. reply[c].kind = "default" => req[c].body # "good" BY <1>20 DEF Release
  <2>2. defaults' = defaults /\ shedCount' = shedCount /\ file' = file
    BY <1>20, <2>1 DEF Release
  <2>3. QED BY <2>2
<1>21. ASSUME NEW c \in Conns, PutBody(c) PROVE DefaultsCounted'
  <2>1. file # "absent" => idx BY <1>21 DEF PutBody
  <2>2. file # "absent" /\ reply[c].kind = "default" => req[c].body # "good"
    <3>1. reply[c] = Plain("refused") \/ ~idx \/ reply[c] = Scored(c) BY <1>21 DEF PutBody
    <3>2. Plain("refused").kind = "refused" BY ReplyFacts
    <3>3. req[c].body = "good" => Scored(c).kind = "verdict" BY ReplyFacts DEF Scored
    <3>4. QED BY <2>1, <3>1, <3>2, <3>3
  <2>3. file # "absent" => defaults' = defaults
    BY <1>21, <2>2 DEF PutBody
  <2>4. shedCount' = shedCount /\ file' = file BY <1>21 DEF PutBody
  <2>5. QED BY <2>3, <2>4
<1>23. ASSUME NEW c \in Conns, Panic(c) PROVE DefaultsCounted'
  BY <1>23 DEF Panic, Exit
<1>22. CASE UNCHANGED vars
  BY <1>22 DEF vars
<1> QED BY <1>1, <1>2, <1>3, <1>4, <1>5, <1>6, <1>7, <1>8, <1>9, <1>10, <1>11, <1>12,
      <1>13, <1>14, <1>15, <1>16, <1>17, <1>18, <1>19, <1>20, <1>21, <1>22, <1>23
  DEF Next, Main, Serve

-----------------------------------------------------------------------------
(* The invariant, and the properties that follow from it.                  *)

\* At first nothing has arrived and nothing is shared.
LEMMA InitIInv == Init => IInv
<1> SUFFICES ASSUME Init PROVE IInv OBVIOUS
<1> USE ApiServerAssumption DEF Init, NoOne, NoReply, Plain, Past, Searching, HasScratch, HasBuffer
<1>1. TypeOK
  <2>1. req \in [Conns -> Requests] BY DEF Requests, Routes, Bodies
  <2>2. reply \in [Conns -> [kind : Kinds, of : Conns \cup {NoOne}]] BY DEF Kinds
  <2>3. written \in [Scratches \cup Buffers -> Conns \cup {NoOne}] OBVIOUS
  <2>4. sem \in 0 .. ShedSlots /\ shedCount \in Nat /\ arrived \in 0 .. MaxRequests /\ defaults \in Nat
    OBVIOUS
  <2>5. QED BY <2>1, <2>2, <2>3, <2>4 DEF TypeOK, Kinds
<1>2. Startup /\ Where /\ Owned /\ Data /\ Replied /\ Told
  BY DEF Startup, Where, Owned, Data, Replied, Told
<1>3. SlotsHeld
  <2>1. Holders = {} BY DEF Holders
  <2>2. QED BY <2>1, FS_EmptySet DEF SlotsHeld
<1>4. OwnVerdict /\ DefaultsCounted /\ ReadyIsFinal
  BY DEF OwnVerdict, DefaultsCounted, ReadyIsFinal
<1>5. QED BY <1>1, <1>2, <1>3, <1>4 DEF IInv

\* Every step of main and of every goroutine keeps it.
LEMMA NextIInv == IInv /\ [Next]_vars => IInv'
<1> SUFFICES ASSUME IInv, [Next]_vars PROVE IInv' OBVIOUS
<1> USE DEF IInv
<1>1. TypeOK' /\ Startup' /\ Where' BY NextTypeOK, NextStartup, NextWhere
<1>2. Owned' /\ Data' /\ Replied' /\ Told' BY NextOwned, NextData, NextReplied, NextTold
<1>3. SlotsHeld' /\ OwnVerdict' BY NextSlotsHeld, NextOwnVerdict
<1>4. DefaultsCounted' /\ ReadyIsFinal' BY NextDefaults, NextReadyIsFinal
<1>5. QED BY <1>1, <1>2, <1>3, <1>4

\* What all the goroutines and main keep together.
THEOREM Invariant == Spec => []IInv
BY InitIInv, NextIInv, PTL DEF Spec

\* Every variable keeps its type; of sem, that it stays between 0 and
\* SHED_SLOTS, so that neither end of the channel ever blocks a goroutine.
THEOREM TypeCorrect == Spec => []TypeOK
<1>1. IInv => TypeOK BY DEF IInv
<1>2. QED BY <1>1, Invariant, PTL

\* On every way out of fraudScoreRaw the slot that was taken is given back.
THEOREM SlotsNeverLeak == Spec => []SlotsHeld
<1>1. IInv => SlotsHeld BY DEF IInv
<1>2. QED BY <1>1, Invariant, PTL

\* Pooled scratches and body buffers never carry one request's data into the
\* verdict of another, whatever the interleaving.
THEOREM VerdictsAreOwn == Spec => []OwnVerdict
<1>1. IInv => OwnVerdict BY DEF IInv
<1>2. QED BY <1>1, Invariant, PTL

\* With an index file, a good body is approved without a search only when it
\* is shed, and then it is counted.
THEOREM NoSilentDefault == Spec => []DefaultsCounted
<1>1. IInv => DefaultsCounted BY DEF IInv
<1>2. QED BY <1>1, Invariant, PTL

\* Nobody who knows of readiness is refused for want of it.
THEOREM ReadinessIsFinal == Spec => []ReadyIsFinal
<1>1. IInv => ReadyIsFinal BY DEF IInv
<1>2. QED BY <1>1, Invariant, PTL
-----------------------------------------------------------------------------
(* The refinement: every step is one of the service's, or none.            *)

Phase == IF main = "dead" THEN "dead" ELSE IF ~ready THEN "starting"
         ELSE IF idx THEN "scoring" ELSE "stub"
Pending == [c \in Conns |-> IF pc[c] = "idle" THEN [route |-> "none", body |-> "none"] ELSE req[c]]
Shown == [c \in Conns |-> IF pc[c] = "idle" THEN reply[c] ELSE NoReply]

\* The two modules write an answer the same way.
LEMMA SameReplies ==
  /\ Service!NoReply = NoReply
  /\ \A k : Service!Plain(k) = Plain(k)
  /\ \A q : Service!Verdict(q) = Verdict(q)
BY DEF Service!NoReply, Service!Plain, Service!Verdict, Service!NoOne, NoReply, Plain, Verdict, NoOne

\* The two modules count the same way.
LEMMA SameCardinality == \A S : Service!Cardinality(S) = Cardinality(S)
BY DEF Service!Cardinality, Cardinality

\* A request is never the mark of its absence.
LEMMA RequestThere == \A r \in Requests : r # [route |-> "none", body |-> "none"]
BY DEF Requests, Routes, Bodies

\* A step inside a goroutine, before it returns, is none of the service's.
LEMMA Inside ==
  ASSUME TypeOK, NEW c \in Conns, NEW p, pc[c] # "idle", p # "idle",
         pc' = [pc EXCEPT ![c] = p], UNCHANGED <<main, idx, ready, req>>,
         \A d \in Conns \ {c} : reply'[d] = reply[d]
  PROVE  UNCHANGED Service!vars
<1>1. \A d \in Conns : /\ pc'[d] = "idle" <=> pc[d] = "idle"
                       /\ pc[d] = "idle" => reply'[d] = reply[d]
  BY DEF TypeOK
<1>2. Pending' = Pending BY <1>1 DEF Pending
<1>3. Shown' = Shown BY <1>1 DEF Shown
<1>4. Phase' = Phase BY DEF Phase
<1>5. QED BY <1>2, <1>3, <1>4, SameReplies DEF Service!vars, Pending, Shown, Phase, NoReply

\* Returning an allowed answer is the service's Answer.
LEMMA Answers ==
  ASSUME TypeOK, Where, NEW c \in Conns, NEW r \in Service!Allowed(c), pc[c] # "idle",
         pc' = [pc EXCEPT ![c] = "idle"], reply' = [reply EXCEPT ![c] = r],
         UNCHANGED <<main, idx, ready, req>>
  PROVE  Service!Answer(c)
<1>1. Pending[c] # [route |-> "none", body |-> "none"] /\ main # "dead"
  BY RequestThere DEF TypeOK, Pending, Where
<1>2. Pending' = [Pending EXCEPT ![c] = [route |-> "none", body |-> "none"]]
  BY DEF TypeOK, Pending
<1>3. Shown' = [Shown EXCEPT ![c] = r] BY DEF TypeOK, Shown
<1>4. Phase' = Phase /\ Phase # "dead" BY <1>1 DEF Phase
<1>5. QED BY <1>1, <1>2, <1>3, <1>4
  DEF Service!Answer, Service!NoRequest, Pending, Shown, Phase, NoReply

\* What the service allows, in terms of the replica.
LEMMA AllowedAnswers ==
  ASSUME TypeOK, NEW c \in Conns, pc[c] # "idle", main # "dead"
  PROVE  /\ req[c].route = "other" => Plain("other") \in Service!Allowed(c)
         /\ req[c].route = "ready" =>
              Plain(IF ready THEN "ready" ELSE "notReady") \in Service!Allowed(c)
         /\ req[c].route = "http" => Plain("refused") \in Service!Allowed(c)
         /\ req[c].route \in {"fraud", "http"} =>
              /\ ~ready => Plain("notReady") \in Service!Allowed(c)
              /\ ready /\ ~idx => Plain("default") \in Service!Allowed(c)
              /\ ready /\ idx /\ (req[c].body # "panic" \/ req[c].route = "http")
                 => Scored(c) \in Service!Allowed(c)
         /\ /\ req[c].route = "fraud" /\ ready /\ idx
            /\ Cardinality(Service!Others(c)) >= ShedSlots
            => Plain("default") \in Service!Allowed(c)
<1>1. /\ Pending[c] = req[c] /\ req[c].route \in Routes /\ req[c].body \in Bodies
      /\ req[c] = [route |-> req[c].route, body |-> req[c].body]
  BY DEF Pending, TypeOK, Requests
<1>2. /\ ready => Phase = IF idx THEN "scoring" ELSE "stub"
      /\ ~ready => Phase = "starting"
  BY DEF Phase
<1>3. QED BY <1>1, <1>2, SameReplies, SameCardinality
  DEF Service!Allowed, Service!Scored, Service!Refused, Service!Shed, Scored, Pending, Phase, Routes, Bodies

\* At the select with no slot left, SHED_SLOTS other requests are in flight.
LEMMA OthersInFlight ==
  ASSUME TypeOK, SlotsHeld, NEW c \in Conns, pc[c] = "slot", sem = ShedSlots
  PROVE  Cardinality(Service!Others(c)) >= ShedSlots
<1>1. Holders \subseteq Service!Others(c)
  BY DEF Holders, Searching, Service!Others
<1>2. Service!Others(c) \subseteq Conns BY DEF Service!Others
<1>3. IsFiniteSet(Service!Others(c)) BY <1>2, FS_Subset, ApiServerAssumption
<1>4. Cardinality(Holders) <= Cardinality(Service!Others(c)) BY <1>1, <1>3, FS_Subset
<1>5. Cardinality(Service!Others(c)) \in Nat BY <1>3, FS_CardinalityType
<1>6. QED BY <1>4, <1>5, ApiServerAssumption DEF SlotsHeld

\* The end of the process is that of the service.
LEMMA Exits ==
  ASSUME Exit PROVE Service!End
<1>1. Phase' = "dead" BY DEF Exit, Phase
<1>2. Pending' = [c \in Conns |-> [route |-> "none", body |-> "none"]] BY DEF Exit, Pending
<1>3. Shown' = Shown BY DEF Exit, Shown
<1>4. QED BY <1>1, <1>2, <1>3, SameReplies
  DEF Service!End, Service!NoRequest, Pending, Shown, Phase, NoReply

\* The replica starts where the service does.
LEMMA ServiceInit == Init => Service!Init
BY DEF Init, Service!Init, Service!NoRequest, Service!NoReply, Service!Plain, Service!NoOne,
   NoReply, Plain, NoOne

\* Every step of the replica is a step of the service, or none of its business.
LEMMA ServiceNext == IInv /\ [Next]_vars => [Service!Next]_(Service!vars)
<1> SUFFICES ASSUME IInv, [Next]_vars PROVE Service!Next \/ UNCHANGED Service!vars OBVIOUS
<1> USE DEF IInv, Goto, Set, startup, shared, locals, history
<1>0. \A c \in Conns : Service!Answer(c) => Service!Next BY DEF Service!Next
<1>1. CASE StartStub
  <2>1. Pending' = Pending /\ Shown' = Shown BY <1>1 DEF StartStub, Pending, Shown
  <2>2. Phase = "starting" /\ Phase' \in {"stub", "scoring"} BY <1>1 DEF StartStub, Startup, Phase
  <2>3. QED BY <2>1, <2>2 DEF Service!Next, Service!Open, Pending, Shown, Phase, NoReply
<1>2. CASE Load
  BY <1>2, SameReplies DEF Load, Startup, Service!vars
<1>3. CASE LoadFails
  <2>1. Phase = "starting" BY <1>3 DEF LoadFails, Startup, Phase
  <2>2. QED BY <1>3, <2>1, Exits DEF LoadFails, Service!Next, Service!Die, Phase
<1>4. CASE SetIndex
  <2>1. Pending' = Pending /\ Shown' = Shown BY <1>4 DEF SetIndex, Pending, Shown
  <2>2. \/ Phase' = Phase
        \/ Phase = "starting" /\ Phase' \in {"stub", "scoring"}
    BY <1>4 DEF SetIndex, Startup, Phase
  <2>3. QED BY <2>1, <2>2 DEF Service!Next, Service!Open, Service!vars, Pending, Shown, Phase, NoReply
<1>5. ASSUME NEW c \in Conns, Arrive(c) PROVE Service!Next
  <2>1. PICK r \in Requests : /\ req' = [req EXCEPT ![c] = r]
                              /\ pc' = [pc EXCEPT ![c] = Entry(r.route)]
    BY <1>5 DEF Arrive
  <2>2. Entry(r.route) # "idle" BY DEF Entry, Requests, Routes, Bodies
  <2>3. Pending' = [Pending EXCEPT ![c] = r] BY <1>5, <2>1, <2>2 DEF Arrive, Pending, TypeOK
  <2>4. Shown' = [Shown EXCEPT ![c] = NoReply] BY <1>5, <2>1, <2>2 DEF Arrive, Shown, TypeOK
  <2>5. Phase' = Phase /\ Phase # "dead" BY <1>5 DEF Arrive, Phase
  <2>6. Pending[c] = [route |-> "none", body |-> "none"] BY <1>5 DEF Arrive, Pending
  <2>7. r \in Service!Requests BY DEF Requests, Routes, Bodies, Service!Requests, Bodies, Service!Routes, Service!Bodies
  <2>8. Service!Receive(c) BY <2>3, <2>4, <2>5, <2>6, <2>7, SameReplies
    DEF Service!Receive, Service!NoRequest, Pending, Shown, Phase
  <2>9. QED BY <2>8 DEF Service!Next
<1>6. ASSUME NEW c \in Conns, Probe(c) PROVE Service!Next
  BY <1>0, <1>6, Answers, AllowedAnswers DEF Probe, Return, Where
<1>7. ASSUME NEW c \in Conns, Other(c) PROVE Service!Next
  BY <1>0, <1>7, Answers, AllowedAnswers DEF Other, Return, Where
<1>8. ASSUME NEW c \in Conns, Method(c) PROVE Service!Next \/ UNCHANGED Service!vars
  <2>1. CASE Return(c, Plain("refused"))
    BY <1>0, <1>8, <2>1, Answers, AllowedAnswers DEF Method, Return, Where
  <2>2. CASE Goto(c, "ready?") /\ UNCHANGED <<reply, history>>
    BY <1>8, <2>2, Inside DEF Method
  <2>3. QED BY <1>8, <2>1, <2>2 DEF Method
<1>9. ASSUME NEW c \in Conns, LoadReady(c) PROVE Service!Next \/ UNCHANGED Service!vars
  <2>1. CASE ~ready /\ Return(c, Plain("notReady"))
    BY <1>0, <1>9, <2>1, Answers, AllowedAnswers DEF LoadReady, Return, Where
  <2>2. CASE /\ Goto(c, IF req[c].route = "http" THEN "getBody" ELSE "idx?")
             /\ UNCHANGED <<reply, history>>
    BY <1>9, <2>2, Inside DEF LoadReady
  <2>3. QED BY <1>9, <2>1, <2>2 DEF LoadReady
<1>10. ASSUME NEW c \in Conns, GetBody(c) PROVE UNCHANGED Service!vars
  BY <1>10, Inside DEF GetBody
<1>11. ASSUME NEW c \in Conns, ReadBody(c) PROVE UNCHANGED Service!vars
  BY <1>11, Inside DEF ReadBody, TypeOK
<1>12. ASSUME NEW c \in Conns, LoadIdx(c) PROVE Service!Next \/ UNCHANGED Service!vars
  <2>1. CASE ~idx /\ Return(c, Plain("default"))
    BY <1>0, <1>12, <2>1, Answers, AllowedAnswers DEF LoadIdx, Return, Where, Past
  <2>2. CASE /\ Goto(c, IF req[c].route = "http" THEN "vectorize" ELSE "slot")
             /\ UNCHANGED <<reply, history>>
    BY <1>12, <2>2, Inside DEF LoadIdx
  <2>3. CASE Goto(c, "putBody") /\ reply' = Set(reply, c, Plain("default"))
    BY <1>12, <2>3, Inside DEF LoadIdx, TypeOK
  <2>4. QED BY <1>12, <2>1, <2>2, <2>3 DEF LoadIdx
<1>13. ASSUME NEW c \in Conns, Acquire(c) PROVE UNCHANGED Service!vars
  BY <1>13, Inside DEF Acquire
<1>14. ASSUME NEW c \in Conns, Shed(c) PROVE Service!Next
  <2>1. Plain("default") \in Service!Allowed(c)
    BY <1>14, OthersInFlight, AllowedAnswers DEF Shed, Where, Past, Searching
  <2>2. QED BY <1>0, <1>14, <2>1, Answers DEF Shed, Return
<1>15. ASSUME NEW c \in Conns, Vectorize(c) PROVE UNCHANGED Service!vars
  <2>1. PICK p \in {"get", "putBody", "release"} : pc' = [pc EXCEPT ![c] = p]
    BY <1>15 DEF Vectorize, Vectorized, GivesUp, Unwind
  <2>2. /\ pc[c] # "idle" /\ p # "idle" /\ UNCHANGED <<main, idx, ready, req>>
        /\ \A d \in Conns \ {c} : reply'[d] = reply[d]
    BY <1>15, <2>1 DEF Vectorize, Vectorized, GivesUp, TypeOK
  <2>3. QED BY <2>1, <2>2, Inside
<1>16. ASSUME NEW c \in Conns, GetScratch(c) PROVE UNCHANGED Service!vars
  BY <1>16, Inside DEF GetScratch
<1>17. ASSUME NEW c \in Conns, Scan(c) PROVE UNCHANGED Service!vars
  BY <1>17, Inside DEF Scan
<1>18. ASSUME NEW c \in Conns, Count(c) PROVE UNCHANGED Service!vars
  BY <1>18, Inside DEF Count, TypeOK
<1>19. ASSUME NEW c \in Conns, PutScratch(c) PROVE UNCHANGED Service!vars
  BY <1>19, Inside DEF PutScratch, Unwind
<1>20. ASSUME NEW c \in Conns, Release(c) PROVE Service!Next \/ UNCHANGED Service!vars
  <2>1. CASE reply[c].kind # "dropped" /\ Return(c, reply[c])
    <3>1. req[c].body # "panic"
      BY <1>20, <2>1, ReplyFacts DEF Release, Replied, Scored, Kinds
    <3>2. reply[c] \in Service!Allowed(c)
      BY <1>20, <3>1, AllowedAnswers DEF Release, Where, Past, Replied, Searching
    <3> QED BY <1>0, <1>20, <2>1, <3>2, Answers DEF Release, Return
  <2>2. CASE Goto(c, "panic") /\ UNCHANGED <<reply, history>>
    BY <1>20, <2>2, Inside DEF Release
  <2>3. QED BY <1>20, <2>1, <2>2 DEF Release
<1>23. ASSUME NEW c \in Conns, Panic(c) PROVE Service!Next
  <2>1. Phase = "scoring" BY <1>23 DEF Panic, Where, Past, Phase
  <2>2. Pending[c] = [route |-> "fraud", body |-> "panic"]
    BY <1>23 DEF Panic, Where, Replied, Pending, TypeOK, Requests
  <2>3. Service!Crash(c) BY <1>23, <2>1, <2>2, Exits DEF Panic, Service!Crash, Pending, Phase
  <2>4. QED BY <2>3 DEF Service!Next
<1>21. ASSUME NEW c \in Conns, PutBody(c) PROVE Service!Next
  <2>1. reply[c] \in Service!Allowed(c)
    BY <1>21, AllowedAnswers DEF PutBody, Where, Past, Replied
  <2>2. QED BY <1>0, <1>21, <2>1, Answers DEF PutBody, Return
<1>22. CASE UNCHANGED vars
  BY <1>22 DEF vars, Service!vars
<1> QED BY <1>1, <1>2, <1>3, <1>4, <1>5, <1>6, <1>7, <1>8, <1>9, <1>10, <1>11, <1>12, <1>13, <1>14,
      <1>15, <1>16, <1>17, <1>18, <1>19, <1>20, <1>21, <1>22, <1>23
  DEF Next, Main, Serve

\* The replica implements the service: "not ready" only before it is, every
\* verdict the request's own, and the default answer only where it is allowed.
THEOREM ImplementsService == Spec => Service!Spec
BY Invariant, ServiceInit, ServiceNext, PTL DEF Spec, Service!Spec
=============================================================================
