--------------------------- MODULE ConnectionProofs ---------------------------
(***************************************************************************)
(* Proofs about Connection, for every engine, number of tasks, budget and  *)
(* deviation.  The inductive invariant is IInv: the types, what holds of a *)
(* connection in hand as well as of one that is kept (BudgetKept), and the *)
(* ledger of the counters with the requests that are sent and not yet      *)
(* answered (Ledger).                                                      *)
(***************************************************************************)
EXTENDS Connection, FiniteSetTheorems, TLAPS

PCs == {"idle", "connect", "handshake", "request", "answer"}

Busy      == {t \in Tasks : pc[t] # "idle"}
Answering == {t \in Tasks : pc[t] = "answer"}

NBusy      == Cardinality(Busy)
NAnswering == Cardinality(Answering)

Settled == stat["errors"] + stat["timeouts"] +
           (IF engine = "udp" THEN stat["requests"] ELSE stat["responses"])

\* A connection never carries more than the budget drawn last, whether it is
\* kept or in hand, and a task holds at most one.
Within(c, t) ==
  c # None => /\ c.served + left[t] <= drawn[t]
              /\ engine = "udp" => c.served + left[t] = drawn[t]

BudgetKept ==
  \A t \in Tasks :
    /\ left[t] <= drawn[t]
    /\ Within(stream[t], t)
    /\ Within(sock[t], t)
    /\ pc[t] # "idle" => stream[t] = None
    /\ stream[t] # None => left[t] > 0 /\ stream[t].served > 0

\* The counters, with the requests that wait for their answers.
Ledger ==
  /\ started = Settled + NBusy
  /\ stat["ok"] + stat["bad"] <= stat["responses"]
  /\ stat["responses"] + NAnswering <= stat["requests"]
  /\ stat["requests"] <= Settled + NAnswering
  /\ engine = "udp" => stat["timeouts"] = 0

IInv == TypeOK /\ BudgetKept /\ CleanReuse /\ Ledger

------------------------------------------------------------------------------
\* Budgets are natural numbers (RequestsPerSocket, RequestsPerConn).
LEMMA DrawsNat == Draws \subseteq Nat /\ RequestsPerSocket \subseteq Nat /\ RequestsPerConn \subseteq Nat
<1>1. RequestsPerSocket \subseteq Nat /\ RequestsPerConn \subseteq Nat
  BY BudgetAssumption DEF RequestsPerSocket, RequestsPerConn
<1> QED
  BY <1>1, BudgetAssumption DEF Draws

\* A connection is not None (Option<TcpStream>).
LEMMA ConnNotNone == None \notin Conns /\ Fresh \in Conns /\ Fresh.served = 0
<1>1. None \notin Conns
  BY NoneAssumption DEF Conns
<1>2. Fresh \in Conns /\ Fresh.served = 0
  BY DEF Fresh, Conns
<1> QED
  BY <1>1, <1>2

\* What counting does (on_requests, on_response and the others of percpu.rs).
LEMMA BumpEffect ==
  ASSUME TypeOK, NEW S, Bump(S)
  PROVE  /\ stat' \in [Counters -> Nat]
         /\ \A c \in Counters : stat'[c] = stat[c] + (IF c \in S THEN 1 ELSE 0)
BY DEF TypeOK, Bump

\* Task t has moved to x.
Moved(t, x) == pc' = [pc EXCEPT ![t] = x]

\* How many tasks are busy, and how many wait for an answer, after one of them
\* has moved.
LEMMA Moves ==
  ASSUME TypeOK, NEW t \in Tasks, NEW x \in PCs, Moved(t, x)
  PROVE  /\ NBusy \in Nat
         /\ NBusy' = NBusy
              + (IF x = "idle" THEN 0 ELSE 1) - (IF pc[t] = "idle" THEN 0 ELSE 1)
         /\ NAnswering \in Nat
         /\ NAnswering' = NAnswering
              + (IF x = "answer" THEN 1 ELSE 0) - (IF pc[t] = "answer" THEN 1 ELSE 0)
<1>1. IsFiniteSet(Busy) /\ IsFiniteSet(Answering)
  BY TasksAssumption, FS_Subset DEF Busy, Answering
<1>2. Cardinality(Busy) \in Nat /\ Cardinality(Answering) \in Nat
  BY <1>1, FS_CardinalityType
<1>3. pc \in [Tasks -> PCs]
  BY DEF TypeOK, PCs
<1>4. Cardinality(Busy)' = Cardinality(Busy)
              + (IF x = "idle" THEN 0 ELSE 1) - (IF pc[t] = "idle" THEN 0 ELSE 1)
  <2>1. CASE x = "idle"
    <3>1. Busy' = Busy \ {t}
      BY <1>3, <2>1 DEF Busy, Moved
    <3>2. t \in Busy <=> pc[t] # "idle"
      BY DEF Busy
    <3>3. Cardinality(Busy \ {t}) = IF t \in Busy THEN Cardinality(Busy) - 1 ELSE Cardinality(Busy)
      BY <1>1, FS_RemoveElement
    <3> QED
      BY <1>2, <2>1, <3>1, <3>2, <3>3
  <2>2. CASE x # "idle"
    <3>1. Busy' = Busy \cup {t}
      BY <1>3, <2>2 DEF Busy, Moved
    <3>2. t \in Busy <=> pc[t] # "idle"
      BY DEF Busy
    <3>3. Cardinality(Busy \cup {t}) = IF t \in Busy THEN Cardinality(Busy) ELSE Cardinality(Busy) + 1
      BY <1>1, FS_AddElement
    <3> QED
      BY <1>2, <2>2, <3>1, <3>2, <3>3
  <2> QED
    BY <2>1, <2>2
<1>5. Cardinality(Answering)' = Cardinality(Answering)
              + (IF x = "answer" THEN 1 ELSE 0) - (IF pc[t] = "answer" THEN 1 ELSE 0)
  <2>1. CASE x # "answer"
    <3>1. Answering' = Answering \ {t}
      BY <1>3, <2>1 DEF Answering, Moved
    <3>2. t \in Answering <=> pc[t] = "answer"
      BY DEF Answering
    <3>3. Cardinality(Answering \ {t}) = IF t \in Answering THEN Cardinality(Answering) - 1 ELSE Cardinality(Answering)
      BY <1>1, FS_RemoveElement
    <3> QED
      BY <1>2, <2>1, <3>1, <3>2, <3>3
  <2>2. CASE x = "answer"
    <3>1. Answering' = Answering \cup {t}
      BY <1>3, <2>2 DEF Answering, Moved
    <3>2. t \in Answering <=> pc[t] = "answer"
      BY DEF Answering
    <3>3. Cardinality(Answering \cup {t}) = IF t \in Answering THEN Cardinality(Answering) ELSE Cardinality(Answering) + 1
      BY <1>1, FS_AddElement
    <3> QED
      BY <1>2, <2>2, <3>1, <3>2, <3>3
  <2> QED
    BY <2>1, <2>2
<1> QED
  BY <1>2, <1>4, <1>5 DEF NBusy, NAnswering

\* What the end of an answered request does to the connection and the budget
\* (the last lines of do_execute).
LEMMA SpendEffect ==
  ASSUME TypeOK, NEW t \in Tasks, NEW conn \in Conns, Spend(t, conn)
  PROVE  /\ stream' \in [Tasks -> Conns \cup {None}]
         /\ left' \in [Tasks -> Nat]
         /\ drawn' \in [Tasks -> Nat]
         /\ \A u \in Tasks : u # t => /\ stream'[u] = stream[u]
                                     /\ left'[u] = left[u]
                                     /\ drawn'[u] = drawn[u]
         /\ \/ /\ left[t] > 1
               /\ left'[t] = left[t] - 1
               /\ drawn'[t] = drawn[t]
               /\ stream'[t] = conn
            \/ /\ drawn'[t] = left'[t]
               /\ stream'[t] = stream[t]
<1> DEFINE l == IF left[t] > 0 THEN left[t] - 1 ELSE 0
<1>1. l \in Nat /\ left[t] \in Nat
  BY DEF TypeOK
<1>2. CASE l > 0
  <2>1. /\ stream' = [stream EXCEPT ![t] = conn]
        /\ left' = [left EXCEPT ![t] = l]
        /\ drawn' = drawn
    BY <1>2 DEF Spend
  <2> QED
    BY <1>1, <1>2, <2>1 DEF TypeOK
<1>3. CASE ~(l > 0)
  <2>1. PICK d \in Draws : left' = [left EXCEPT ![t] = d]
    BY <1>3 DEF Spend
  <2>2. drawn' = [drawn EXCEPT ![t] = left'[t]] /\ stream' = stream
    BY <1>3 DEF Spend
  <2>3. d \in Nat
    BY DrawsNat
  <2> QED
    BY <2>1, <2>2, <2>3 DEF TypeOK
<1> QED
  BY <1>2, <1>3

------------------------------------------------------------------------------
\* The tasks of a thread when they are made (CoroWorker::new, Worker::new).
LEMMA InitInv == Init => IInv
<1> SUFFICES ASSUME Init PROVE IInv
  OBVIOUS
<1>1. left \in [Tasks -> Nat] /\ drawn = left
  BY DrawsNat, BudgetAssumption DEF Init, NewHttp, NewRaw, NewHttp3, NewUdp
<1>2. TypeOK
  BY <1>1 DEF Init, TypeOK
<1>3. BudgetKept
  BY <1>1 DEF Init, BudgetKept, Within
<1>4. CleanReuse
  BY DEF Init, CleanReuse
<1>5. Ledger
  <2>1. Busy = {} /\ Answering = {}
    BY DEF Init, Busy, Answering
  <2>2. NBusy = 0 /\ NAnswering = 0
    BY <2>1, FS_EmptySet DEF NBusy, NAnswering
  <2>3. \A c \in Counters : stat[c] = 0
    BY DEF Init
  <2>4. /\ stat["errors"] = 0 /\ stat["timeouts"] = 0 /\ stat["requests"] = 0
        /\ stat["responses"] = 0 /\ stat["ok"] = 0 /\ stat["bad"] = 0
    BY <2>3 DEF Counters
  <2> QED
    BY <2>2, <2>4 DEF Init, Ledger, Settled
<1> QED
  BY <1>2, <1>3, <1>4, <1>5 DEF IInv

\* An answered request ends with its connection counted one request further
\* (do_execute).
LEMMA AnsweredEffect ==
  ASSUME TypeOK, NEW t \in Tasks, NEW leftovers \in SUBSET BOOLEAN, Answered(t, leftovers)
  PROVE  \E owed \in leftovers, code \in {{"ok"}, {"bad"}, {}} :
           LET conn == [served |-> sock[t].served + 1, owed |-> owed] IN
             /\ sock[t] \in Conns
             /\ conn \in Conns
             /\ Bump({"responses"} \cup code)
             /\ Spend(t, conn)
<1>1. pc[t] = "answer"
  BY DEF Answered
<1>2. sock[t] # None /\ sock[t] \in Conns \cup {None}
  BY <1>1 DEF TypeOK
<1>3. sock[t] \in Conns /\ sock[t].served + 1 \in Nat
  BY <1>2 DEF Conns
<1>4. PICK owed \in leftovers, code \in {{"ok"}, {"bad"}, {}} :
        /\ Bump({"responses"} \cup code)
        /\ Spend(t, [served |-> sock[t].served + 1, owed |-> owed])
  BY DEF Answered
<1>5. [served |-> sock[t].served + 1, owed |-> owed] \in Conns
  BY <1>3 DEF Conns
<1> QED
  BY <1>3, <1>4, <1>5

\* The three ways a request is answered are one for what follows.
Answer(t) == AnswerHttp(t) \/ AnswerRaw(t) \/ AnswerHttp3(t)
Reconnect(t) == ReconnectHttp(t) \/ ReconnectRaw(t) \/ ReconnectHttp3(t)
Request(t) == RequestHttp(t) \/ RequestRaw(t) \/ RequestHttp3(t)

\* Types, and that a task has a connection in hand exactly while it uses one.
LEMMA TypeStep ==
  ASSUME TypeOK, [Next]_vars
  PROVE  TypeOK'
<1>1. CASE UNCHANGED vars
  BY <1>1 DEF TypeOK, vars
<1>2. ASSUME NEW t \in Tasks, Execute(t)
      PROVE  TypeOK'
  <2>1. \A u \in Tasks : (sock'[u] = None) <=> (pc'[u] \in {"idle", "connect"})
    BY <1>2 DEF TypeOK, Execute
  <2> QED
    BY <1>2, <2>1 DEF TypeOK, Execute
<1>3. ASSUME NEW t \in Tasks, NEW then \in {"handshake", "request"}, Created(t, then),
             left' \in [Tasks -> Nat], drawn' \in [Tasks -> Nat]
      PROVE  TypeOK'
  <2>1. Fresh \in Conns /\ Fresh # None
    BY ConnNotNone
  <2>2. stat' \in [Counters -> Nat]
    BY <1>3, BumpEffect DEF Created
  <2>3. sock' = [sock EXCEPT ![t] = Fresh] /\ pc' = [pc EXCEPT ![t] = then]
    BY <1>3 DEF Created
  <2>4. \A u \in Tasks : (sock'[u] = None) <=> (pc'[u] \in {"idle", "connect"})
    BY <1>3, <2>1, <2>3 DEF TypeOK
  <2> QED
    BY <1>3, <2>1, <2>2, <2>3, <2>4 DEF TypeOK, Created
<1>4. ASSUME NEW t \in Tasks, Handshaken(t)
      PROVE  TypeOK'
  BY <1>4 DEF TypeOK, Handshaken
<1>5. ASSUME NEW t \in Tasks, Sent(t)
      PROVE  TypeOK'
  <2>1. sock[t] \in Conns /\ pc[t] = "request"
    BY <1>5 DEF TypeOK, Sent
  <2>2. sock' = [sock EXCEPT ![t] = [sock[t] EXCEPT !.owed = TRUE]]
    BY <1>5 DEF Sent
  <2>3. [sock[t] EXCEPT !.owed = TRUE] \in Conns
    BY <2>1 DEF Conns
  <2>4. stat' \in [Counters -> Nat]
    BY <1>5, BumpEffect DEF Sent
  <2>5. \A u \in Tasks : (sock'[u] = None) <=> (pc'[u] \in {"idle", "connect"})
    BY <1>5, <2>2, <2>3, NoneAssumption DEF TypeOK, Sent, Conns
  <2> QED
    BY <1>5, <2>2, <2>3, <2>4, <2>5 DEF TypeOK, Sent
<1>6. ASSUME NEW t \in Tasks, Answer(t)
      PROVE  TypeOK'
  <2>1. PICK leftovers \in SUBSET BOOLEAN : Answered(t, leftovers)
    BY <1>6 DEF Answer, AnswerHttp, AnswerRaw, AnswerHttp3
  <2>2. /\ stream' \in [Tasks -> Conns \cup {None}]
        /\ left' \in [Tasks -> Nat] /\ drawn' \in [Tasks -> Nat]
        /\ stat' \in [Counters -> Nat]
    <3>1. PICK conn \in Conns, code \in {{"ok"}, {"bad"}, {}} :
            Bump({"responses"} \cup code) /\ Spend(t, conn)
      BY <2>1, AnsweredEffect
    <3> QED
      BY <3>1, SpendEffect, BumpEffect
  <2>3. /\ sock' = [sock EXCEPT ![t] = None] /\ pc' = [pc EXCEPT ![t] = "idle"]
        /\ UNCHANGED <<engine, started>>
    BY <2>1 DEF Answered
  <2> QED
    BY <2>2, <2>3 DEF TypeOK
<1>7. ASSUME NEW t \in Tasks, SentDatagram(t)
      PROVE  TypeOK'
  <2>1. sock[t] \in Conns
    BY <1>7 DEF TypeOK, SentDatagram
  <2>2. [Fresh EXCEPT !.served = sock[t].served + 1] \in Conns
    <3>1. sock[t].served + 1 \in Nat
      BY <2>1 DEF Conns
    <3> QED
      BY <3>1 DEF Fresh, Conns
  <2>3. stat' \in [Counters -> Nat]
    BY <1>7, BumpEffect DEF SentDatagram
  <2>4. stream' \in [Tasks -> Conns \cup {None}] /\ left' \in [Tasks -> Nat]
    BY <1>7, <2>2 DEF TypeOK, SentDatagram
  <2>5. /\ sock' = [sock EXCEPT ![t] = None] /\ pc' = [pc EXCEPT ![t] = "idle"]
        /\ UNCHANGED <<engine, started, drawn>>
    BY <1>7 DEF SentDatagram
  <2> QED
    BY <2>3, <2>4, <2>5 DEF TypeOK
<1>8. ASSUME NEW t \in Tasks, Failed(t) \/ Timeout(t)
      PROVE  TypeOK'
  <2>1. stat' \in [Counters -> Nat]
    BY <1>8, BumpEffect DEF Failed, Timeout
  <2>2. /\ sock' = [sock EXCEPT ![t] = None] /\ pc' = [pc EXCEPT ![t] = "idle"]
        /\ UNCHANGED <<engine, stream, left, started, drawn>>
    BY <1>8 DEF Failed, Timeout
  <2> QED
    BY <2>1, <2>2 DEF TypeOK
<1>9. ASSUME NEW t \in Tasks, Reconnect(t)
      PROVE  TypeOK'
  BY <1>3, <1>9 DEF Reconnect, ReconnectHttp, ReconnectRaw, ReconnectHttp3, TypeOK
<1>10. ASSUME NEW t \in Tasks, CurrSock(t)
       PROVE  TypeOK'
  <2>1. left' \in [Tasks -> Nat] /\ drawn' \in [Tasks -> Nat]
    BY <1>10, BudgetAssumption DEF CurrSock, TypeOK
  <2> QED
    BY <1>3, <1>10, <2>1 DEF CurrSock
<1>11. ASSUME NEW t \in Tasks, Request(t)
       PROVE  TypeOK'
  BY <1>5, <1>11 DEF Request, RequestHttp, RequestRaw, RequestHttp3
<1> QED
  BY <1>1, <1>2, <1>4, <1>6, <1>7, <1>8, <1>9, <1>10, <1>11
     DEF Next, Reconnect, Request, Answer

\* A connection keeps to the budget drawn last: a request that is answered
\* moves one from what is left to what was served, and a new budget is drawn
\* only when the connection goes.
LEMMA BudgetStep ==
  ASSUME TypeOK, BudgetKept, [Next]_vars
  PROVE  BudgetKept'
<1>1. CASE UNCHANGED vars
  BY <1>1 DEF BudgetKept, Within, vars
<1>2. ASSUME NEW t \in Tasks, Execute(t)
      PROVE  BudgetKept'
  BY <1>2 DEF TypeOK, BudgetKept, Within, Execute
<1>3. ASSUME NEW t \in Tasks, Reconnect(t)
      PROVE  BudgetKept'
  <2>1. /\ pc[t] = "connect" /\ \E then \in {"handshake", "request"} : pc' = [pc EXCEPT ![t] = then]
        /\ sock' = [sock EXCEPT ![t] = Fresh]
        /\ UNCHANGED <<engine, stream, left, drawn>>
        /\ engine # "udp"
    BY <1>3 DEF Reconnect, ReconnectHttp, ReconnectRaw, ReconnectHttp3, Created
  <2>2. ASSUME NEW u \in Tasks
        PROVE  /\ left[u] <= drawn[u] /\ Within(stream[u], u) /\ Within(sock[u], u)'
               /\ pc'[u] # "idle" => stream[u] = None
               /\ stream[u] # None => left[u] > 0 /\ stream[u].served > 0
    <3>1. CASE u = t
      BY <2>1, <3>1, ConnNotNone DEF TypeOK, BudgetKept, Within
    <3>2. CASE u # t
      BY <2>1, <3>2 DEF TypeOK, BudgetKept, Within
    <3> QED
      BY <3>1, <3>2
  <2> QED
    BY <2>1, <2>2 DEF BudgetKept, Within
<1>4. ASSUME NEW t \in Tasks, CurrSock(t)
      PROVE  BudgetKept'
  <2>1. /\ pc[t] = "connect" /\ pc' = [pc EXCEPT ![t] = "request"]
        /\ sock' = [sock EXCEPT ![t] = Fresh]
        /\ left' = [left EXCEPT ![t] = Budget]
        /\ drawn' = [drawn EXCEPT ![t] = Budget]
        /\ UNCHANGED <<engine, stream>>
    BY <1>4 DEF CurrSock, Created
  <2>2. stream[t] = None
    BY <2>1 DEF BudgetKept
  <2> QED
    BY <2>1, <2>2, ConnNotNone, BudgetAssumption DEF TypeOK, BudgetKept, Within
<1>5. ASSUME NEW t \in Tasks, Handshaken(t)
      PROVE  BudgetKept'
  BY <1>5 DEF TypeOK, BudgetKept, Within, Handshaken
<1>6. ASSUME NEW t \in Tasks, Request(t)
      PROVE  BudgetKept'
  <2>1. /\ pc[t] = "request" /\ pc' = [pc EXCEPT ![t] = "answer"]
        /\ sock' = [sock EXCEPT ![t] = [sock[t] EXCEPT !.owed = TRUE]]
        /\ UNCHANGED <<engine, stream, left, drawn>>
    BY <1>6 DEF Request, RequestHttp, RequestRaw, RequestHttp3, Sent
  <2>2. sock[t] \in Conns /\ sock[t] # None
    BY <2>1 DEF TypeOK
  <2>3. sock'[t].served = sock[t].served
    BY <2>1, <2>2 DEF TypeOK, Conns
  <2>4. \A u \in Tasks : u # t => sock'[u] = sock[u] /\ pc'[u] = pc[u]
    BY <2>1 DEF TypeOK
  <2>5. Within(sock[t], t)'
    BY <2>1, <2>2, <2>3 DEF BudgetKept, Within
  <2> QED
    BY <2>1, <2>4, <2>5 DEF BudgetKept, Within
<1>7. ASSUME NEW t \in Tasks, Answer(t)
      PROVE  BudgetKept'
  <2>1. PICK leftovers \in SUBSET BOOLEAN : Answered(t, leftovers) /\ engine # "udp"
    BY <1>7 DEF Answer, AnswerHttp, AnswerRaw, AnswerHttp3
  <2>2. PICK owed \in leftovers :
          LET conn == [served |-> sock[t].served + 1, owed |-> owed] IN
            sock[t] \in Conns /\ conn \in Conns /\ Spend(t, conn)
    BY <2>1, AnsweredEffect
  <2> DEFINE conn == [served |-> sock[t].served + 1, owed |-> owed]
  <2>3. /\ pc[t] = "answer" /\ pc' = [pc EXCEPT ![t] = "idle"]
        /\ sock' = [sock EXCEPT ![t] = None]
        /\ engine' = engine
    BY <2>1 DEF Answered
  <2>4. /\ left' \in [Tasks -> Nat] /\ drawn' \in [Tasks -> Nat]
        /\ \A u \in Tasks : u # t => /\ stream'[u] = stream[u]
                                    /\ left'[u] = left[u]
                                    /\ drawn'[u] = drawn[u]
        /\ \/ /\ left[t] > 1
              /\ left'[t] = left[t] - 1
              /\ drawn'[t] = drawn[t]
              /\ stream'[t] = conn
           \/ /\ drawn'[t] = left'[t]
              /\ stream'[t] = stream[t]
    BY <2>2, SpendEffect
  <2>5. /\ conn.served = sock[t].served + 1 /\ sock[t].served \in Nat
        /\ sock[t].served + left[t] <= drawn[t]
        /\ left[t] \in Nat /\ drawn[t] \in Nat
        /\ stream[t] = None
    BY <2>2, <2>3, ConnNotNone DEF TypeOK, Conns, BudgetKept, Within
  <2>6. ASSUME NEW u \in Tasks
        PROVE  /\ left'[u] <= drawn'[u] /\ Within(stream[u], u)' /\ Within(sock[u], u)'
               /\ pc'[u] # "idle" => stream'[u] = None
               /\ stream'[u] # None => left'[u] > 0 /\ stream'[u].served > 0
    <3>1. CASE u = t
      <4> HIDE DEF conn
      <4>1. sock'[t] = None /\ pc'[t] = "idle"
        BY <2>3 DEF TypeOK
      <4> QED
        BY <2>1, <2>3, <2>4, <2>5, <3>1, <4>1 DEF Within
    <3>2. CASE u # t
      BY <2>3, <2>4, <3>2 DEF TypeOK, BudgetKept, Within
    <3> QED
      BY <3>1, <3>2
  <2> QED
    BY <2>6 DEF BudgetKept
<1>8. ASSUME NEW t \in Tasks, SentDatagram(t)
      PROVE  BudgetKept'
  <2> DEFINE l == IF left[t] > 0 THEN left[t] - 1 ELSE 0
             conn == [Fresh EXCEPT !.served = sock[t].served + 1]
  <2>1. /\ pc[t] = "request" /\ pc' = [pc EXCEPT ![t] = "idle"]
        /\ sock' = [sock EXCEPT ![t] = None]
        /\ left' = [left EXCEPT ![t] = l]
        /\ UNCHANGED <<engine, drawn>>
    BY <1>8 DEF SentDatagram
  <2>2. l \in Nat /\ left'[t] = l
    BY <2>1 DEF TypeOK
  <2>3. stream' = [stream EXCEPT ![t] = IF l > 0 THEN conn ELSE None]
    BY <1>8, <2>2 DEF SentDatagram
  <2>4. /\ sock[t] \in Conns /\ sock[t] # None
    BY <2>1 DEF TypeOK
  <2>5. /\ conn.served = sock[t].served + 1 /\ sock[t].served \in Nat
    BY <2>4 DEF Conns, Fresh
  <2>6. Within(sock[t], t) /\ left[t] <= drawn[t] /\ left[t] \in Nat /\ drawn[t] \in Nat
    BY DEF BudgetKept, TypeOK
  <2>7. ASSUME NEW u \in Tasks
        PROVE  /\ left'[u] <= drawn'[u] /\ Within(stream[u], u)' /\ Within(sock[u], u)'
               /\ pc'[u] # "idle" => stream'[u] = None
               /\ stream'[u] # None => left'[u] > 0 /\ stream'[u].served > 0
    <3>1. CASE u = t
      <4>1. /\ sock'[t] = None /\ pc'[t] = "idle" /\ drawn'[t] = drawn[t]
            /\ stream'[t] = IF l > 0 THEN conn ELSE None
        BY <2>1, <2>3 DEF TypeOK
      <4> HIDE DEF conn
      <4> QED
        BY <2>1, <2>2, <2>4, <2>5, <2>6, <3>1, <4>1 DEF Within
    <3>2. CASE u # t
      BY <2>1, <2>3, <3>2 DEF TypeOK, BudgetKept, Within
    <3> QED
      BY <3>1, <3>2
  <2> QED
    BY <2>7 DEF BudgetKept
<1>9. ASSUME NEW t \in Tasks, Failed(t) \/ Timeout(t)
      PROVE  BudgetKept'
  <2>1. /\ sock' = [sock EXCEPT ![t] = None] /\ pc' = [pc EXCEPT ![t] = "idle"]
        /\ UNCHANGED <<engine, stream, left, drawn>>
    BY <1>9 DEF Failed, Timeout
  <2> QED
    BY <2>1 DEF TypeOK, BudgetKept, Within
<1> QED
  BY <1>1, <1>2, <1>3, <1>4, <1>5, <1>6, <1>7, <1>8, <1>9
     DEF Next, Reconnect, Request, Answer

\* Only an answer read to its end lets an HTTP or HTTP/3 connection be kept.
LEMMA CleanStep ==
  ASSUME TypeOK, CleanReuse, [Next]_vars
  PROVE  CleanReuse'
<1>1. CASE UNCHANGED vars
  BY <1>1 DEF CleanReuse, vars
<1>2. ASSUME NEW t \in Tasks, Execute(t)
      PROVE  CleanReuse'
  BY <1>2 DEF TypeOK, CleanReuse, Execute
<1>3. ASSUME NEW t \in Tasks, Answer(t)
      PROVE  CleanReuse'
  <2> SUFFICES ASSUME engine \in {"http", "http3"}
               PROVE  CleanReuse'
    <3>1. engine' = engine
      BY <1>3 DEF Answer, AnswerHttp, AnswerRaw, AnswerHttp3, Answered
    <3> QED
      BY <3>1 DEF CleanReuse
  <2>1. Answered(t, {FALSE})
    BY <1>3 DEF Answer, AnswerHttp, AnswerRaw, AnswerHttp3
  <2>2. PICK conn \in Conns : Spend(t, conn) /\ ~conn.owed
    <3>1. PICK owed \in {FALSE} :
            LET c == [served |-> sock[t].served + 1, owed |-> owed] IN
              c \in Conns /\ Spend(t, c)
      BY <2>1, AnsweredEffect
    <3> QED
      BY <3>1
  <2> QED
    BY <2>2, SpendEffect DEF CleanReuse
<1>4. ASSUME NEW t \in Tasks, SentDatagram(t)
      PROVE  CleanReuse'
  BY <1>4 DEF SentDatagram, CleanReuse
<1>5. ASSUME NEW t \in Tasks,
             \/ Reconnect(t) \/ CurrSock(t) \/ Handshaken(t) \/ Request(t)
             \/ Failed(t) \/ Timeout(t)
      PROVE  CleanReuse'
  <2>1. UNCHANGED <<engine, stream>>
    BY <1>5 DEF Reconnect, ReconnectHttp, ReconnectRaw, ReconnectHttp3, CurrSock, Created,
                Handshaken, Request, RequestHttp, RequestRaw, RequestHttp3, Sent,
                Failed, Timeout
  <2> QED
    BY <2>1 DEF CleanReuse
<1> QED
  BY <1>1, <1>2, <1>3, <1>4, <1>5 DEF Next, Reconnect, Request, Answer

\* The counters a step raises, by name.
LEMMA BumpByName ==
  ASSUME TypeOK, NEW S, Bump(S)
  PROVE  /\ stat["errors"] \in Nat /\ stat["timeouts"] \in Nat /\ stat["requests"] \in Nat
         /\ stat["responses"] \in Nat /\ stat["ok"] \in Nat /\ stat["bad"] \in Nat
         /\ stat'["errors"] = stat["errors"] + (IF "errors" \in S THEN 1 ELSE 0)
         /\ stat'["timeouts"] = stat["timeouts"] + (IF "timeouts" \in S THEN 1 ELSE 0)
         /\ stat'["requests"] = stat["requests"] + (IF "requests" \in S THEN 1 ELSE 0)
         /\ stat'["responses"] = stat["responses"] + (IF "responses" \in S THEN 1 ELSE 0)
         /\ stat'["ok"] = stat["ok"] + (IF "ok" \in S THEN 1 ELSE 0)
         /\ stat'["bad"] = stat["bad"] + (IF "bad" \in S THEN 1 ELSE 0)
<1>1. \A c \in Counters : stat[c] \in Nat /\ stat'[c] = stat[c] + (IF c \in S THEN 1 ELSE 0)
  BY BumpEffect DEF TypeOK
<1> QED
  BY <1>1 DEF Counters

\* Every step counts a request where it puts it: started, waiting for its
\* answer, or settled.
LEMMA LedgerStep ==
  ASSUME TypeOK, Ledger, [Next]_vars
  PROVE  Ledger'
<1>1. CASE UNCHANGED vars
  <2>1. NBusy' = NBusy /\ NAnswering' = NAnswering /\ Settled' = Settled
    BY <1>1 DEF vars, NBusy, NAnswering, Busy, Answering, Settled
  <2> QED
    BY <1>1, <2>1 DEF vars, Ledger
<1>2. ASSUME NEW t \in Tasks, Execute(t)
      PROVE  Ledger'
  <2>1. PICK x \in {"connect", "request"} : pc' = [pc EXCEPT ![t] = x]
    BY <1>2 DEF Execute
  <2>2. /\ NBusy \in Nat /\ NBusy' = NBusy + 1
        /\ NAnswering \in Nat /\ NAnswering' = NAnswering
    <3>1. pc[t] = "idle" /\ x \in PCs /\ x # "idle" /\ x # "answer"
      BY <1>2 DEF Execute, PCs
    <3>2. Moved(t, x)
      BY <2>1 DEF Moved
    <3> QED
      BY <3>1, <3>2, Moves
  <2>3. stat' = stat /\ engine' = engine /\ started' = started + 1 /\ Settled' = Settled
    BY <1>2 DEF Execute, Settled
  <2>4. Settled \in Nat
    BY DEF TypeOK, Settled, Counters
  <2> QED
    BY <2>2, <2>3, <2>4 DEF Ledger
<1>3. ASSUME NEW t \in Tasks, Handshaken(t)
      PROVE  Ledger'
  <2>1. /\ NBusy \in Nat /\ NBusy' = NBusy
        /\ NAnswering \in Nat /\ NAnswering' = NAnswering
    <3>1. pc[t] = "handshake" /\ Moved(t, "request") /\ "request" \in PCs
      BY <1>3 DEF Handshaken, PCs, Moved
    <3> QED
      BY <3>1, Moves
  <2>2. stat' = stat /\ engine' = engine /\ started' = started /\ Settled' = Settled
    BY <1>3 DEF Handshaken, Settled
  <2> QED
    BY <2>1, <2>2 DEF Ledger
<1>4. ASSUME NEW t \in Tasks, Reconnect(t) \/ CurrSock(t)
      PROVE  Ledger'
  <2>1. PICK x \in {"handshake", "request"} : Created(t, x)
    BY <1>4 DEF Reconnect, ReconnectHttp, ReconnectRaw, ReconnectHttp3, CurrSock
  <2>2. /\ NBusy \in Nat /\ NBusy' = NBusy
        /\ NAnswering \in Nat /\ NAnswering' = NAnswering
    <3>1. /\ pc[t] = "connect" /\ Moved(t, x)
          /\ x \in PCs /\ x # "idle" /\ x # "answer"
      BY <2>1 DEF Created, PCs, Moved
    <3> QED
      BY <3>1, Moves
  <2>3. Bump({"created"}) /\ engine' = engine /\ started' = started
    BY <2>1 DEF Created
  <2> QED
    BY <2>2, <2>3, BumpByName DEF Ledger, Settled
<1>5. ASSUME NEW t \in Tasks, Request(t)
      PROVE  Ledger'
  <2>1. Sent(t) /\ engine # "udp"
    BY <1>5 DEF Request, RequestHttp, RequestRaw, RequestHttp3
  <2>2. /\ NBusy \in Nat /\ NBusy' = NBusy
        /\ NAnswering \in Nat /\ NAnswering' = NAnswering + 1
    <3>1. pc[t] = "request" /\ Moved(t, "answer") /\ "answer" \in PCs
      BY <2>1 DEF Sent, PCs, Moved
    <3> QED
      BY <3>1, Moves
  <2>3. Bump({"requests"}) /\ engine' = engine /\ started' = started
    BY <2>1 DEF Sent
  <2> QED
    BY <2>1, <2>2, <2>3, BumpByName DEF Ledger, Settled
<1>6. ASSUME NEW t \in Tasks, Answer(t)
      PROVE  Ledger'
  <2>1. PICK leftovers \in SUBSET BOOLEAN : Answered(t, leftovers) /\ engine # "udp"
    BY <1>6 DEF Answer, AnswerHttp, AnswerRaw, AnswerHttp3
  <2>2. PICK code \in {{"ok"}, {"bad"}, {}} : Bump({"responses"} \cup code)
    BY <2>1, AnsweredEffect
  <2>3. /\ NBusy \in Nat /\ NBusy' = NBusy - 1
        /\ NAnswering \in Nat /\ NAnswering' = NAnswering - 1
    <3>1. pc[t] = "answer" /\ Moved(t, "idle") /\ "idle" \in PCs
      BY <2>1 DEF Answered, PCs, Moved
    <3> QED
      BY <3>1, Moves
  <2>4. engine' = engine /\ started' = started
    BY <2>1 DEF Answered
  <2> QED
    BY <2>1, <2>2, <2>3, <2>4, BumpByName DEF Ledger, Settled
<1>7. ASSUME NEW t \in Tasks, SentDatagram(t)
      PROVE  Ledger'
  <2>1. /\ NBusy \in Nat /\ NBusy' = NBusy - 1
        /\ NAnswering \in Nat /\ NAnswering' = NAnswering
    <3>1. pc[t] = "request" /\ Moved(t, "idle") /\ "idle" \in PCs
      BY <1>7 DEF SentDatagram, PCs, Moved
    <3> QED
      BY <3>1, Moves
  <2>2. Bump({"requests"}) /\ engine = "udp" /\ engine' = engine /\ started' = started
    BY <1>7 DEF SentDatagram
  <2> QED
    BY <2>1, <2>2, BumpByName DEF Ledger, Settled
<1>8. ASSUME NEW t \in Tasks, Failed(t) \/ Timeout(t)
      PROVE  Ledger'
  <2>1. Bump({"errors"}) \/ (Bump({"timeouts"}) /\ engine # "udp")
    BY <1>8 DEF Failed, Timeout
  <2>2. pc[t] # "idle" /\ pc' = [pc EXCEPT ![t] = "idle"] /\ engine' = engine /\ started' = started
    BY <1>8 DEF Failed, Timeout
  <2>3. /\ NBusy \in Nat /\ NBusy' = NBusy - 1
        /\ NAnswering \in Nat
        /\ \/ NAnswering' = NAnswering
           \/ NAnswering' = NAnswering - 1
    <3>1. "idle" \in PCs /\ Moved(t, "idle")
      BY <2>2 DEF PCs, Moved
    <3> QED
      BY <2>2, <3>1, Moves
  <2>4. CASE Bump({"errors"})
    BY <2>2, <2>3, <2>4, BumpByName DEF Ledger, Settled
  <2>5. CASE Bump({"timeouts"}) /\ engine # "udp"
    BY <2>2, <2>3, <2>5, BumpByName DEF Ledger, Settled
  <2> QED
    BY <2>1, <2>4, <2>5
<1> QED
  BY <1>1, <1>2, <1>3, <1>4, <1>5, <1>6, <1>7, <1>8
     DEF Next, Reconnect, Request, Answer

------------------------------------------------------------------------------
\* The inductive invariant holds of every run of the tasks of a thread.
THEOREM Inductive == Spec => []IInv
<1>1. Init => IInv
  BY InitInv
<1>2. IInv /\ [Next]_vars => IInv'
  BY TypeStep, BudgetStep, CleanStep, LedgerStep DEF IInv
<1> QED
  BY <1>1, <1>2, PTL DEF Spec

\* Every state of the tasks is well typed, and a task has a connection in hand
\* exactly while it uses one (do_execute, execute).
THEOREM ConnectionTyped == Spec => []TypeOK
<1>1. IInv => TypeOK
  BY DEF IInv
<1> QED
  BY <1>1, Inductive, PTL

\* Every request is accounted for exactly once, whatever cuts it off, for any
\* number of tasks (do_execute, execute and the counters of percpu.rs).
THEOREM RequestsAccounted == Spec => []Accounting
<1>1. IInv => Accounting
  <2> SUFFICES ASSUME IInv PROVE Accounting
    OBVIOUS
  <2>1. /\ stat["errors"] \in Nat /\ stat["timeouts"] \in Nat /\ stat["requests"] \in Nat
        /\ stat["responses"] \in Nat
    BY DEF IInv, TypeOK, Counters
  <2>2. IsFiniteSet(Busy) /\ Answering \subseteq Busy
    BY TasksAssumption, FS_Subset DEF Busy, Answering
  <2>3. /\ NBusy \in Nat /\ NAnswering \in Nat
        /\ NAnswering <= NBusy
    BY <2>2, FS_Subset, FS_CardinalityType DEF NBusy, NAnswering
  <2>4. Settled \in Nat
    BY <2>1 DEF Settled
  <2>5. /\ started = Settled + NBusy
        /\ stat["ok"] + stat["bad"] <= stat["responses"]
        /\ stat["responses"] <= stat["requests"]
        /\ stat["requests"] <= Settled + NBusy
    BY <2>1, <2>3, <2>4 DEF IInv, Ledger
  <2> QED
    BY <2>5 DEF Accounting, Settled, Busy, NBusy
<1> QED
  BY <1>1, Inductive, PTL

\* A connection that is kept never carries more requests than the budget drawn
\* last, for every budget and deviation (do_execute, curr_sock).
THEOREM BudgetNeverExceeded == Spec => []BudgetRespected
<1>1. IInv => BudgetRespected
  BY DEF IInv, BudgetKept, Within, BudgetRespected
<1> QED
  BY <1>1, Inductive, PTL

\* No HTTP or HTTP/3 connection is used again while an answer may still arrive
\* on it (do_execute, execute).
THEOREM ConnectionsClean == Spec => []CleanReuse
<1>1. IInv => CleanReuse
  BY DEF IInv
<1> QED
  BY <1>1, Inductive, PTL

\* A report without warnings is true, for any number of tasks and requests
\* (issues() of summary.rs).
THEOREM VerdictTrue == Spec => []VerdictHonest
<1>1. IInv => VerdictHonest
  <2> SUFFICES ASSUME IInv, \A t \in Tasks : pc[t] = "idle", Issues = {}
               PROVE  /\ stat["requests"] = started
                      /\ engine # "udp" => stat["responses"] = started /\ stat["bad"] = 0
    BY DEF VerdictHonest
  <2>1. /\ stat["errors"] \in Nat /\ stat["timeouts"] \in Nat /\ stat["requests"] \in Nat
        /\ stat["responses"] \in Nat /\ stat["bad"] \in Nat
    BY DEF IInv, TypeOK, Counters
  <2>2. Busy = {} /\ Answering = {}
    BY DEF Busy, Answering
  <2>3. NBusy = 0 /\ NAnswering = 0
    BY <2>2, FS_EmptySet DEF NBusy, NAnswering
  <2>4. ~(stat["errors"] > 0)
    BY DEF Issues
  <2>5. engine # "udp" => ~(stat["timeouts"] > 0) /\ ~(stat["bad"] > 0)
    BY DEF Issues
  <2> QED
    BY <2>1, <2>3, <2>4, <2>5 DEF IInv, Ledger, Settled
<1> QED
  BY <1>1, Inductive, PTL
==============================================================================
