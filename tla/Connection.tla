------------------------------ MODULE Connection ------------------------------
(***************************************************************************)
(* The connections of the load-generating tasks of one worker thread: how  *)
(* CoroWorker (engine/http/engine.rs, engine/http/engine_raw.rs,           *)
(* engine/http3/engine.rs) and the UDP Worker (engine/udp/engine.rs)       *)
(* obtain a connection, send a request on it, account for what became of   *)
(* it, and keep the connection or drop it.                                 *)
(*                                                                         *)
(* The tasks of a thread share its statistics and take turns at every      *)
(* await; a task's request may be cut off at any await by its timeout,     *)
(* which drops the request together with the connection in hand.  What the *)
(* peer and the network do (accept, refuse, answer, fail, keep silent) is  *)
(* left open.  The counters of requests done (raw HTTP, UDP) are kept as   *)
(* requests left, like those of the other two engines.  Payloads, bytes    *)
(* and latencies are left out; so are the bytes TcpStatMonitor counts.     *)
(***************************************************************************)
EXTENDS Integers, FiniteSets

CONSTANTS
  None,         \* Option::None
  Tasks,        \* tasks of the thread
  Engines,      \* engines considered, of "http", "raw", "http3" and "udp"
  Budget,       \* requests per socket
  Deviation,    \* its deviation (HTTP and HTTP/3)
  MaxRequests   \* bound: requests started

ASSUME NoneAssumption == None \notin [served : Nat, owed : BOOLEAN]
ASSUME TasksAssumption == IsFiniteSet(Tasks)
ASSUME BudgetAssumption == Budget \in Nat /\ Deviation \in Nat
ASSUME EnginesAssumption == Engines \subseteq {"http", "raw", "http3", "udp"}
ASSUME ConnectionBounds == MaxRequests \in Nat

VARIABLES
  engine,       \* the engine that runs
  pc,           \* pc[t]: what task t is waiting for
  stream,       \* stream[t]: connection kept for the next request
  sock,         \* sock[t]: connection in hand
  left,         \* left[t]: requests left before the connection is dropped
  stat,         \* counters of the thread
  started,      \* history: requests started
  drawn         \* drawn[t], history: the budget drawn last

vars == <<engine, pc, stream, sock, left, stat, started, drawn>>

Counters == {"created", "errors", "requests", "responses", "ok", "bad", "timeouts"}

\* A connection: how many requests it has carried to their end (history), and
\* whether an answer, or a part of one, may still be on its way.
Fresh == [served |-> 0, owed |-> FALSE]

Bump(S) == stat' = [c \in Counters |-> stat[c] + (IF c \in S THEN 1 ELSE 0)]

\* Budgets of a connection: fixed, or uniform over a range that saturates at
\* zero.  The raw HTTP and the UDP engines know the fixed form only.
RequestsPerSocket == (IF Deviation > Budget THEN 0 ELSE Budget - Deviation)..(Budget + Deviation)
RequestsPerConn   == (IF Deviation > Budget THEN 0 ELSE Budget - Deviation)..(Budget + Deviation)

Draws == CASE engine = "http"  -> RequestsPerSocket
           [] engine = "http3" -> RequestsPerConn
           [] OTHER            -> {Budget}

\* The tasks of each engine as they are made; the first budget is drawn then.
\* A UDP worker has no tasks: there, a task is a worker thread of its own.
NewHttp  == engine = "http"  /\ left \in [Tasks -> RequestsPerSocket]
NewRaw   == engine = "raw"   /\ left = [t \in Tasks |-> Budget]
NewHttp3 == engine = "http3" /\ left \in [Tasks -> RequestsPerConn]
NewUdp   == engine = "udp"   /\ left = [t \in Tasks |-> Budget]

Init ==
  /\ engine \in Engines
  /\ pc = [t \in Tasks |-> "idle"]
  /\ stream = [t \in Tasks |-> None]
  /\ sock = [t \in Tasks |-> None]
  /\ NewHttp \/ NewRaw \/ NewHttp3 \/ NewUdp
  /\ drawn = left
  /\ stat = [c \in Counters |-> 0]
  /\ started = 0

(***************************************************************************)
(* One request of task t.                                                  *)
(***************************************************************************)

\* execute(): the kept connection is taken out of its field, or a new one is
\* made.
Execute(t) ==
  /\ pc[t] = "idle"
  /\ started < MaxRequests
  /\ started' = started + 1
  /\ sock' = [sock EXCEPT ![t] = stream[t]]
  /\ stream' = [stream EXCEPT ![t] = None]
  /\ pc' = [pc EXCEPT ![t] = IF stream[t] = None THEN "connect" ELSE "request"]
  /\ UNCHANGED <<engine, left, stat, drawn>>

\* A socket is there: on_sock_created().
Created(t, then) ==
  /\ pc[t] = "connect"
  /\ sock' = [sock EXCEPT ![t] = Fresh]
  /\ Bump({"created"})
  /\ pc' = [pc EXCEPT ![t] = then]
  /\ UNCHANGED <<engine, stream, started>>

\* reconnect() up to on_sock_created().  The budget stays what it is: only the
\* UDP worker gives a new socket one of its own.
ReconnectHttp(t)  == engine = "http"  /\ Created(t, "handshake") /\ UNCHANGED <<left, drawn>>
ReconnectRaw(t)   == engine = "raw"   /\ Created(t, "request")   /\ UNCHANGED <<left, drawn>>
ReconnectHttp3(t) == engine = "http3" /\ Created(t, "handshake") /\ UNCHANGED <<left, drawn>>

CurrSock(t) ==
  /\ engine = "udp"
  /\ Created(t, "request")
  /\ left' = [left EXCEPT ![t] = Budget]
  /\ drawn' = [drawn EXCEPT ![t] = Budget]

\* The rest of reconnect(): TLS and the HTTP/1 handshake, or the HTTP/3 one,
\* each with a task of its own that drives the connection.
Handshaken(t) ==
  /\ pc[t] = "handshake"
  /\ pc' = [pc EXCEPT ![t] = "request"]
  /\ UNCHANGED <<engine, stream, sock, left, stat, started, drawn>>

\* perform_request() up to on_requests(): HTTP counts a request when the head
\* of its response is in, the others when it has been written.
Sent(t) ==
  /\ pc[t] = "request"
  /\ Bump({"requests"})
  /\ sock' = [sock EXCEPT ![t].owed = TRUE]
  /\ pc' = [pc EXCEPT ![t] = "answer"]
  /\ UNCHANGED <<engine, stream, left, started, drawn>>

RequestHttp(t)  == engine = "http"  /\ Sent(t)
RequestRaw(t)   == engine = "raw"   /\ Sent(t)
RequestHttp3(t) == engine = "http3" /\ Sent(t)

\* The end of do_execute(): one request less is left, and the connection is
\* kept unless that was the last; a new budget is drawn for the next one.
SpendOneTooMany(t, conn) ==
  LET l == IF left[t] > 0 THEN left[t] - 1 ELSE 0 IN
    /\ stream' = [stream EXCEPT ![t] = conn]
    /\ IF l > 0
       THEN left' = [left EXCEPT ![t] = l] /\ UNCHANGED drawn
       ELSE /\ left' \in {[left EXCEPT ![t] = d] : d \in Draws}
            /\ drawn' = [drawn EXCEPT ![t] = left'[t]]

Spend(t, conn) ==
  LET l == IF left[t] > 0 THEN left[t] - 1 ELSE 0 IN
    IF l > 0
    THEN /\ stream' = [stream EXCEPT ![t] = conn]
         /\ left' = [left EXCEPT ![t] = l]
         /\ UNCHANGED drawn
    ELSE /\ left' \in {[left EXCEPT ![t] = d] : d \in Draws}
         /\ drawn' = [drawn EXCEPT ![t] = left'[t]]
         /\ UNCHANGED stream

\* The response is in: on_response() and the counter of its status class: "ok"
\* for 2xx and 3xx, "bad" for 4xx and 5xx, none for any other code.
Answered(t, leftovers) ==
  /\ pc[t] = "answer"
  /\ \E owed \in leftovers, code \in {{"ok"}, {"bad"}, {}} :
       /\ Bump({"responses"} \cup code)
       /\ Spend(t, [served |-> sock[t].served + 1, owed |-> owed])
  /\ sock' = [sock EXCEPT ![t] = None]
  /\ pc' = [pc EXCEPT ![t] = "idle"]
  /\ UNCHANGED <<engine, started>>

\* HTTP and HTTP/3 read the body to its end.  The raw engine stops at the end
\* of the head and leaves the body, or what has not come in yet of it.
AnswerHttp(t)  == engine = "http"  /\ Answered(t, {FALSE})
AnswerRaw(t)   == engine = "raw"   /\ Answered(t, BOOLEAN)
AnswerHttp3(t) == engine = "http3" /\ Answered(t, {FALSE})

\* UDP expects no answer: the datagram is sent and that is all.
SentDatagram(t) ==
  /\ pc[t] = "request"
  /\ engine = "udp"
  /\ Bump({"requests"})
  /\ left' = [left EXCEPT ![t] = IF left[t] > 0 THEN left[t] - 1 ELSE 0]
  /\ stream' = [stream EXCEPT ![t] =
                  IF left'[t] > 0 THEN [Fresh EXCEPT !.served = sock[t].served + 1] ELSE None]
  /\ sock' = [sock EXCEPT ![t] = None]
  /\ pc' = [pc EXCEPT ![t] = "idle"]
  /\ UNCHANGED <<engine, started, drawn>>

\* Any step on the way fails: on_sock_err(), and the connection is dropped.
\* The number of requests left stays as it is.
FailedUncounted(t) ==
  /\ pc[t] # "idle"
  /\ Bump(IF pc[t] = "connect" THEN {"errors"} ELSE {})
  /\ sock' = [sock EXCEPT ![t] = None]
  /\ pc' = [pc EXCEPT ![t] = "idle"]
  /\ UNCHANGED <<engine, stream, left, started, drawn>>

FailedKeepsSocket(t) ==
  /\ pc[t] # "idle"
  /\ Bump({"errors"})
  /\ pc' = [pc EXCEPT ![t] = "idle"]
  /\ UNCHANGED <<engine, stream, sock, left, started, drawn>>

Failed(t) ==
  /\ pc[t] # "idle"
  /\ Bump({"errors"})
  /\ sock' = [sock EXCEPT ![t] = None]
  /\ pc' = [pc EXCEPT ![t] = "idle"]
  /\ UNCHANGED <<engine, stream, left, started, drawn>>

\* The timeout drops do_execute() wherever it waits, with what it holds.  In
\* the raw engine it is also what ends the read loop when the peer has
\* closed: read_buf() then returns 0 and the loop reads again.
TimeoutKeepsConnection(t) ==
  /\ pc[t] # "idle"
  /\ engine # "udp"
  /\ Bump({"timeouts"})
  /\ stream' = [stream EXCEPT ![t] = sock[t]]
  /\ sock' = [sock EXCEPT ![t] = None]
  /\ pc' = [pc EXCEPT ![t] = "idle"]
  /\ UNCHANGED <<engine, left, started, drawn>>

TimeoutWhileReading(t) ==
  /\ pc[t] = "answer"
  /\ engine # "udp"
  /\ Bump({"timeouts"})
  /\ sock' = [sock EXCEPT ![t] = None]
  /\ pc' = [pc EXCEPT ![t] = "idle"]
  /\ UNCHANGED <<engine, stream, left, started, drawn>>

Timeout(t) ==
  /\ pc[t] # "idle"
  /\ engine # "udp"
  /\ Bump({"timeouts"})
  /\ sock' = [sock EXCEPT ![t] = None]
  /\ pc' = [pc EXCEPT ![t] = "idle"]
  /\ UNCHANGED <<engine, stream, left, started, drawn>>

(***************************************************************************)
(* RunSummary::issues() of summary.rs on the counters of the thread: what  *)
(* the report at the end of the run warns of.  Retransmissions and the     *)
(* rate reached are not modelled.                                          *)
(***************************************************************************)

Unanswered == stat["requests"] - (stat["responses"] + stat["timeouts"])

IssuesWithoutTimeouts ==
  (IF engine = "udp" THEN {} ELSE
     {i \in {"unanswered"} : 100 * Unanswered > stat["requests"]}
     \cup {i \in {"http errors"} : stat["bad"] > 0})
  \cup {i \in {"socket errors"} : stat["errors"] > 0}

Issues ==
  (IF engine = "udp" THEN {} ELSE
     {i \in {"timeouts"} : stat["timeouts"] > 0}
     \cup {i \in {"unanswered"} : 100 * Unanswered > stat["requests"]}
     \cup {i \in {"http errors"} : stat["bad"] > 0})
  \cup {i \in {"socket errors"} : stat["errors"] > 0}

Next ==
  \E t \in Tasks :
    \/ Execute(t) \/ Handshaken(t)
    \/ ReconnectHttp(t) \/ ReconnectRaw(t) \/ ReconnectHttp3(t) \/ CurrSock(t)
    \/ RequestHttp(t) \/ RequestRaw(t) \/ RequestHttp3(t) \/ SentDatagram(t)
    \/ AnswerHttp(t) \/ AnswerRaw(t) \/ AnswerHttp3(t)
    \/ Failed(t) \/ Timeout(t)

Spec == Init /\ [][Next]_vars

\* The timer of a request fires; nothing is assumed of the network.  The UDP
\* worker makes blocking calls that return.
Datagram(t) == engine = "udp" /\ (CurrSock(t) \/ SentDatagram(t) \/ Failed(t))

FairSpec == Spec /\ \A t \in Tasks : WF_vars(Timeout(t)) /\ WF_vars(Datagram(t))

------------------------------------------------------------------------------
Conns == [served : Nat, owed : BOOLEAN]

TypeOK ==
  /\ engine \in Engines
  /\ pc \in [Tasks -> {"idle", "connect", "handshake", "request", "answer"}]
  /\ stream \in [Tasks -> Conns \cup {None}]
  /\ sock \in [Tasks -> Conns \cup {None}]
  /\ left \in [Tasks -> Nat]
  /\ drawn \in [Tasks -> Nat]
  /\ stat \in [Counters -> Nat]
  /\ started \in Nat
  /\ \A t \in Tasks : (sock[t] = None) <=> (pc[t] \in {"idle", "connect"})

\* Every request is accounted for exactly once, whatever cuts it off: those
\* started are the ones answered, timed out or failed and the ones still under
\* way, on all tasks of the thread together; and a response is never counted
\* without its request (do_execute, execute, and on_requests, on_response,
\* on_timeout, on_sock_err of percpu.rs).
Accounting ==
  LET active  == Cardinality({t \in Tasks : pc[t] # "idle"})
      settled == stat["errors"] + stat["timeouts"] +
                 (IF engine = "udp" THEN stat["requests"] ELSE stat["responses"]) IN
    /\ started = settled + active
    /\ stat["ok"] + stat["bad"] <= stat["responses"]
    /\ stat["responses"] <= stat["requests"]
    /\ stat["requests"] <= settled + active

\* A connection that is kept has requests left, and never carries more of them
\* than the budget drawn last allows, although the budget is not renewed when
\* a connection is lost; on UDP, where it is renewed, the two add up exactly
\* (do_execute of the HTTP engines, execute and curr_sock of the UDP worker).
BudgetRespected ==
  \A t \in Tasks : stream[t] # None =>
    /\ left[t] > 0
    /\ stream[t].served > 0
    /\ stream[t].served + left[t] <= drawn[t]
    /\ engine = "udp" => stream[t].served + left[t] = drawn[t]

\* A connection on which an answer may still arrive is never used again, so
\* that a late answer is not taken for the answer of the next request.  The
\* raw engine does not promise this: it leaves bodies unread (do_execute
\* and execute of the HTTP and HTTP/3 engines).
CleanReuse ==
  engine \in {"http", "http3"} =>
    \A t \in Tasks : stream[t] # None => ~stream[t].owed

\* A report without warnings is true: when the tasks have come to rest, every
\* request the run started was sent and, where an answer is expected, answered
\* without an HTTP error, although HTTP does not count as sent a request that
\* times out before its response (issues() of summary.rs, against the counters
\* the engines keep).
VerdictHonest ==
  (\A t \in Tasks : pc[t] = "idle") /\ Issues = {} =>
    /\ stat["requests"] = started
    /\ engine # "udp" => stat["responses"] = started /\ stat["bad"] = 0

\* Every request ends, even when the peer never answers, or closes in the
\* middle of a response of the raw engine (execute).
EveryRequestEnds == \A t \in Tasks : (pc[t] # "idle") ~> (pc[t] = "idle")
==============================================================================
