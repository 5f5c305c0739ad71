-------------------------------- MODULE DbPool --------------------------------
(***************************************************************************)
(* The asynchronous database engine of one API process: WebSockets, HTTP   *)
(* requests and health checks, each with a session of its own, share the   *)
(* pool_size + max_overflow connections of one pool, while the database    *)
(* goes down and comes back.                                               *)
(*                                                                         *)
(* A session takes a connection at its first statement and keeps it until  *)
(* it commits or is closed, so also while its task waits for Redis, the    *)
(* bucket or its client.  An actor stands for one task at a time and, when *)
(* that has ended, for the next one.  The statements that a task executes  *)
(* in a row are one.                                                       *)
(***************************************************************************)
EXTENDS Naturals, FiniteSets

CONSTANTS Sockets, Requests, Probes,
          Capacity,    \* pool_size + max_overflow
          MaxOutages   \* bound: failures of the database

ASSUME PoolAssumption ==
  /\ IsFiniteSet(Sockets \cup Requests \cup Probes)
  /\ Capacity \in Nat /\ MaxOutages \in Nat
  /\ Sockets \cap Requests = {} /\ Sockets \cap Probes = {} /\ Requests \cap Probes = {}

Actors == Sockets \cup Requests \cup Probes

VARIABLES
  dbUp, outages,
  pc,      \* each task: the statement it awaits, or what it does without one
  conn,    \* its session's connection: "none", "up", or "cut" by an outage
  broken,  \* sessions that refuse every statement until they are rolled back
  answer,  \* what the task's client was told last
  excused  \* history: sessions that an outage or a real crowd has met

sessions == <<pc, conn, broken, answer, excused>>
vars == <<dbUp, outages, sessions>>

Statements == {"user", "query", "ping", "commit", "refresh"}

TypeOK ==
  /\ dbUp \in BOOLEAN
  /\ outages \in 0 .. MaxOutages
  /\ pc \in [Actors -> Statements \cup {"open", "work", "respond", "ended"}]
  /\ conn \in [Actors -> {"none", "up", "cut"}]
  /\ broken \subseteq Sockets
  /\ answer \in [Actors -> {"none", "ok", "db_error"}]
  /\ excused \subseteq Actors

Init ==
  /\ dbUp = TRUE /\ outages = 0
  /\ pc = [a \in Actors |-> "ended"]
  /\ conn = [a \in Actors |-> "none"]
  /\ broken = {}
  /\ answer = [a \in Actors |-> "none"]
  /\ excused = {}

------------------------------------------------------------------------------
At(a, step) == pc[a] = step
Goto(a, step) == pc' = [pc EXCEPT ![a] = step]
Answers(a, result) == answer' = [answer EXCEPT ![a] = result]
Keeps(a, state) == conn' = [conn EXCEPT ![a] = state]
Running(a) == pc[a] # "ended"

\* async with AsyncSessionLocal(): nothing is checked out yet.
Start(a, step) ==
  /\ At(a, "ended") /\ Goto(a, step)
  /\ Answers(a, "none")
  /\ excused' = IF dbUp THEN excused \ {a} ELSE excused \cup {a}
  /\ UNCHANGED <<dbUp, outages, conn, broken>>

\* A WebSocket validates its session; so do most requests, the others look a
\* user up; a health check executes SELECT 1.
Open(s) == s \in Sockets /\ Start(s, "user")
Serve(r) == r \in Requests /\ Start(r, "query")
Probe(p) == p \in Probes /\ Start(p, "ping")

\* Mutant: the session is not closed, and the connection never given back.
EndUnclosed(a) ==
  /\ Goto(a, "ended")
  /\ broken' = broken \ {a}
  /\ UNCHANGED <<dbUp, outages, conn, excused>>

\* The session is closed: its connection is rolled back and given back.
End(a) ==
  /\ Goto(a, "ended")
  /\ Keeps(a, "none")
  /\ broken' = broken \ {a}
  /\ UNCHANGED <<dbUp, outages, excused>>

(* The pool *)

InUse == {a \in Actors : conn[a] # "none"}
Free == Cardinality(InUse) < Capacity

Wants(a) == pc[a] \in Statements /\ conn[a] = "none" /\ a \notin broken

\* Mutant: a pool that hands out its idle connections without the ping,
\* though an outage may have cut them.
CheckoutUnpinged(a) ==
  /\ Wants(a) /\ Free /\ dbUp
  /\ Keeps(a, "up") \/ (outages > 0 /\ Keeps(a, "cut"))
  /\ UNCHANGED <<dbUp, outages, pc, broken, answer, excused>>

\* pool_pre_ping replaces an idle connection that is dead.
Checkout(a) ==
  /\ Wants(a) /\ Free /\ dbUp
  /\ Keeps(a, "up")
  /\ UNCHANGED <<dbUp, outages, pc, broken, answer, excused>>

(* What a failed statement does to its task *)

\* The request ends, and get_db rolls its session back.
FailRequest(r) == r \in Requests /\ Goto(r, "ended") /\ UNCHANGED broken

\* The WebSocket whose session cannot be validated is closed with 1008.
FailConnect(s) == At(s, "user") /\ Goto(s, "ended") /\ UNCHANGED broken

\* The frame is answered with the error, and the socket serves the next one.
\* A failure within commit, and one of an open transaction's connection, leave
\* the session unusable, and between frames nobody rolls it back.
FailFrame(s) ==
  /\ s \in Sockets /\ ~At(s, "user")
  /\ Goto(s, "open")
  /\ broken' = IF At(s, "commit") \/ conn[s] = "cut" THEN broken \cup {s} ELSE broken

\* The health check answers 503.
FailProbe(p) == p \in Probes /\ Goto(p, "respond") /\ UNCHANGED broken

\* Mutant: the session of a health check or a request lives on unrolled.
FailUnrolled(a) ==
  /\ Goto(a, IF a \in Sockets THEN "open" ELSE "respond")
  /\ broken' = broken \cup {a}
  /\ Answers(a, "db_error") /\ Keeps(a, "none")
  /\ UNCHANGED <<dbUp, outages>>

\* A dead connection leaves the pool with its session's transaction.
Fail(a) ==
  /\ FailRequest(a) \/ FailConnect(a) \/ FailFrame(a) \/ FailProbe(a)
  /\ Answers(a, "db_error") /\ Keeps(a, "none")
  /\ UNCHANGED <<dbUp, outages>>

\* The others that take part in filling the pool.
Crowd(a) == {b \in Actors \ {a} : Running(b) /\ conn[b] # "none"}

\* Mutant: without pool_timeout.
CheckoutFailsAtOnce(a) == Wants(a) /\ ~dbUp /\ Fail(a) /\ UNCHANGED excused

\* pool_timeout runs out, or the database refuses a new connection.
CheckoutFails(a) ==
  /\ Wants(a) /\ (~Free \/ ~dbUp)
  /\ Fail(a)
  /\ excused' = IF Cardinality(Crowd(a)) >= Capacity THEN excused \cup {a} ELSE excused

(* Statements *)

\* The connection is kept, but by commit.
Succeed(a, step) ==
  /\ Goto(a, step)
  /\ Keeps(a, IF At(a, "commit") THEN "none" ELSE "up")
  /\ UNCHANGED <<dbUp, outages, broken, excused>>

\* user: connect and receive; commit: create_message and register refresh the
\* new row, a new transaction that needs a connection again.  A password
\* reset does not.
Execute(a) ==
  /\ conn[a] = "up" /\ a \notin broken
  /\ \/ At(a, "user") /\ Succeed(a, "open") /\ UNCHANGED answer
     \/ At(a, "query") /\ Succeed(a, "work") /\ UNCHANGED answer
     \/ At(a, "ping") /\ Succeed(a, "respond") /\ Answers(a, "ok")
     \/ At(a, "commit") /\ Succeed(a, "refresh") /\ UNCHANGED answer
     \/ At(a, "commit") /\ a \in Requests /\ Succeed(a, "respond") /\ Answers(a, "ok")
     \/ At(a, "refresh") /\ a \in Sockets /\ Succeed(a, "open") /\ UNCHANGED answer
     \/ At(a, "refresh") /\ a \in Requests /\ Succeed(a, "respond") /\ Answers(a, "ok")

ExecuteFails(a) ==
  /\ pc[a] \in Statements
  /\ conn[a] = "cut" \/ a \in broken
  /\ Fail(a) /\ UNCHANGED excused

Statement(a) == Checkout(a) \/ CheckoutFails(a) \/ Execute(a) \/ ExecuteFails(a)

(* Between statements *)

\* A text frame that passes the checks of create_message.
Frame(s) ==
  /\ At(s, "open") /\ Goto(s, "commit") /\ Answers(s, "none")
  /\ UNCHANGED <<dbUp, outages, conn, broken, excused>>

\* The client disconnects.
Leave(s) == At(s, "open") /\ End(s) /\ UNCHANGED answer

\* The request goes on to write, or has nothing to write.
Write(r) ==
  /\ At(r, "work") /\ Goto(r, "commit")
  /\ UNCHANGED <<dbUp, outages, conn, broken, answer, excused>>

Finish(a) ==
  \/ At(a, "work") /\ End(a) /\ Answers(a, "ok")
  \/ At(a, "respond") /\ End(a) /\ UNCHANGED answer

(* The database *)

Outage ==
  /\ dbUp /\ outages < MaxOutages
  /\ dbUp' = FALSE /\ outages' = outages + 1
  /\ conn' = [a \in Actors |-> IF conn[a] = "up" THEN "cut" ELSE conn[a]]
  /\ excused' = excused \cup {a \in Actors : Running(a)}
  /\ UNCHANGED <<pc, broken, answer>>

Recover == ~dbUp /\ dbUp' = TRUE /\ UNCHANGED <<outages, sessions>>

Step(a) == Statement(a) \/ Finish(a)

Next == \/ \E a \in Actors : \/ Open(a) \/ Serve(a) \/ Probe(a) \/ Step(a)
                             \/ Frame(a) \/ Leave(a) \/ Write(a)
        \/ Outage \/ Recover

Spec == Init /\ [][Next]_vars

\* A statement returns or raises: the pool's queue is first come, first
\* served, and left after pool_timeout.  The orchestrator keeps probing.
\* Clients need not do anything.
Fairness == /\ \A a \in Actors : WF_vars(Step(a))
            /\ \A p \in Probes : WF_vars(Probe(p))
FairSpec == Spec /\ Fairness

------------------------------------------------------------------------------
(* What must hold *)

\* No session fails without a reason that lies within its own life: an outage,
\* or a pool that others really fill.  What an outage cut, and what the tasks
\* before it have used, does not reach a new session.
FailuresHaveReasons ==
  \A a \in Actors : answer[a] = "db_error" \/ a \in broken => a \in excused

\* Only running tasks hold connections, never more than the database was
\* promised, and each of them lives as long as the database does.
SlotsAccounted ==
  /\ Cardinality(InUse) <= Capacity
  /\ \A a \in InUse : Running(a) /\ (conn[a] = "up" => dbUp)

Busy(a) == Running(a) /\ ~At(a, "open")

\* However many quiet WebSockets hold the pool, and whatever the database
\* does, every request, health check and frame is answered.
EveryoneAnswered == \A a \in Actors : Busy(a) ~> ~Busy(a)

Quiet ==
  /\ dbUp
  /\ Cardinality({s \in Sockets : Running(s)} \cup Requests \cup Probes) <= Capacity

\* Once the database is back and the WebSockets leave room, the health checks
\* recover, whatever went before: nothing is leaked and nothing stale kept.
HealthReturns ==
  \A p \in Probes : <>[]Quiet => []<>(answer[p] = "ok")
==============================================================================
