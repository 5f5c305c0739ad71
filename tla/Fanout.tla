-------------------------------- MODULE Fanout --------------------------------
(***************************************************************************)
(* The WebSockets of one API process: handle_connection for each of them,  *)
(* ConnectionManager, and redis_listener, which passes what is published   *)
(* on chat:messages to the sockets.  Processes share nothing but the       *)
(* channel; what the others publish arrives from outside.                  *)
(*                                                                         *)
(* A message is the number of its publication.  One action is the code     *)
(* between two awaits with the operation awaited.  What a frame does to    *)
(* the stores is the subject of SendMessage; here it publishes or does not.*)
(***************************************************************************)
EXTENDS Naturals, Sequences

CONSTANTS Sockets,
          MaxMessages,  \* bound: publications
          MaxFaults     \* bound: lost subscriptions and ends of the listener

ASSUME FanoutAssumption == MaxMessages \in Nat /\ MaxFaults \in Nat

VARIABLES
  spc,         \* each handler: the operation it awaits
  peer,        \* sockets whose connection is up
  live,        \* sockets whose token's session:<jti> exists
  active,      \* active_websockets
  listener,    \* redis_listener: "subscribe", "listen", "send" or "ended"
  linked,      \* Redis has its subscription
  inbox,       \* messages that Redis sent to it and it has not taken
  todo, dead,  \* broadcast_local: sockets of the copy yet to be sent to; failed
  published,   \* publications so far
  got,         \* chat messages that each client received
  faults,
  heard,       \* history: messages taken from the inbox
  since        \* history: how many were heard when each socket was appended

handlers == <<spc, peer, live>>
broadcast == <<listener, todo, dead>>
channel == <<linked, inbox, published>>
history == <<heard, since>>
vars == <<handlers, active, broadcast, channel, got, faults, history>>

Serving == {"greet", "receive", "create", "reply"}
Expecting == {"idle", "validate", "user", "accept"}

TypeOK ==
  /\ spc \in [Sockets -> Expecting \cup Serving \cup {"ended"}]
  /\ peer \subseteq Sockets /\ live \subseteq Sockets
  /\ active \subseteq Sockets
  /\ listener \in {"subscribe", "listen", "send", "ended"}
  /\ linked \in BOOLEAN
  /\ inbox \in Seq(Nat)
  /\ todo \subseteq Sockets /\ dead \subseteq Sockets
  /\ listener = "send" <=> todo # {}
  /\ published \in 0 .. MaxMessages
  /\ got \in [Sockets -> Seq(Nat)]
  /\ faults \in 0 .. MaxFaults
  /\ heard \in Seq(Nat) /\ (todo # {} => heard # <<>>)
  /\ since \in [Sockets -> Nat]

Init ==
  /\ spc = [s \in Sockets |-> "idle"]
  /\ peer = Sockets /\ live = Sockets
  /\ active = {}
  /\ listener = "subscribe" /\ linked = FALSE /\ inbox = <<>>
  /\ todo = {} /\ dead = {}
  /\ published = 0
  /\ got = [s \in Sockets |-> <<>>]
  /\ faults = 0
  /\ heard = <<>> /\ since = [s \in Sockets |-> 0]

------------------------------------------------------------------------------
At(s, step) == spc[s] = step
Goto(s, step) == spc' = [spc EXCEPT ![s] = step]
Fault == faults < MaxFaults /\ faults' = faults + 1

\* Redis hands a publication to the subscription, if there is one.
PublishOne ==
  /\ published < MaxMessages
  /\ published' = published + 1
  /\ inbox' = IF linked THEN Append(inbox, published + 1) ELSE inbox

\* close(1008): no token, no session, no user, or an error on the way.
Refuse(s) ==
  /\ Goto(s, "ended")
  /\ peer' = peer \ {s}
  /\ UNCHANGED <<live, active, broadcast, channel, got, faults, history>>

(* handle_connection *)

Proceed(s, step) ==
  /\ Goto(s, step)
  /\ UNCHANGED <<peer, live, active, broadcast, channel, got, faults, history>>

Connect(s) == At(s, "idle") /\ (Proceed(s, "validate") \/ Refuse(s))

\* validate_session: EXISTS of the session, then the SELECT of the user.
CheckSession(s) ==
  /\ At(s, "validate")
  /\ (s \in live /\ Proceed(s, "user")) \/ Refuse(s)

LoadUser(s) == At(s, "user") /\ (Proceed(s, "accept") \/ Refuse(s))

\* manager.connect appends once accept has returned; accept raises when the
\* client has gone.
Accept(s) ==
  /\ At(s, "accept")
  /\ \/ /\ Goto(s, "greet")
        /\ active' = active \cup {s}
        /\ since' = [since EXCEPT ![s] = Len(heard)]
        /\ UNCHANGED <<peer, live, broadcast, channel, got, faults, heard>>
     \/ s \notin peer /\ Refuse(s)

\* Either except branch: disconnect; the server closes the connection.
Leave(s) ==
  /\ Goto(s, "ended")
  /\ peer' = peer \ {s}
  /\ active' = active \ {s}
  /\ UNCHANGED <<live, broadcast, channel, got, faults, history>>

\* send_json to a client that has gone raises, or is not noticed.
Tell(s) == Proceed(s, "receive") \/ (s \notin peer /\ Leave(s))

Greet(s) == At(s, "greet") /\ Tell(s)
Reply(s) == At(s, "reply") /\ Tell(s)

\* receive_text raises WebSocketDisconnect.
Disconnected(s) == At(s, "receive") /\ s \notin peer /\ Leave(s)

\* A frame: an object, no JSON, or JSON that is no object, whose .get raises.
Frame(s) ==
  /\ At(s, "receive") /\ s \in peer
  /\ Proceed(s, "create") \/ Proceed(s, "reply") \/ Leave(s)

\* create_message returns, or raises before or after it has published.  (When
\* its commit fails, the socket's database session is never rolled back, and
\* every later frame of the socket takes the second branch.)
Create(s) ==
  /\ At(s, "create")
  /\ \/ /\ Goto(s, "receive") \/ Goto(s, "reply")
        /\ PublishOne
        /\ UNCHANGED <<peer, live, active, broadcast, linked, got, faults, history>>
     \/ Proceed(s, "reply")

(* redis_listener and broadcast_local *)

\* subscribe is outside the try: when it raises, the task ends.
Subscribe ==
  /\ listener = "subscribe"
  /\ \/ listener' = "listen" /\ linked' = TRUE /\ UNCHANGED faults
     \/ listener' = "ended" /\ Fault /\ UNCHANGED linked
  /\ UNCHANGED <<handlers, active, todo, dead, inbox, published, got, history>>

\* Mutant: awaits the next send even when the copy of the list is empty.
TakeUnasked ==
  /\ listener = "listen" /\ inbox # <<>>
  /\ inbox' = Tail(inbox)
  /\ heard' = Append(heard, Head(inbox))
  /\ todo' = active
  /\ listener' = "send"
  /\ UNCHANGED <<handlers, active, dead, linked, published, got, faults, since>>

\* The next message; broadcast_local copies the list.
Take ==
  /\ listener = "listen" /\ inbox # <<>>
  /\ inbox' = Tail(inbox)
  /\ heard' = Append(heard, Head(inbox))
  /\ todo' = active
  /\ listener' = IF active = {} THEN "listen" ELSE "send"
  /\ UNCHANGED <<handlers, active, dead, linked, published, got, faults, since>>

Receives(s) == got' = [got EXCEPT ![s] = Append(@, heard[Len(heard)])]

\* Mutants: the first failed send ends the broadcast; list.remove without the
\* check, which raises for a socket that its handler has removed.
SendUntilFailure(s) ==
  /\ s \in todo
  /\ todo' = IF s \in peer THEN todo \ {s} ELSE {}
  /\ active' = active \ ({s} \ peer)
  /\ IF s \in peer THEN Receives(s) ELSE UNCHANGED got
  /\ listener' = IF todo' = {} THEN "listen" ELSE "send"
  /\ UNCHANGED <<handlers, dead, channel, faults, history>>

SendThenRemove(s) ==
  /\ s \in todo
  /\ todo' = todo \ {s}
  /\ IF s \in peer THEN Receives(s) ELSE UNCHANGED got
  /\ LET failed == dead \cup ({s} \ peer) IN
     IF todo' = {}
       THEN /\ listener' = IF failed \subseteq active THEN "listen" ELSE "ended"
            /\ active' = active \ failed
            /\ dead' = {}
       ELSE dead' = failed /\ UNCHANGED <<listener, active>>
  /\ UNCHANGED <<handlers, channel, faults, history>>

\* send_json to the next socket; after the last one the dead leave the list.
Send(s) ==
  /\ s \in todo
  /\ todo' = todo \ {s}
  /\ IF s \in peer THEN Receives(s) ELSE UNCHANGED got
  /\ \E failed \in {dead, dead \cup ({s} \ peer)} :
       IF todo' = {}
         THEN /\ listener' = "listen"
              /\ active' = active \ failed
              /\ dead' = {}
         ELSE dead' = failed /\ UNCHANGED <<listener, active>>
  /\ UNCHANGED <<handlers, channel, faults, history>>

\* The connection to Redis breaks: some of what was sent is lost with it.
Unlink ==
  /\ linked /\ Fault
  /\ linked' = FALSE
  /\ \E n \in 0 .. Len(inbox) : inbox' = SubSeq(inbox, 1, n)
  /\ UNCHANGED <<handlers, active, broadcast, published, got, history>>

\* listen() connects and subscribes anew ...
Relink ==
  /\ listener = "listen" /\ ~linked /\ inbox = <<>>
  /\ linked' = TRUE
  /\ UNCHANGED <<handlers, active, broadcast, inbox, published, got, faults, history>>

\* ... or its retries are used up, or the process shuts down and cancels the
\* task, be it in the middle of a broadcast.  Nothing starts it again.
EndListener ==
  /\ listener \in {"listen", "send"}
  /\ Fault
  /\ listener' = "ended" /\ todo' = {} /\ dead' = {}
  /\ linked' = FALSE /\ inbox' = <<>>
  /\ UNCHANGED <<handlers, active, published, got, history>>

(* The world *)

PublishElsewhere ==
  /\ PublishOne
  /\ UNCHANGED <<handlers, active, broadcast, linked, got, faults, history>>

PeerLost(s) ==
  /\ s \in peer
  /\ peer' = peer \ {s}
  /\ UNCHANGED <<spc, live, active, broadcast, channel, got, faults, history>>

\* logout, logout_all, or the end of the session's TTL.
Revoke(s) ==
  /\ s \in live
  /\ live' = live \ {s}
  /\ UNCHANGED <<spc, peer, active, broadcast, channel, got, faults, history>>

Step(s) == \/ CheckSession(s) \/ LoadUser(s) \/ Accept(s) \/ Greet(s)
           \/ Create(s) \/ Reply(s) \/ Disconnected(s)

Next == \/ \E s \in Sockets : \/ Connect(s) \/ Step(s) \/ Frame(s) \/ Send(s)
                              \/ PeerLost(s) \/ Revoke(s)
        \/ Subscribe \/ Take \/ Unlink \/ Relink \/ EndListener
        \/ PublishElsewhere

Spec == Init /\ [][Next]_vars

\* An awaited operation returns or raises (the server's ping timeout ends a
\* send to a client that does not read).  Clients need not do anything.
Fairness == /\ WF_vars(Take)
            /\ \A s \in Sockets : WF_vars(Step(s)) /\ WF_vars(Send(s))
FairSpec == Spec /\ Fairness

------------------------------------------------------------------------------
(* What must hold *)

\* A client that is connected has received, in order and once, every message
\* heard since its socket was appended, but for the one still being sent,
\* whatever joins, leaves and fails meanwhile.
NothingSkipped ==
  listener # "ended" => \A s \in active \cap peer :
    /\ Len(heard) = since[s] + Len(got[s]) + (IF s \in todo THEN 1 ELSE 0)
    /\ \A i \in 1 .. Len(got[s]) : got[s][i] = heard[since[s] + i]

\* The list and the handlers agree: a handler that ended leaves no socket
\* behind, and no connected client is dropped while its handler serves it.
ListedWhileServed ==
  /\ \A s \in active : spc[s] \in Serving
  /\ \A s \in peer : spc[s] \in Serving => s \in active

\* The handlers' sockets as clients: those served whose connection is up, with
\* what was heard when they joined, and those that are served no longer.
Served == {s \in peer : spc[s] \in Serving}
JoinedAt == [s \in Served |-> since[s]]
Departed == {s \in Sockets \ Served : spc[s] \notin Expecting}

\* Whatever joins, leaves and fails between two awaits of a broadcast, the
\* process is a Broadcast: each connected client is given, in order, once and
\* without a gap, what was heard since its socket was appended.
Hub == INSTANCE Broadcast WITH Clients <- Sockets, Numbers <- 1 .. MaxMessages,
         log <- heard, joined <- JoinedAt, gone <- Departed
ImplementsBroadcast == Hub!Spec

Received(s) == {got[s][i] : i \in 1 .. Len(got[s])}
Waiting == {inbox[i] : i \in 1 .. Len(inbox)}

\* A message that has reached the process reaches each of its clients, unless
\* that client goes, or the subscription breaks.
EveryoneHears ==
  \A s \in Sockets, n \in 1 .. MaxMessages :
    s \in active \cap peer /\ n \in Waiting
      ~> \/ n \in Received(s)
         \/ s \notin peer
         \/ faults > 0

\* authenticate: "Register session in Redis for instant invalidation support".
\* No frame is taken from a client whose session has been revoked.
RevokedAreOut ==
  [][\A s \in Sockets : At(s, "receive") /\ spc'[s] = "create" => s \in live]_vars
==============================================================================
