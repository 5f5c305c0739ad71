------------------------------ MODULE Broadcast ------------------------------
(***************************************************************************)
(* What the WebSocket service of a process promises its clients            *)
(* (redis_listener and ConnectionManager), whatever awaits, lists and      *)
(* connections it is made of: every client that is connected is given one  *)
(* stretch of the messages the process hears, without a gap, from the      *)
(* moment it joined, and no message is taken up before the last one has    *)
(* been given to all who stayed.                                           *)
(*                                                                         *)
(* Messages are numbered as they are published.  The process need not hear *)
(* all of them, but it hears none twice and none out of order.             *)
(***************************************************************************)
EXTENDS Naturals, Sequences

CONSTANTS Clients,
          Numbers   \* of publications

VARIABLES log,      \* what the process has heard
          joined,   \* the connected clients: how much was heard when each joined
          gone,     \* those who will not be served, or served no longer
          got       \* what each client was given

vars == <<log, joined, gone, got>>

Connected == DOMAIN joined

BroadcastTypeOK ==
  /\ log \in Seq(Numbers)
  /\ Connected \subseteq Clients /\ \A c \in Connected : joined[c] \in Nat
  /\ gone \subseteq Clients \ Connected
  /\ got \in [Clients -> Seq(Numbers)]

Init == /\ log = <<>>
        /\ joined = [c \in {} |-> 0]
        /\ gone = {}
        /\ got = [c \in Clients |-> <<>>]

\* How far in the log a connected client has come.
Place(c) == joined[c] + Len(got[c])

\* The process takes up a message that was published after those it knows.
Hear(n) == /\ \A c \in Connected : Place(c) = Len(log)
           /\ \A i \in 1 .. Len(log) : log[i] < n
           /\ log' = Append(log, n)
           /\ UNCHANGED <<joined, gone, got>>

\* A client joins; what was heard before is not for it.
Join(c) == /\ c \notin Connected \cup gone
           /\ joined' = [d \in Connected \cup {c} |->
                           IF d = c THEN Len(log) ELSE joined[d]]
           /\ UNCHANGED <<log, gone, got>>

\* A connected client is given the next message.
Deliver(c) == /\ c \in Connected
              /\ Place(c) < Len(log)
              /\ got' = [got EXCEPT ![c] = Append(@, log[Place(c) + 1])]
              /\ UNCHANGED <<log, joined, gone>>

\* A client is turned away, or goes, and does not come back.
Leave(c) == /\ c \notin gone
            /\ gone' = gone \cup {c}
            /\ joined' = [d \in Connected \ {c} |-> joined[d]]
            /\ UNCHANGED <<log, got>>

Next == \/ \E n \in Numbers : Hear(n)
        \/ \E c \in Clients : Join(c) \/ Deliver(c) \/ Leave(c)

Spec == Init /\ [][Next]_vars

------------------------------------------------------------------------------
\* No client, connected or gone, was given a message twice, or an older one
\* after a newer one.
GivenInOrder ==
  \A c \in Clients : \A i, j \in 1 .. Len(got[c]) : i < j => got[c][i] < got[c][j]
==============================================================================
