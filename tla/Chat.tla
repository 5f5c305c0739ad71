--------------------------------- MODULE Chat ---------------------------------
(***************************************************************************)
(* From the call that sends a message to the clients that are shown it:    *)
(* all calls of create_message, as in SendMessage, together with one of    *)
(* the processes that listen to chat:messages, of which only what it       *)
(* promises its WebSockets is used (Broadcast, which Fanout implements).   *)
(*                                                                         *)
(* The two share the channel: a message is numbered by its place in        *)
(* published, and the process may hear what has been published, late, or   *)
(* never when its subscription was broken.                                 *)
(***************************************************************************)
EXTENDS SendMessage

CONSTANT Clients   \* of the process

VARIABLES heard,   \* numbers of the messages the process has heard
          joined, gone,
          given    \* what each client was given

Hub == INSTANCE Broadcast WITH Numbers <- Nat, log <- heard, got <- given

hub == <<heard, joined, gone, given>>

ChatInit == Init /\ Hub!Init

\* Redis hands out what is published, and the process passes it on.
Listen == \E n \in 1 .. Len(published) : Hub!Hear(n)
Serve == \E c \in Clients : Hub!Join(c) \/ Hub!Deliver(c) \/ Hub!Leave(c)

ChatNext == \/ Next /\ UNCHANGED hub
            \/ (Listen \/ Serve) /\ UNCHANGED vars

ChatSpec == ChatInit /\ [][ChatNext]_<<vars, hub>>

------------------------------------------------------------------------------
(* What must hold *)

\* The calls whose messages c was given, in that order.
Shown(c) == [i \in 1 .. Len(given[c]) |-> published[given[c][i]]]

\* Whoever is shown a message, at once or late, in this process or another, finds it
\* committed once, and its file in the bucket; and the invalidation of the cached
\* pages was completed before.
ShownIsReadable == \A c \in Clients : \A i \in 1 .. Len(Shown(c)) : Complete(Shown(c)[i])

\* A client that is shown two messages of one user is shown them in the order
\* in which they were committed, as long as their leases held.
ShownInTurn ==
  \A c \in Clients : \A k, l \in 1 .. Len(Shown(c)) : \A i, j \in 1 .. Len(rows) :
    LET r == Shown(c)[k]
        s == Shown(c)[l] IN
    /\ k < l /\ rows[i] = r /\ rows[j] = s
    /\ who[r] = who[s] /\ {r, s} \cap overran = {}
    => i <= j

\* No client is shown a message twice, but for one copy at most for each fault.
ShownOnce == \A c \in Clients : Cardinality(Copies(Shown(c))) <= faults
==============================================================================
