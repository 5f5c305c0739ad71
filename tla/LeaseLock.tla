------------------------------ MODULE LeaseLock ------------------------------
(***************************************************************************)
(* What the Redis locks of app/core/redis.py promise (acquire_lock and     *)
(* release_lock): a named lock that is leased, so that it is lost when the *)
(* lease runs out, even under a client that is still working.  A token is  *)
(* one attempt at a lock (the uuid4 drawn by acquire_lock).                *)
(*                                                                         *)
(* The promise is in what is absent: no step gives a lock to one token     *)
(* while another holds it, and a lock that was lost is not found again.    *)
(* When leases run out is left open here; that a late release does not end *)
(* the lease of the next holder is for the modules that implement it.      *)
(***************************************************************************)
CONSTANTS Names,    \* lock names ("lock:send:<user id>", ...)
          Tokens,   \* attempts to take a lock
          None      \* no name asked for yet

VARIABLES name,     \* the lock each token is for
          phase     \* where each token stands

vars == <<name, phase>>

Phases == {"new", "waiting", "held", "lost", "done"}

LockTypeOK == /\ name \in [Tokens -> Names \cup {None}]
              /\ phase \in [Tokens -> Phases]

Init == /\ name = [t \in Tokens |-> None]
        /\ phase = [t \in Tokens |-> "new"]

Held(n) == {t \in Tokens : phase[t] = "held" /\ name[t] = n}

Move(t, from, to) == /\ phase[t] = from
                     /\ phase' = [phase EXCEPT ![t] = to]

\* A client starts an attempt at lock n.
Ask(t, n) == /\ Move(t, "new", "waiting")
             /\ name' = [name EXCEPT ![t] = n]

\* SET NX finds the name free.
Acquire(t) == /\ Held(name[t]) = {}
              /\ Move(t, "waiting", "held")
              /\ UNCHANGED name

\* The attempt ends without the lock, or before it starts.
GiveUp(t) == /\ phase[t] \in {"new", "waiting"}
             /\ phase' = [phase EXCEPT ![t] = "done"]
             /\ UNCHANGED name

\* The holder gives its own lock back.
Release(t) == Move(t, "held", "done") /\ UNCHANGED name

\* Leases run out: `lost` are tokens whose client goes on working, `dead`
\* tokens whose client does not, `asking` tokens whose client never learned
\* that it held the lock and asks again.
Lapse(lost, dead, asking) ==
  /\ \A t \in lost \cup dead \cup asking : phase[t] = "held"
  /\ phase' = [t \in Tokens |-> CASE t \in lost -> "lost"
                                 [] t \in dead \ lost -> "done"
                                 [] t \in asking \ (lost \cup dead) -> "waiting"
                                 [] OTHER -> phase[t]]
  /\ UNCHANGED name

\* A client whose lease ran out ends; its release changes no lock.
Leave(t) == Move(t, "lost", "done") /\ UNCHANGED name

Next == \/ \E t \in Tokens : \/ \E n \in Names : Ask(t, n)
                             \/ Acquire(t)
                             \/ GiveUp(t)
                             \/ Release(t)
                             \/ Leave(t)
        \/ \E lost, dead, asking \in SUBSET Tokens : Lapse(lost, dead, asking)

Spec == Init /\ [][Next]_vars

------------------------------------------------------------------------------
\* A lock never has two holders.
OneHolder == \A s, t \in Tokens :
               phase[s] = "held" /\ phase[t] = "held" /\ name[s] = name[t]
                 => s = t
==============================================================================
