--------------------------- MODULE SessionsProofs ---------------------------
(***************************************************************************)
(* What TLAPS proves of Sessions, for any numbers of logins and            *)
(* revocations, any life of a session and any number of faults.            *)
(***************************************************************************)
EXTENDS Sessions, TLAPS

\* A user without sessions is well typed.
LEMMA TypeInit == Init => TypeOK
  BY SessionAssumption DEF Init, TypeOK

\* Every step of login, logout and logout_all keeps every variable's type.
LEMMA TypeNext == TypeOK /\ [Next]_vars => TypeOK'
<1> SUFFICES ASSUME TypeOK, [Next]_vars PROVE TypeOK'
  OBVIOUS
<1> USE SessionAssumption DEF TypeOK, LoginSteps, RevokeSteps
<1>1. ASSUME NEW l \in Logins, Login(l) PROVE TypeOK'
  <2>1. CASE CheckPassword(l)
    BY <2>1 DEF CheckPassword, keys, revokers, history
  <2>2. CASE SetSession(l)
    BY <2>2 DEF SetSession, Applied, Fault, revokers, history
  <2>3. CASE List(l)
    BY <2>3 DEF List, Applied, Fault, revokers
  <2>4. CASE ExpireIndex(l)
    BY <2>4 DEF ExpireIndex, Applied, Fault, revokers, history
  <2>5. CASE FailLogin(l)
    BY <2>5 DEF FailLogin, Fault, keys, revokers, history
  <2> QED
    BY <1>1, <2>1, <2>2, <2>3, <2>4, <2>5 DEF Login
<1>2. ASSUME NEW l \in Logins, Logout(l) PROVE TypeOK'
  BY <1>2 DEF Logout, DelSession, Unlist, revokers, history
<1>3. ASSUME NEW v \in Revokers, LogoutAll(v) PROVE TypeOK'
  <2>1. CASE Begin(v)
    BY <2>1 DEF Begin, logins, keys, history
  <2>2. CASE CommitPassword(v)
    BY <2>2 DEF CommitPassword, Fault, logins, keys, history
  <2>3. CASE ReadIndex(v)
    BY <2>3 DEF ReadIndex, AppliedTo, Fault, logins, keys
  <2>4. CASE DelSeen(v)
    BY <2>4 DEF DelSeen, AppliedTo, Fault, logins, history
  <2>5. CASE DelIndex(v)
    BY <2>5 DEF DelIndex, AppliedTo, Fault, logins, history
  <2>6. CASE FailRevoke(v)
    BY <2>6 DEF FailRevoke, Fault, logins, keys, history
  <2> QED
    BY <1>3, <2>1, <2>2, <2>3, <2>4, <2>5, <2>6 DEF LogoutAll
<1>4. CASE Tick
  BY <1>4 DEF Tick, Less, revokers
<1>5. CASE UNCHANGED vars
  BY <1>5 DEF vars, logins, keys, revokers, history
<1> QED
  BY <1>1, <1>2, <1>3, <1>4, <1>5 DEF Next

\* Every variable keeps its type.
THEOREM TypeCorrect == Spec => []TypeOK
  BY TypeInit, TypeNext, PTL DEF Spec

------------------------------------------------------------------------------
\* A session that logout_all has to find, from SADD on.
Alive(l) == lpc[l] \in {"expire", "issued"} /\ session[l] > 0

\* It is in the index, which outlives it once EXPIRE was sent.
IndexInv ==
  \A l \in Logins \ raced : Alive(l) =>
    /\ l \in index
    /\ lpc[l] = "issued" => indexTtl = Forever \/ indexTtl >= session[l]

\* A logout_all that has read the index has seen it, and has ended it when it
\* goes on to delete the index.
SeenInv ==
  \A v \in Revokers, l \in Logins \ raced : Alive(l) =>
    /\ rpc[v] = "delete" => l \in seen[v]
    /\ rpc[v] # "delindex"

\* Tokens issued once stay issued or are logged out, and logout ends a session.
IssuedInv ==
  /\ \A l \in Logins : lpc[l] \in {"logout", "left"} => session[l] = 0
  /\ \A v \in Revokers : \A l \in due[v] : lpc[l] \in {"issued", "logout", "left"}

\* A login that showed an older password was on its way when the reset's
\* logout_all read the index, or is not on its way now.
PendingInv ==
  \A v \in Revokers :
    /\ made[v] <= password
    /\ rpc[v] \in {"delete", "delindex", "done"} =>
         \A l \in Logins : lpc[l] \in {"set", "sadd"} /\ secret[l] < made[v]
                             => l \in pending[v]

\* What lives after a completed logout_all is newer than it.
DoneInv ==
  \A v \in Revokers, l \in Logins \ raced : rpc[v] = "done" /\ Alive(l) =>
    l \notin due[v] /\ (secret[l] < made[v] => l \in pending[v])

Inv == IndexInv /\ SeenInv /\ IssuedInv /\ PendingInv /\ DoneInv

\* A new user has nothing to revoke.
LEMMA InvInit == Init => Inv
  BY DEF Init, Inv, IndexInv, SeenInv, IssuedInv, PendingInv, DoneInv, Alive

\* The steps of a login keep the invariant: what is listed while a logout_all is
\* at work is raced, and EXPIRE gives the index the life of the newest session.
LEMMA InvLogin ==
  ASSUME TypeOK, Inv, NEW l \in Logins, Login(l)
  PROVE  Inv'
<1> USE SessionAssumption DEF Inv
<1>1. CASE CheckPassword(l)
  <2>1. IndexInv' /\ SeenInv' /\ DoneInv'
    BY <1>1 DEF CheckPassword, keys, revokers, history, TypeOK, IndexInv, SeenInv,
                DoneInv, Alive
  <2>2. IssuedInv'
    BY <1>1 DEF CheckPassword, keys, revokers, history, TypeOK, IssuedInv
  <2>3. PendingInv'
    BY <1>1 DEF CheckPassword, keys, revokers, history, TypeOK, PendingInv
  <2> QED BY <2>1, <2>2, <2>3
<1>2. CASE SetSession(l)
  <2>1. lpc'[l] \in {"set", "sadd", "failed"} /\ lpc[l] = "set"
    BY <1>2 DEF SetSession, Applied, TypeOK
  <2>2. \A m \in Logins \ {l} : lpc'[m] = lpc[m] /\ session'[m] = session[m]
    BY <1>2 DEF SetSession, Applied, TypeOK
  <2>3. UNCHANGED <<secret, index, indexTtl, revokers, history>>
    BY <1>2 DEF SetSession
  <2>4. \A m \in Logins : Alive(m)' => m # l /\ Alive(m)
    BY <2>1, <2>2 DEF Alive
  <2>5. IndexInv' /\ SeenInv' /\ DoneInv'
    BY <2>1, <2>2, <2>3, <2>4 DEF revokers, history, IndexInv, SeenInv, DoneInv
  <2>6. IssuedInv' /\ PendingInv'
    BY <2>1, <2>2, <2>3 DEF revokers, history, IssuedInv, PendingInv, TypeOK
  <2> QED BY <2>5, <2>6
<1>3. CASE List(l)
  <2>1. /\ lpc[l] = "sadd" /\ lpc'[l] \in {"sadd", "expire", "failed"}
        /\ \A m \in Logins \ {l} : lpc'[m] = lpc[m]
    BY <1>3 DEF List, Applied, TypeOK
  <2>2. /\ index' = index \cup {l}
        /\ indexTtl' = IF index = {} THEN Forever ELSE indexTtl
        /\ raced' = IF Revoking # {} THEN raced \cup {l} ELSE raced
        /\ UNCHANGED <<secret, session, revokers, due, pending>>
    BY <1>3 DEF List
  <2>3. \A m \in Logins : Alive(m)' => m = l \/ Alive(m)
    BY <2>1, <2>2 DEF Alive
  <2>4. IndexInv'
    BY <2>1, <2>2, <2>3 DEF IndexInv
  <2>5. SeenInv'
    BY <2>1, <2>2, <2>3 DEF SeenInv, Revoking, revokers
  <2>6. IssuedInv' /\ PendingInv'
    BY <2>1, <2>2 DEF IssuedInv, PendingInv, revokers, TypeOK
  <2>7. DoneInv'
    BY <2>1, <2>2, <2>3 DEF DoneInv, IssuedInv, PendingInv, revokers
  <2> QED BY <2>4, <2>5, <2>6, <2>7
<1>4. CASE ExpireIndex(l)
  <2>1. /\ lpc[l] = "expire" /\ lpc'[l] \in {"expire", "issued", "failed"}
        /\ \A m \in Logins \ {l} : lpc'[m] = lpc[m]
    BY <1>4 DEF ExpireIndex, Applied, TypeOK
  <2>2. /\ indexTtl' = IF index = {} THEN indexTtl ELSE SessionTtl
        /\ UNCHANGED <<secret, session, index, revokers, history>>
    BY <1>4 DEF ExpireIndex
  <2>3. \A m \in Logins : Alive(m)' => Alive(m)
    BY <2>1, <2>2 DEF Alive
  <2>4. \A m \in Logins : SessionTtl >= session[m]
    BY DEF TypeOK
  <2>5. IndexInv'
    BY <2>1, <2>2, <2>3, <2>4 DEF IndexInv, history
  <2>6. SeenInv' /\ DoneInv'
    BY <2>1, <2>2, <2>3 DEF SeenInv, DoneInv, revokers, history
  <2>7. IssuedInv' /\ PendingInv'
    BY <2>1, <2>2 DEF IssuedInv, PendingInv, revokers, history, TypeOK
  <2> QED BY <2>5, <2>6, <2>7
<1>5. CASE FailLogin(l)
  <2>1. /\ l \in Running /\ lpc'[l] = "failed"
        /\ \A m \in Logins \ {l} : lpc'[m] = lpc[m]
        /\ UNCHANGED <<secret, keys, revokers, history>>
    BY <1>5 DEF FailLogin, TypeOK
  <2>2. \A m \in Logins : Alive(m)' => m # l /\ Alive(m)
    BY <2>1 DEF Alive, keys
  <2>3. IndexInv' /\ SeenInv' /\ DoneInv'
    BY <2>1, <2>2 DEF IndexInv, SeenInv, DoneInv, keys, revokers, history
  <2>4. IssuedInv' /\ PendingInv'
    BY <2>1 DEF IssuedInv, PendingInv, Running, LoginSteps, keys, revokers, history,
                TypeOK
  <2> QED BY <2>3, <2>4
<1> QED
  BY <1>1, <1>2, <1>3, <1>4, <1>5 DEF Login

\* logout keeps the invariant: it ends its session before it leaves the index.
LEMMA InvLogout ==
  ASSUME TypeOK, Inv, NEW l \in Logins, Logout(l)
  PROVE  Inv'
<1> USE DEF Inv
<1>1. /\ lpc[l] \in {"issued", "logout"} /\ lpc'[l] \in {"logout", "left"}
      /\ session'[l] = 0
      /\ \A m \in Logins \ {l} : lpc'[m] = lpc[m] /\ session'[m] = session[m]
      /\ index' \in {index, index \ {l}}
      /\ indexTtl' = indexTtl \/ index' = {}
      /\ UNCHANGED <<secret, revokers, history>>
  BY DEF Logout, DelSession, Unlist, Valid, Issued, IssuedInv, TypeOK
<1>2. \A m \in Logins : Alive(m)' => m # l /\ Alive(m)
  BY <1>1 DEF Alive
<1>3. IndexInv' /\ SeenInv' /\ DoneInv'
  BY <1>1, <1>2 DEF IndexInv, SeenInv, DoneInv, revokers, history
<1>4. IssuedInv' /\ PendingInv'
  BY <1>1 DEF IssuedInv, PendingInv, revokers, history, TypeOK
<1> QED BY <1>3, <1>4

\* logout_all keeps the invariant.
LEMMA InvLogoutAll ==
  ASSUME TypeOK, Inv, NEW v \in Revokers, LogoutAll(v)
  PROVE  Inv'
<1> USE DEF Inv
<1>1. CASE Begin(v) \/ FailRevoke(v)
  <2>1. /\ rpc'[v] \in {"smembers", "commit", "failed"}
        /\ \A w \in Revokers \ {v} : rpc'[w] = rpc[w]
        /\ UNCHANGED <<logins, keys, seen, password, made, history>>
    BY <1>1 DEF Begin, FailRevoke, TypeOK
  <2>2. IndexInv' /\ SeenInv' /\ DoneInv'
    BY <2>1 DEF IndexInv, SeenInv, DoneInv, Alive, logins, keys, history
  <2>3. IssuedInv' /\ PendingInv'
    BY <2>1 DEF IssuedInv, PendingInv, logins, keys, history
  <2> QED BY <2>2, <2>3
<1>2. CASE CommitPassword(v)
  <2>1. /\ rpc'[v] \in {"smembers", "failed"}
        /\ \A w \in Revokers \ {v} : rpc'[w] = rpc[w] /\ made'[w] = made[w]
        /\ password' = password + 1 /\ made'[v] = password + 1
        /\ UNCHANGED <<logins, keys, seen, history>>
    BY <1>2 DEF CommitPassword, TypeOK
  <2>2. IndexInv' /\ SeenInv' /\ DoneInv'
    BY <2>1 DEF IndexInv, SeenInv, DoneInv, Alive, logins, keys, history
  <2>3. IssuedInv' /\ PendingInv'
    BY <2>1 DEF IssuedInv, PendingInv, logins, keys, history, TypeOK
  <2> QED BY <2>2, <2>3
<1>3. CASE ReadIndex(v)
  <2>1. /\ rpc[v] = "smembers"
        /\ \/ rpc'[v] = IF index = {} THEN "delindex" ELSE "delete"
           \/ rpc'[v] \in {"smembers", "failed"}
        /\ \A w \in Revokers \ {v} : /\ rpc'[w] = rpc[w] /\ seen'[w] = seen[w]
                                     /\ due'[w] = due[w] /\ pending'[w] = pending[w]
    BY <1>3 DEF ReadIndex, AppliedTo, TypeOK
  <2>2. /\ seen'[v] = index
        /\ due'[v] = {l \in Logins : Issued(l)}
        /\ pending'[v] = {l \in Logins : lpc[l] \in {"set", "sadd"}}
        /\ UNCHANGED <<logins, keys, password, made, raced>>
    BY <1>3 DEF ReadIndex, TypeOK
  <2>3. \A l \in Logins : Alive(l)' <=> Alive(l)
    BY <2>2 DEF Alive, logins, keys
  <2>4. IndexInv'
    BY <2>2, <2>3 DEF IndexInv, logins, keys
  <2>5. SeenInv'
    BY <2>1, <2>2, <2>3 DEF IndexInv, SeenInv
  <2>6. IssuedInv'
    BY <2>1, <2>2 DEF IssuedInv, Issued, logins, keys
  <2>7. PendingInv'
    BY <2>1, <2>2 DEF PendingInv, logins
  <2>8. DoneInv'
    BY <2>1, <2>2, <2>3 DEF DoneInv, logins
  <2> QED BY <2>4, <2>5, <2>6, <2>7, <2>8
<1>4. CASE DelSeen(v)
  <2>1. /\ rpc[v] = "delete" /\ rpc'[v] \in {"delete", "delindex", "failed"}
        /\ \A w \in Revokers \ {v} : rpc'[w] = rpc[w] /\ seen'[w] = seen[w]
        /\ rpc'[v] = "delete" => seen'[v] = seen[v]
    BY <1>4 DEF DelSeen, AppliedTo, TypeOK
  <2>2. /\ session' = [l \in Logins |-> IF l \in seen[v] THEN 0 ELSE session[l]]
        /\ UNCHANGED <<logins, index, indexTtl, password, made, history>>
    BY <1>4 DEF DelSeen
  <2>3. \A l \in Logins : Alive(l)' => Alive(l) /\ l \notin seen[v] /\ session'[l] = session[l]
    BY <2>2 DEF Alive, logins
  <2>4. IndexInv'
    BY <2>2, <2>3 DEF IndexInv, logins, history
  <2>5. SeenInv'
    BY <2>1, <2>2, <2>3 DEF SeenInv, history
  <2>6. IssuedInv' /\ PendingInv'
    BY <2>1, <2>2 DEF IssuedInv, PendingInv, logins, history
  <2>7. DoneInv'
    BY <2>1, <2>2, <2>3 DEF DoneInv, logins, history
  <2> QED BY <2>4, <2>5, <2>6, <2>7
<1>5. CASE DelIndex(v)
  <2>1. /\ rpc[v] = "delindex" /\ rpc'[v] \in {"delindex", "done", "failed"}
        /\ \A w \in Revokers \ {v} : rpc'[w] = rpc[w]
        /\ UNCHANGED <<logins, session, seen, password, made, history>>
    BY <1>5 DEF DelIndex, AppliedTo, TypeOK
  <2>2. \A l \in Logins \ raced : ~Alive(l)
    BY <2>1 DEF SeenInv
  <2>3. \A l \in Logins : Alive(l)' <=> Alive(l)
    BY <2>1 DEF Alive, logins
  <2>4. IndexInv' /\ SeenInv' /\ DoneInv'
    BY <2>1, <2>2, <2>3 DEF IndexInv, SeenInv, DoneInv, history
  <2>5. IssuedInv' /\ PendingInv'
    BY <2>1 DEF IssuedInv, PendingInv, logins, history
  <2> QED BY <2>4, <2>5
<1> QED
  BY <1>1, <1>2, <1>3, <1>4, <1>5 DEF LogoutAll

\* The clock keeps the invariant: the index runs out no sooner than a session it
\* lists, except under a login that has yet to send EXPIRE.
LEMMA InvTick ==
  ASSUME TypeOK, Inv, Tick
  PROVE  Inv'
<1> USE SessionAssumption DEF Inv
<1>1. /\ UNCHANGED <<lpc, secret, revokers, due, pending>>
      /\ raced \subseteq raced'
      /\ indexTtl = 1 => \A l \in Logins : lpc[l] = "expire" => l \in raced'
      /\ indexTtl # 1 => index' = index
  BY DEF Tick
<1>2. \A l \in Logins : /\ session[l] \in Nat
                        /\ session'[l] = IF session[l] > 0 THEN session[l] - 1 ELSE 0
  BY DEF Tick, Less, TypeOK
<1>3. \A l \in Logins : Alive(l)' => Alive(l) /\ session[l] > 1 /\ session'[l] = session[l] - 1
  BY <1>1, <1>2 DEF Alive
<1>4. IndexInv'
  <2> SUFFICES ASSUME NEW l \in Logins, l \notin raced', Alive(l)'
               PROVE  /\ l \in index'
                      /\ lpc'[l] = "issued" => indexTtl' = Forever \/ indexTtl' >= session'[l]
    BY DEF IndexInv
  <2>1. l \notin raced /\ Alive(l) /\ session[l] > 1 /\ session'[l] = session[l] - 1
    BY <1>1, <1>3
  <2>2. l \in index
    BY <2>1 DEF IndexInv
  <2>3. CASE lpc[l] = "expire"
    BY <1>1, <2>2, <2>3
  <2>4. CASE lpc[l] = "issued"
    <3>1. indexTtl = Forever \/ indexTtl >= session[l]
      BY <2>1, <2>4 DEF IndexInv
    <3>2. CASE indexTtl = Forever
      BY <3>2, <1>1, <2>2 DEF Tick, Less
    <3>3. CASE indexTtl # Forever /\ indexTtl >= session[l]
      <4>1. indexTtl \in Nat /\ indexTtl > 1
        BY <3>3, <2>1, <1>2 DEF TypeOK
      <4>2. indexTtl' = indexTtl - 1
        BY <4>1, <3>3 DEF Tick, Less
      <4> QED BY <4>1, <4>2, <3>3, <2>1, <1>1, <1>2, <2>2
    <3> QED BY <3>1, <3>2, <3>3
  <2> QED BY <2>1, <2>3, <2>4 DEF Alive
<1>5. SeenInv' /\ DoneInv'
  BY <1>1, <1>3 DEF SeenInv, DoneInv, revokers
<1>6. IssuedInv' /\ PendingInv'
  BY <1>1, <1>2 DEF IssuedInv, PendingInv, revokers
<1> QED BY <1>4, <1>5, <1>6

\* The invariant holds throughout.
LEMMA InvAlways == Spec => []Inv
<1>1. TypeOK /\ Inv /\ UNCHANGED vars => Inv'
  BY DEF vars, logins, keys, revokers, history, Inv, IndexInv, SeenInv, IssuedInv,
         PendingInv, DoneInv, Alive
<1>2. TypeOK /\ Inv /\ [Next]_vars => Inv'
  BY <1>1, InvLogin, InvLogout, InvLogoutAll, InvTick DEF Next
<1> QED
  BY InvInit, <1>2, TypeCorrect, PTL DEF Spec

------------------------------------------------------------------------------
\* The index lists every live session that was issued, for as long as it lives,
\* but for logins that raced with a logout_all or with the end of the index.
THEOREM Listed == Spec => []SessionsListed
<1>1. Inv => SessionsListed
  BY DEF Inv, IndexInv, IssuedInv, Alive, Issued, Valid, SessionsListed
<1> QED BY <1>1, InvAlways, PTL

\* A completed logout_all has ended every session issued before it, with the
\* same exception.
THEOREM Complete == Spec => []LogoutAllComplete
<1>1. TypeOK /\ Inv => LogoutAllComplete
  <2> SUFFICES ASSUME TypeOK, Inv, NEW v \in Revokers, NEW l \in Logins,
                      rpc[v] = "done", l \in due[v], session[l] > 0, l \notin raced
               PROVE  FALSE
    BY DEF LogoutAllComplete
  <2>1. Alive(l)
    BY DEF Inv, IssuedInv, Alive, TypeOK
  <2> QED BY <2>1 DEF Inv, DoneInv
<1> QED BY <1>1, InvAlways, TypeCorrect, PTL

\* After a completed reset an older password opens no session, save for a login
\* that was already on its way.
THEOREM OldOut == Spec => []OldPasswordsAreOut
<1>1. Inv => OldPasswordsAreOut
  BY DEF Inv, DoneInv, IssuedInv, Alive, Issued, Valid, OldPasswordsAreOut
<1> QED BY <1>1, InvAlways, PTL
==============================================================================
