------------------------------- MODULE Sessions -------------------------------
(***************************************************************************)
(* The sessions of one user: AuthService.authenticate registers a JWT in   *)
(* Redis (session:<jti>) and lists it in user_sessions:<id>, logout takes  *)
(* it back, and logout_all, called by its endpoint and at the end of       *)
(* confirm_password_reset, takes back all that are listed.  The keys of    *)
(* two users are disjoint, so one user is enough.                          *)
(*                                                                         *)
(* One action is one Redis or database operation of a call; a call may end *)
(* after any of them, with its answer lost, by an error or with its        *)
(* process.                                                                *)
(***************************************************************************)
EXTENDS Naturals, FiniteSets

CONSTANTS Logins,      \* calls of authenticate; each stands for its jti as well
          Revokers,    \* calls of logout_all
          SessionTtl,  \* ACCESS_TOKEN_EXPIRE_SECONDS, in ticks
          Forever,     \* the life of a key that has no TTL
          MaxFaults    \* bound: calls that fail, and commands that are resent

ASSUME SessionAssumption == /\ SessionTtl \in Nat \ {0}
                            /\ Forever \notin Nat
                            /\ MaxFaults \in Nat

VARIABLES
  lpc,                 \* each login: next step, and what became of it
  secret,              \* each login: the password it showed, by its number
  session,             \* session:<jti>: ticks it has left, 0 when absent
  index, indexTtl,     \* user_sessions:<id>, and its life
  rpc, seen,           \* each logout_all: next step, what SMEMBERS returned
  password, made,      \* password in force; the one each logout_all's caller set
  faults,
  raced,               \* history: logins whose listing logout_all may have missed
  due, pending         \* history: tokens issued before each SMEMBERS, and
                       \* logins then on their way to SADD

logins == <<lpc, secret>>
keys == <<session, index, indexTtl>>
revokers == <<rpc, seen, password, made>>
history == <<raced, due, pending>>
vars == <<logins, keys, revokers, faults, history>>

LoginSteps == {"set", "sadd", "expire"}
RevokeSteps == {"commit", "smembers", "delete", "delindex"}

TypeOK ==
  /\ lpc \in [Logins -> {"idle"} \cup LoginSteps
                          \cup {"issued", "logout", "left", "failed"}]
  /\ session \in [Logins -> 0 .. SessionTtl]
  /\ secret \in [Logins -> Nat]
  /\ index \subseteq Logins
  /\ indexTtl \in 0 .. SessionTtl \cup {Forever}
  /\ rpc \in [Revokers -> {"idle"} \cup RevokeSteps \cup {"done", "failed"}]
  /\ seen \in [Revokers -> SUBSET Logins]
  /\ password \in Nat
  /\ made \in [Revokers -> Nat]
  /\ faults \in 0 .. MaxFaults
  /\ raced \subseteq Logins
  /\ due \in [Revokers -> SUBSET Logins]
  /\ pending \in [Revokers -> SUBSET Logins]

Init ==
  /\ lpc = [l \in Logins |-> "idle"]
  /\ session = [l \in Logins |-> 0]
  /\ secret = [l \in Logins |-> 0]
  /\ index = {} /\ indexTtl = 0
  /\ rpc = [v \in Revokers |-> "idle"]
  /\ seen = [v \in Revokers |-> {}]
  /\ password = 0
  /\ made = [v \in Revokers |-> 0]
  /\ faults = 0
  /\ raced = {}
  /\ due = [v \in Revokers |-> {}]
  /\ pending = [v \in Revokers |-> {}]

------------------------------------------------------------------------------
Fault == faults < MaxFaults /\ faults' = faults + 1

\* A command of login l is applied: its answer arrives, or is lost and the
\* call raises, or is lost and the client sends the command again.
Applied(l, answered) ==
  \/ lpc' = [lpc EXCEPT ![l] = answered] /\ UNCHANGED faults
  \/ lpc' = [lpc EXCEPT ![l] = "failed"] /\ Fault
  \/ UNCHANGED lpc /\ Fault

AppliedTo(v, answered) ==
  \/ rpc' = [rpc EXCEPT ![v] = answered] /\ UNCHANGED faults
  \/ rpc' = [rpc EXCEPT ![v] = "failed"] /\ Fault
  \/ UNCHANGED rpc /\ Fault

Running == {l \in Logins : lpc[l] \in LoginSteps}
\* logout_all has read the index and has not deleted it yet.
Revoking == {v \in Revokers : rpc[v] \in {"delete", "delindex"}}

\* The caller has been given the token, and may have logged out, or failed to.
Issued(l) == lpc[l] \in {"issued", "logout", "left"}

\* validate_session: session:<jti> exists.  (The exp claim of the token runs
\* from create_access_token on and SessionTtl from SET: leaving it out can only
\* keep a token valid for longer.)
Valid(l) == Issued(l) /\ session[l] > 0

(* authenticate *)

\* The password is the one in force; create_access_token draws the jti.
CheckPassword(l) ==
  /\ lpc[l] = "idle"
  /\ lpc' = [lpc EXCEPT ![l] = "set"]
  /\ secret' = [secret EXCEPT ![l] = password]
  /\ UNCHANGED <<keys, revokers, faults, history>>

SetSession(l) ==
  /\ lpc[l] = "set"
  /\ Applied(l, "sadd")
  /\ session' = [session EXCEPT ![l] = SessionTtl]
  /\ UNCHANGED <<secret, index, indexTtl, revokers, history>>

\* SADD makes the key without a TTL, or leaves the TTL that it has.
List(l) ==
  /\ lpc[l] = "sadd"
  /\ Applied(l, "expire")
  /\ index' = index \cup {l}
  /\ indexTtl' = IF index = {} THEN Forever ELSE indexTtl
  /\ raced' = IF Revoking # {} THEN raced \cup {l} ELSE raced
  /\ UNCHANGED <<secret, session, revokers, due, pending>>

\* Mutant: EXPIRE NX, which leaves an index with a TTL as it is.
ExpireIndexOnce(l) ==
  /\ lpc[l] = "expire"
  /\ Applied(l, "issued")
  /\ indexTtl' = IF indexTtl = Forever THEN SessionTtl ELSE indexTtl
  /\ UNCHANGED <<secret, session, index, revokers, history>>

\* EXPIRE does nothing when the key is gone.
ExpireIndex(l) ==
  /\ lpc[l] = "expire"
  /\ Applied(l, "issued")
  /\ indexTtl' = IF index = {} THEN indexTtl ELSE SessionTtl
  /\ UNCHANGED <<secret, session, index, revokers, history>>

FailLogin(l) ==
  /\ l \in Running
  /\ lpc' = [lpc EXCEPT ![l] = "failed"]
  /\ Fault
  /\ UNCHANGED <<secret, keys, revokers, history>>

(* logout: DEL of the session, then SREM; Redis drops an empty set.  A call
   that fails stops where it is; sending either command again changes nothing. *)

DelSession(l) ==
  /\ Valid(l)
  /\ lpc' = [lpc EXCEPT ![l] = "logout"]
  /\ session' = [session EXCEPT ![l] = 0]
  /\ UNCHANGED <<secret, index, indexTtl, revokers, faults, history>>

Unlist(l) ==
  /\ lpc[l] = "logout"
  /\ lpc' = [lpc EXCEPT ![l] = "left"]
  /\ index' = index \ {l}
  /\ indexTtl' = IF index' = {} THEN 0 ELSE indexTtl
  /\ UNCHANGED <<secret, session, revokers, faults, history>>

(* logout_all *)

\* The endpoint, for a caller whose own session is valid; or
\* confirm_password_reset, on its way to commit the new password.
Begin(v) ==
  /\ rpc[v] = "idle"
  /\ \/ /\ \E l \in Logins : Valid(l)
        /\ rpc' = [rpc EXCEPT ![v] = "smembers"]
     \/ rpc' = [rpc EXCEPT ![v] = "commit"]
  /\ UNCHANGED <<logins, keys, seen, password, made, faults, history>>

\* Mutant: a password reset without logout_all.
CommitOnly(v) ==
  /\ rpc[v] = "commit"
  /\ rpc' = [rpc EXCEPT ![v] = "done"]
  /\ password' = password + 1
  /\ made' = [made EXCEPT ![v] = password + 1]
  /\ UNCHANGED <<logins, keys, seen, faults, history>>

\* The two DELs of the reset's own keys follow the commit.
CommitPassword(v) ==
  /\ rpc[v] = "commit"
  /\ \/ rpc' = [rpc EXCEPT ![v] = "smembers"] /\ UNCHANGED faults
     \/ rpc' = [rpc EXCEPT ![v] = "failed"] /\ Fault
  /\ password' = password + 1
  /\ made' = [made EXCEPT ![v] = password + 1]
  /\ UNCHANGED <<logins, keys, seen, history>>

ReadIndex(v) ==
  /\ rpc[v] = "smembers"
  /\ AppliedTo(v, IF index = {} THEN "delindex" ELSE "delete")
  /\ seen' = [seen EXCEPT ![v] = index]
  /\ due' = [due EXCEPT ![v] = {l \in Logins : Issued(l)}]
  /\ pending' = [pending EXCEPT ![v] = {l \in Logins : lpc[l] \in {"set", "sadd"}}]
  /\ UNCHANGED <<logins, keys, password, made, raced>>

DelSeen(v) ==
  /\ rpc[v] = "delete"
  /\ AppliedTo(v, "delindex")
  /\ seen' = [seen EXCEPT ![v] = IF rpc'[v] = "delete" THEN @ ELSE {}]
  /\ session' = [l \in Logins |-> IF l \in seen[v] THEN 0 ELSE session[l]]
  /\ UNCHANGED <<logins, index, indexTtl, password, made, history>>

DelIndex(v) ==
  /\ rpc[v] = "delindex"
  /\ AppliedTo(v, "done")
  /\ index' = {} /\ indexTtl' = 0
  /\ UNCHANGED <<logins, session, seen, password, made, history>>

FailRevoke(v) ==
  /\ rpc[v] \in RevokeSteps
  /\ rpc' = [rpc EXCEPT ![v] = "failed"]
  /\ Fault
  /\ UNCHANGED <<logins, keys, seen, password, made, history>>

\* Mutant: a life that goes on below zero.
LessUnclamped(n) == IF n = Forever THEN n ELSE n - 1

\* Redis's clock.
Less(n) == IF n = Forever THEN n ELSE IF n > 0 THEN n - 1 ELSE 0

Tick ==
  /\ \/ \E l \in Logins : session[l] > 0
     \/ indexTtl \notin {0, Forever}
  /\ session' = [l \in Logins |-> Less(session[l])]
  /\ indexTtl' = Less(indexTtl)
  /\ index' = IF indexTtl = 1 THEN {} ELSE index
  /\ raced' = IF indexTtl = 1 THEN raced \cup {l \in Logins : lpc[l] = "expire"}
                              ELSE raced
  /\ UNCHANGED <<lpc, secret, revokers, faults, due, pending>>

Login(l) == \/ CheckPassword(l) \/ SetSession(l) \/ List(l) \/ ExpireIndex(l)
            \/ FailLogin(l)

\* Mutant: SREM, then DEL of the session.
LogoutUnlistsFirst(l) ==
  \/ /\ Valid(l) /\ lpc[l] = "issued"
     /\ lpc' = [lpc EXCEPT ![l] = "logout"]
     /\ index' = index \ {l}
     /\ indexTtl' = IF index' = {} THEN 0 ELSE indexTtl
     /\ UNCHANGED <<secret, session, revokers, faults, history>>
  \/ /\ lpc[l] = "logout"
     /\ lpc' = [lpc EXCEPT ![l] = "left"]
     /\ session' = [session EXCEPT ![l] = 0]
     /\ UNCHANGED <<secret, index, indexTtl, revokers, faults, history>>

Logout(l) == DelSession(l) \/ Unlist(l)

LogoutAll(v) == \/ Begin(v) \/ CommitPassword(v) \/ ReadIndex(v) \/ DelSeen(v)
                \/ DelIndex(v) \/ FailRevoke(v)

Next == \/ \E l \in Logins : Login(l) \/ Logout(l)
        \/ \E v \in Revokers : LogoutAll(v)
        \/ Tick

Spec == Init /\ [][Next]_vars

------------------------------------------------------------------------------
(* What must hold *)

\* What logout_all rests on: the index lists the session of every token that
\* was issued, for as long as the session lives, also when a logout has stopped
\* between its two commands, unless it was listed while some logout_all was at
\* work or the index ran out before EXPIRE renewed it.
SessionsListed ==
  \A l \in Logins \ raced : Valid(l) =>
    l \in index /\ (indexTtl = Forever \/ indexTtl >= session[l])

\* A completed logout_all leaves no session of a token issued before it read
\* the index, however other logins, logouts and revocations interleave or stop.
LogoutAllComplete ==
  \A v \in Revokers, l \in Logins :
    rpc[v] = "done" /\ l \in due[v] /\ session[l] > 0 => l \in raced

\* After a completed password reset nobody is logged in by an older password,
\* save a login that had shown it and was still on its way to SADD.
OldPasswordsAreOut ==
  \A v \in Revokers, l \in Logins :
    rpc[v] = "done" /\ secret[l] < made[v] /\ Valid(l)
      => l \in raced \cup pending[v]

\* logout_all: "Revoke all active sessions for the user."
AllSessionsRevoked ==
  \A v \in Revokers, l \in Logins :
    rpc[v] = "done" /\ l \in due[v] => ~Valid(l)
==============================================================================
