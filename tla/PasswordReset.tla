---------------------------- MODULE PasswordReset ----------------------------
(***************************************************************************)
(* The password reset of one user: request_password_reset stores a code in *)
(* Redis, and confirm_password_reset, under the user's reset lock, counts  *)
(* the attempt, compares the code and sets the new password.  Requests and *)
(* confirmations run concurrently in any number of API processes.          *)
(*                                                                         *)
(* One action is the code between two awaits together with the operation   *)
(* awaited.  The logout_all that ends a confirmation is the subject of     *)
(* Sessions; here it is one step.                                          *)
(***************************************************************************)
EXTENDS Naturals, FiniteSets

CONSTANTS Confirms,     \* calls of confirm_password_reset
          Codes,        \* codes that are drawn, all different
          User, None, Forever,
          RateTtl,      \* 60_000 ms, in ticks
          CodeTtl,      \* ex=300 of reset:<u>
          AttemptsTtl,  \* EXPIRE 300 of reset_attempts:<u>
          LockTtl,      \* timeout_ms of the reset lock
          MaxAttempts,  \* 5
          MaxFaults     \* bound: crashes, errors and lost answers in a behaviour

ASSUME ResetAssumption ==
  /\ {RateTtl, CodeTtl, AttemptsTtl, LockTtl, MaxAttempts} \subseteq Nat \ {0}
  /\ MaxFaults \in Nat
  /\ AttemptsTtl >= CodeTtl
  /\ None \notin Confirms \cup Codes \cup {User}
  /\ Forever \notin Nat

VARIABLES
  rateTtl,                \* ratelimit:password_reset:<u>
  drawing,                \* requests between their SET NX and the SET of a code
  drawn, unanswered,      \* codes drawn so far; whose SET has got no answer
  code, codeTtl,          \* reset:<u>
  attempts, attemptsTtl,  \* reset_attempts:<u>
  lock, lockTtl,          \* lock:password_reset:<u>
  pc, tally,              \* each confirmation: next step, what INCR returned
  matched,                \* each confirmation: the code that was right
  faults,
  compared,               \* history: counted confirmations compared with each code
  used,                   \* history: confirmations that reset by each code
  straddled,              \* history: not counted for the life of the code they meet
  overran                 \* history: a confirmation has outlived its lease

requests == <<rateTtl, drawing, drawn, unanswered>>
count == <<attempts, attemptsTtl>>
leases == <<lock, lockTtl>>
calls == <<pc, tally, matched, faults>>
history == <<compared, used, straddled, overran>>
vars == <<requests, code, codeTtl, count, leases, calls, history>>

Within == {"incr", "expire", "get", "commit", "delcode", "delattempts", "revoke"}
Inside(c) == pc[c] \in Within

TypeOK ==
  /\ rateTtl \in 0 .. RateTtl
  /\ drawing \in Nat
  /\ drawn \subseteq Codes /\ unanswered \subseteq drawn
  /\ code \in Codes \cup {None}
  /\ codeTtl \in 0 .. CodeTtl
  /\ attempts \in Nat
  /\ attemptsTtl \in 0 .. AttemptsTtl \cup {Forever}
  /\ lock \in Confirms \cup {None}
  /\ lockTtl \in 0 .. LockTtl
  /\ pc \in [Confirms -> {"idle", "acquire", "release", "ended"} \cup Within]
  /\ tally \in [Confirms -> Nat]
  /\ matched \in [Confirms -> Codes \cup {None}]
  /\ faults \in 0 .. MaxFaults
  /\ compared \in [Codes -> Nat]
  /\ used \in [Codes -> Nat]
  /\ straddled \subseteq Confirms
  /\ overran \in BOOLEAN

Init ==
  /\ rateTtl = 0 /\ drawing = 0 /\ drawn = {} /\ unanswered = {}
  /\ code = None /\ codeTtl = 0
  /\ attempts = 0 /\ attemptsTtl = 0
  /\ lock = None /\ lockTtl = 0
  /\ pc = [c \in Confirms |-> "idle"]
  /\ tally = [c \in Confirms |-> 0]
  /\ matched = [c \in Confirms |-> None]
  /\ faults = 0
  /\ compared = [k \in Codes |-> 0]
  /\ used = [k \in Codes |-> 0]
  /\ straddled = {} /\ overran = FALSE

------------------------------------------------------------------------------
Goto(c, step) == pc' = [pc EXCEPT ![c] = step] /\ UNCHANGED faults
Fault == faults < MaxFaults /\ faults' = faults + 1

\* An operation is applied: its answer arrives, or is lost and the call
\* raises; the Redis client may also send a command again.
Applied(c, answered, raised) ==
  \/ Goto(c, answered)
  \/ Fault /\ pc' = [pc EXCEPT ![c] = raised]
Reply(c, answered, raised) ==
  Applied(c, answered, raised) \/ (Fault /\ UNCHANGED pc)

(* request_password_reset *)

\* SET NX PX of the rate limit.  (A second request before it ends is refused
\* and changes nothing.)  Bound: no more requests than Codes.
Request ==
  /\ rateTtl = 0
  /\ drawing + Cardinality(drawn) < Cardinality(Codes)
  /\ rateTtl' = RateTtl
  /\ drawing' = drawing + 1
  /\ UNCHANGED <<drawn, unanswered, code, codeTtl, count, leases, calls, history>>

\* SET of reset:<u> with ex=300.
Store(k) ==
  /\ code' = k /\ codeTtl' = CodeTtl
  /\ straddled' = straddled \cup {c \in Confirms : pc[c] = "get"}
  /\ UNCHANGED <<rateTtl, count, leases, pc, tally, matched, compared, used, overran>>

\* A fresh code replaces the one before; or its SET is applied without an answer.
Draw ==
  /\ drawing > 0
  /\ drawing' = drawing - 1
  /\ \E k \in Codes \ drawn :
       /\ Store(k)
       /\ drawn' = drawn \cup {k}
       /\ \/ UNCHANGED <<unanswered, faults>>
          \/ unanswered' = unanswered \cup {k} /\ Fault

\* Then the Redis client sends it again: the code lives anew, or again, whatever
\* was guessed, used or drawn since.
Resend(k) ==
  /\ k \in unanswered
  /\ Store(k)
  /\ \/ unanswered' = unanswered \ {k} /\ UNCHANGED faults
     \/ Fault /\ UNCHANGED unanswered
  /\ UNCHANGED <<drawing, drawn>>

\* An error or a crash after the rate limit was set: there is no code, and no
\* new request is taken before RateTtl is over.
FailRequest ==
  /\ drawing > 0
  /\ drawing' = drawing - 1
  /\ Fault
  /\ UNCHANGED <<rateTtl, drawn, unanswered, code, codeTtl, count, leases, pc, tally,
                 matched, history>>

(* confirm_password_reset *)

Confirm(c) ==
  /\ pc[c] = "idle"
  /\ Goto(c, "acquire")
  /\ UNCHANGED <<requests, code, codeTtl, count, leases, tally, matched, history>>

\* Mutant: SET without NX.
AcquireWithoutNX(c) ==
  /\ pc[c] = "acquire"
  /\ Reply(c, "incr", "ended")
  /\ lock' = c
  /\ lockTtl' = LockTtl
  /\ UNCHANGED <<requests, code, codeTtl, count, tally, matched, history>>

\* acquire_lock: SET NX PX, before the try block.
Acquire(c) ==
  /\ pc[c] = "acquire"
  /\ IF lock = None
       THEN /\ Reply(c, "incr", "ended")
            /\ lock' = c
            /\ lockTtl' = LockTtl
       ELSE /\ Reply(c, "ended", "ended")
            /\ UNCHANGED leases
  /\ UNCHANGED <<requests, code, codeTtl, count, tally, matched, history>>

\* INCR makes the counter without a TTL, or leaves the TTL that it has.
Incr(c) ==
  /\ pc[c] = "incr"
  /\ Reply(c, "expire", "release")
  /\ attempts' = attempts + 1
  /\ attemptsTtl' = IF attempts = 0 THEN Forever ELSE attemptsTtl
  /\ tally' = [tally EXCEPT ![c] = attempts + 1]
  /\ UNCHANGED <<requests, code, codeTtl, leases, matched, history>>

\* Mutant: EXPIRE NX, which does not renew the counter.
ExpireOnce(c) ==
  /\ pc[c] = "expire"
  /\ Reply(c, IF tally[c] > MaxAttempts THEN "release" ELSE "get", "release")
  /\ attemptsTtl' = IF attemptsTtl = Forever THEN AttemptsTtl ELSE attemptsTtl
  /\ UNCHANGED <<requests, code, codeTtl, attempts, leases, tally, matched, history>>

\* EXPIRE does nothing when the counter is gone; the sixth attempt is refused.
Expire(c) ==
  /\ pc[c] = "expire"
  /\ Reply(c, IF tally[c] > MaxAttempts THEN "release" ELSE "get", "release")
  /\ attemptsTtl' = IF attempts = 0 THEN attemptsTtl ELSE AttemptsTtl
  /\ UNCHANGED <<requests, code, codeTtl, attempts, leases, tally, matched, history>>

\* GET of the stored code, and its comparison with the one the caller sent,
\* which is right or wrong and was not looked at before.
Compare(c) ==
  /\ pc[c] = "get"
  /\ \/ Goto(c, "release") /\ UNCHANGED matched
     \/ pc' = [pc EXCEPT ![c] = "release"] /\ Fault /\ UNCHANGED matched
     \/ /\ code # None
        /\ Goto(c, "commit")
        /\ matched' = [matched EXCEPT ![c] = code]
  /\ compared' = [k \in Codes |-> IF k = code /\ c \notin straddled
                                 THEN compared[k] + 1 ELSE compared[k]]
  /\ UNCHANGED <<requests, code, codeTtl, count, leases, tally, used, straddled,
                 overran>>

Commit(c) ==
  /\ pc[c] = "commit"
  /\ Applied(c, "delcode", "release")
  /\ used' = [used EXCEPT ![matched[c]] = @ + 1]
  /\ matched' = [matched EXCEPT ![c] = None]
  /\ UNCHANGED <<requests, code, codeTtl, count, leases, tally, compared, straddled,
                 overran>>

\* DEL of reset:<u>, whichever code it holds by now.
DelCode(c) ==
  /\ pc[c] = "delcode"
  /\ Reply(c, "delattempts", "release")
  /\ code' = None /\ codeTtl' = 0
  /\ UNCHANGED <<requests, count, leases, tally, matched, history>>

DelAttempts(c) ==
  /\ pc[c] = "delattempts"
  /\ Reply(c, "revoke", "release")
  /\ attempts' = 0 /\ attemptsTtl' = 0
  /\ UNCHANGED <<requests, code, codeTtl, leases, tally, matched, history>>

\* logout_all.
Revoke(c) ==
  /\ pc[c] = "revoke"
  /\ Goto(c, "release")
  /\ UNCHANGED <<requests, code, codeTtl, count, leases, tally, matched, history>>

\* The finally block: RELEASE_LOCK_LUA deletes the key only for its own token.
\* What the call knew and what was recorded of it is over.
Release(c) ==
  /\ pc[c] = "release"
  /\ Reply(c, "ended", "ended")
  /\ lock' = IF lock = c THEN None ELSE lock
  /\ lockTtl' = IF lock = c THEN 0 ELSE lockTtl
  /\ tally' = [tally EXCEPT ![c] = 0]
  /\ straddled' = straddled \ {c}
  /\ UNCHANGED <<requests, code, codeTtl, count, matched, compared, used, overran>>

\* An awaited operation raises without having been applied.
Raise(c) ==
  /\ \/ pc[c] \in {"acquire", "release"} /\ pc' = [pc EXCEPT ![c] = "ended"]
     \/ Inside(c) /\ pc' = [pc EXCEPT ![c] = "release"]
  /\ Fault
  /\ UNCHANGED <<requests, code, codeTtl, count, leases, tally, matched, history>>

\* The API process dies: no finally block runs.
Crash(c) ==
  /\ pc[c] \in {"acquire", "release"} \cup Within
  /\ pc' = [pc EXCEPT ![c] = "ended"]
  /\ Fault
  /\ UNCHANGED <<requests, code, codeTtl, count, leases, tally, matched, history>>

\* Mutant: a life that goes on below zero.
LessUnclamped(n) == IF n = Forever THEN n ELSE n - 1

Less(n) == IF n = Forever THEN n ELSE IF n > 0 THEN n - 1 ELSE 0

\* A tick of Redis's clock: keys whose life ends are gone.
Tick ==
  /\ rateTtl + codeTtl + lockTtl > 0 \/ attemptsTtl \notin {0, Forever}
  /\ rateTtl' = Less(rateTtl)
  /\ codeTtl' = Less(codeTtl)
  /\ code' = IF codeTtl <= 1 THEN None ELSE code
  /\ attemptsTtl' = Less(attemptsTtl)
  /\ attempts' = IF attemptsTtl = 1 THEN 0 ELSE attempts
  /\ straddled' = IF attemptsTtl = 1
                  THEN straddled \cup {c \in Confirms : pc[c] = "expire"}
                  ELSE straddled
  /\ lockTtl' = Less(lockTtl)
  /\ lock' = IF lockTtl <= 1 THEN None ELSE lock
  /\ overran' = (overran \/ (lockTtl = 1 /\ \E c \in Confirms : Inside(c) /\ lock = c))
  /\ UNCHANGED <<drawing, drawn, unanswered, calls, compared, used>>

Step(c) == \/ Acquire(c) \/ Incr(c) \/ Expire(c) \/ Compare(c) \/ Commit(c)
           \/ DelCode(c) \/ DelAttempts(c) \/ Revoke(c) \/ Release(c)

Next == \/ Request \/ Draw \/ FailRequest
        \/ \E k \in Codes : Resend(k)
        \/ \E c \in Confirms : Confirm(c) \/ Step(c) \/ Raise(c) \/ Crash(c)
        \/ Tick

Spec == Init /\ [][Next]_vars

------------------------------------------------------------------------------
(* What must hold *)

\* While leases hold, each life of a code faces no more than MaxAttempts guesses,
\* although counter, code and lock expire on their own: whoever was compared with
\* the code was counted by one counter that outlives it.  Only a fault gives a
\* code another life, when its SET is sent again.  Not counted are a confirmation
\* whose counter ran out between its INCR and its EXPIRE, and one that stood
\* before its GET when the code was stored.
GuessesBounded ==
  ~overran => \A k \in Codes : compared[k] <= MaxAttempts * (1 + faults)

\* While leases hold, a code resets the password once, and once more for each
\* fault, since a fault can keep a confirmation from deleting the code it has used,
\* or bring back a code that was used.  A resent DEL and a code drawn meanwhile
\* cost nothing.
CodeSingleUse ==
  ~overran => \A k \in Codes : used[k] <= 1 + faults

\* The reset lock is a lease lock: the phase of each confirmation's token.
Phase(c) ==
  CASE lock = c -> "held"
    [] pc[c] = "idle" -> "new"
    [] pc[c] = "acquire" /\ lock # c -> "waiting"
    [] Inside(c) /\ lock # c -> "lost"
    [] OTHER -> "done"

Started == [c \in Confirms |-> IF pc[c] = "idle" THEN None ELSE User]

ResetLock == INSTANCE LeaseLock WITH Names <- {User}, Tokens <- Confirms,
               name <- Started, phase <- [c \in Confirms |-> Phase(c)]
ImplementsLeaseLock == ResetLock!Spec
==============================================================================
