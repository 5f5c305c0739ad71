------------------------- MODULE PasswordResetProofs -------------------------
(***************************************************************************)
(* Theorems about PasswordReset: types, how often a code can be guessed    *)
(* and used, and that its lock is a lease lock.                            *)
(***************************************************************************)
EXTENDS PasswordReset, TLAPS

\* A lock that is held has a life and a confirmation that has asked for it; a
\* confirmation inside holds it, or one has outlived its lease.
LeaseInv ==
  /\ lock # None => lockTtl > 0 /\ pc[lock] # "idle"
  /\ ~overran => \A c \in Confirms : Inside(c) => lock = c

\* The stored code has been drawn; what has not been drawn was never met.
CodeInv ==
  /\ code # None => code \in drawn /\ codeTtl > 0
  /\ \A c \in Confirms : /\ matched[c] # None => matched[c] \in drawn
                         /\ pc[c] = "commit" => matched[c] # None
  /\ \A k \in Codes \ drawn : compared[k] = 0 /\ used[k] = 0

\* The faults that may have given a code another life before this one: the last
\* fault of a SET without an answer is for the life that it may give.
Lives == [k \in Codes |-> IF k \in unanswered THEN faults - 1 ELSE faults]
LivesInv == unanswered # {} => faults > 0

\* The guesses that may have been made in those lives.
Past == [k \in Codes |-> MaxAttempts * Lives[k]]

\* The counter outlives the stored code.
Covers == attemptsTtl = Forever \/ attemptsTtl >= codeTtl

\* The guesses at the stored code in its present life are counted.
Counted == code # None /\ compared[code] > Past[code] =>
             attempts + Past[code] >= compared[code] /\ Covers

\* The attempt of a confirmation is the last that was counted, and its guess is not
\* among those that were compared.
Fresh(c) == /\ attempts = tally[c] /\ attempts > 0
            /\ code # None => compared[code] < tally[c] + Past[code]

\* The guess of confirmation c is counted before it is compared.
CountedFirst(c) ==
  /\ pc[c] = "expire" => c \in straddled \/ Fresh(c)
  /\ pc[c] = "get" => \/ c \in straddled \/ code = None
                      \/ Fresh(c) /\ Covers /\ tally[c] <= MaxAttempts
  /\ pc[c] = "delattempts" => code = None \/ compared[code] <= Past[code]

GuessInv == ~overran => /\ \A k \in Codes : compared[k] <= MaxAttempts + Past[k]
                        /\ Counted
                        /\ \A c \in Confirms : CountedFirst(c)

\* Each use but one is paid for by a fault, also the next one of a code that is
\* about to be used, or is there and not about to be deleted.
UseInv == ~overran =>
  /\ \A k \in Codes : used[k] <= 1 + Lives[k]
  /\ \A c \in Confirms : pc[c] = "commit" => used[matched[c]] <= Lives[matched[c]]
  /\ code # None => used[code] <= Lives[code] \/ \E c \in Confirms : pc[c] = "delcode"

Inv == TypeOK /\ LivesInv /\ LeaseInv /\ CodeInv /\ GuessInv /\ UseInv

------------------------------------------------------------------------------
(* Types *)

\* The names of the steps.
Steps == {"idle", "acquire", "release", "ended"} \cup Within

\* Where a step leads, however it is answered.
LEMMA Leads ==
  ASSUME TypeOK, NEW c \in Confirms, NEW answered \in Steps, NEW raised \in Steps,
         Reply(c, answered, raised) \/ Applied(c, answered, raised) \/ Goto(c, answered)
  PROVE  /\ pc' \in [Confirms -> Steps]
         /\ pc'[c] \in {pc[c], answered, raised}
         /\ \A d \in Confirms \ {c} : pc'[d] = pc[d]
         /\ faults' \in 0 .. MaxFaults /\ faults' >= faults
  BY ResetAssumption DEF TypeOK, Steps, Within, Reply, Applied, Goto, Fault

LEMMA TypeInit == Init => TypeOK
<1> SUFFICES ASSUME Init PROVE TypeOK
  OBVIOUS
<1>1. /\ pc \in [Confirms -> Steps] /\ tally \in [Confirms -> Nat]
      /\ matched \in [Confirms -> Codes \cup {None}]
      /\ compared \in [Codes -> Nat] /\ used \in [Codes -> Nat]
  BY DEF Init, Steps
<1>2. /\ rateTtl \in 0 .. RateTtl /\ codeTtl \in 0 .. CodeTtl /\ lockTtl \in 0 .. LockTtl
      /\ attemptsTtl \in 0 .. AttemptsTtl /\ faults \in 0 .. MaxFaults
  BY ResetAssumption DEF Init
<1>3. /\ drawn \subseteq Codes /\ unanswered \subseteq drawn
      /\ straddled \subseteq Confirms /\ overran \in BOOLEAN
  BY DEF Init
<1> QED
  BY <1>1, <1>2, <1>3 DEF Init, TypeOK, Steps

LEMMA TypeNext == TypeOK /\ [Next]_vars => TypeOK'
<1> SUFFICES ASSUME TypeOK, [Next]_vars PROVE TypeOK'
  OBVIOUS
<1> USE ResetAssumption DEF requests, count, leases, calls, history
<1>1. CASE Request
  BY <1>1 DEF Request, TypeOK
<1>2. CASE Draw \/ \E k \in Codes : Resend(k)
  <2>1. /\ code' \in Codes /\ codeTtl' = CodeTtl /\ straddled' \subseteq Confirms
        /\ UNCHANGED <<rateTtl, count, leases, pc, tally, matched, compared, used, overran>>
    BY <1>2 DEF Draw, Resend, Store, TypeOK
  <2>2. /\ drawing' \in Nat /\ drawn' \subseteq Codes /\ unanswered' \subseteq drawn'
        /\ faults' \in 0 .. MaxFaults
    BY <1>2 DEF Draw, Resend, Fault, TypeOK
  <2> QED BY <2>1, <2>2 DEF TypeOK
<1>3. CASE FailRequest
  BY <1>3 DEF FailRequest, Fault, TypeOK
<1>4. ASSUME NEW c \in Confirms, Confirm(c) PROVE TypeOK'
  BY <1>4, Leads DEF Confirm, Steps, TypeOK
<1>5. ASSUME NEW c \in Confirms, Acquire(c) PROVE TypeOK'
  <2>1. pc' \in [Confirms -> Steps] /\ faults' \in 0 .. MaxFaults
    BY <1>5, Leads DEF Acquire, Steps, Within
  <2> QED BY <1>5, <2>1 DEF Acquire, TypeOK, Steps
<1>6. ASSUME NEW c \in Confirms, Incr(c) PROVE TypeOK'
  <2>1. pc' \in [Confirms -> Steps] /\ faults' \in 0 .. MaxFaults
    BY <1>6, Leads DEF Incr, Steps, Within
  <2>2. attempts' \in Nat /\ tally' \in [Confirms -> Nat]
    BY <1>6 DEF Incr, TypeOK
  <2>3. attemptsTtl' \in 0 .. AttemptsTtl \cup {Forever}
    BY <1>6 DEF Incr, TypeOK
  <2> QED BY <1>6, <2>1, <2>2, <2>3 DEF Incr, TypeOK, Steps
<1>7. ASSUME NEW c \in Confirms, Expire(c) PROVE TypeOK'
  <2>1. pc' \in [Confirms -> Steps] /\ faults' \in 0 .. MaxFaults
    BY <1>7, Leads DEF Expire, Steps, Within
  <2> QED BY <1>7, <2>1 DEF Expire, TypeOK, Steps
<1>8. ASSUME NEW c \in Confirms, Compare(c) PROVE TypeOK'
  <2>1. pc' \in [Confirms -> Steps] /\ faults' \in 0 .. MaxFaults
    BY <1>8 DEF Compare, Goto, Fault, Steps, Within, TypeOK
  <2>2. compared' \in [Codes -> Nat] /\ matched' \in [Confirms -> Codes \cup {None}]
    BY <1>8 DEF Compare, TypeOK
  <2> QED BY <1>8, <2>1, <2>2 DEF Compare, TypeOK, Steps
<1>9. ASSUME NEW c \in Confirms, Commit(c) PROVE TypeOK'
  <2>1. pc' \in [Confirms -> Steps] /\ faults' \in 0 .. MaxFaults
    BY <1>9, Leads DEF Commit, Steps, Within
  <2>2. matched' \in [Confirms -> Codes \cup {None}]
    BY <1>9 DEF Commit, TypeOK
  <2>3. used' \in [Codes -> Nat]
    <3>1. used \in [Codes -> Nat] /\ used' = [used EXCEPT ![matched[c]] = @ + 1]
      BY <1>9 DEF Commit, TypeOK
    <3>2. \A k \in Codes : used'[k] \in Nat
      BY <3>1
    <3> QED BY <3>1, <3>2
  <2> QED BY <1>9, <2>1, <2>2, <2>3 DEF Commit, TypeOK, Steps
<1>10. ASSUME NEW c \in Confirms, DelCode(c) \/ DelAttempts(c) \/ Revoke(c) PROVE TypeOK'
  <2>1. pc' \in [Confirms -> Steps] /\ faults' \in 0 .. MaxFaults
    BY <1>10, Leads DEF DelCode, DelAttempts, Revoke, Steps, Within
  <2> QED BY <1>10, <2>1 DEF DelCode, DelAttempts, Revoke, TypeOK, Steps
<1>11. ASSUME NEW c \in Confirms, Release(c) PROVE TypeOK'
  <2>1. pc' \in [Confirms -> Steps] /\ faults' \in 0 .. MaxFaults
    BY <1>11, Leads DEF Release, Steps, Within
  <2>2. tally' \in [Confirms -> Nat] /\ straddled' \subseteq Confirms
    BY <1>11 DEF Release, TypeOK
  <2>3. lock' \in Confirms \cup {None} /\ lockTtl' \in 0 .. LockTtl
    BY <1>11 DEF Release, TypeOK
  <2> QED BY <1>11, <2>1, <2>2, <2>3 DEF Release, TypeOK, Steps
<1>12. ASSUME NEW c \in Confirms, Raise(c) \/ Crash(c) PROVE TypeOK'
  BY <1>12 DEF Raise, Crash, Fault, TypeOK, Within
<1>13. CASE Tick
  <2>1. attemptsTtl' \in 0 .. AttemptsTtl \cup {Forever}
    BY <1>13 DEF Tick, Less, TypeOK
  <2>2. rateTtl' \in 0 .. RateTtl /\ codeTtl' \in 0 .. CodeTtl /\ lockTtl' \in 0 .. LockTtl
    BY <1>13 DEF Tick, Less, TypeOK
  <2> QED BY <1>13, <2>1, <2>2 DEF Tick, TypeOK
<1>14. CASE UNCHANGED vars
  BY <1>14 DEF vars, TypeOK
<1> QED
  BY <1>1, <1>2, <1>3, <1>4, <1>5, <1>6, <1>7, <1>8, <1>9, <1>10, <1>11, <1>12, <1>13,
     <1>14 DEF Next, Step

\* The counters, keys, codes and steps of a password reset stay in their types.
THEOREM TypeCorrect == Spec => []TypeOK
  BY TypeInit, TypeNext, PTL DEF Spec

------------------------------------------------------------------------------
(* The lock and the codes *)

\* As long as leases hold, one confirmation is inside.
LEMMA OneInside ==
  ASSUME LeaseInv, ~overran, NEW c \in Confirms, NEW d \in Confirms, Inside(c), Inside(d)
  PROVE  c = d
  BY DEF LeaseInv

\* What a step of one confirmation other than Acquire and Release does to the lock.
LEMMA LeaseKept ==
  ASSUME TypeOK, LeaseInv, NEW c \in Confirms,
         UNCHANGED leases, UNCHANGED overran, pc'[c] # "idle",
         Inside(c)' => Inside(c), \A d \in Confirms \ {c} : pc'[d] = pc[d]
  PROVE  LeaseInv'
  BY DEF TypeOK, LeaseInv, Inside, leases

LEMMA LeaseNext == TypeOK /\ LeaseInv /\ [Next]_vars => LeaseInv'
<1> SUFFICES ASSUME TypeOK, LeaseInv, [Next]_vars PROVE LeaseInv'
  OBVIOUS
<1>1. CASE UNCHANGED <<leases, pc, overran>>
  BY <1>1 DEF LeaseInv, leases, Inside
<1>2. ASSUME NEW c \in Confirms, Acquire(c) PROVE LeaseInv'
  <2>1. pc[c] = "acquire" /\ pc'[c] \in {"acquire", "incr", "ended"} /\ UNCHANGED overran
    BY <1>2, Leads DEF Acquire, Steps, Within, history
  <2>2. \A d \in Confirms \ {c} : pc'[d] = pc[d]
    BY <1>2, Leads DEF Acquire, Steps, Within
  <2>3. CASE lock = None
    <3>1. lock' = c /\ lockTtl' > 0
      BY <1>2, <2>3, ResetAssumption DEF Acquire
    <3>2. ~overran => \A d \in Confirms : ~Inside(d)
      BY <2>3, ResetAssumption DEF LeaseInv
    <3> QED BY <2>1, <2>2, <3>1, <3>2 DEF LeaseInv, Inside
  <2>4. CASE lock # None
    <3>1. UNCHANGED leases /\ pc'[c] # "incr"
      BY <1>2, <2>1, <2>4, Leads DEF Acquire, Steps, Within
    <3>2. ~Inside(c)'
      BY <2>1, <3>1 DEF Inside, Within
    <3> QED BY <2>1, <2>2, <3>1, <3>2, LeaseKept
  <2> QED BY <2>3, <2>4
<1>3. ASSUME NEW c \in Confirms, Release(c) PROVE LeaseInv'
  <2>1. /\ pc[c] = "release" /\ pc'[c] \in {"release", "ended"} /\ UNCHANGED overran
        /\ \A d \in Confirms \ {c} : pc'[d] = pc[d]
    BY <1>3, Leads DEF Release, Steps
  <2>2. ~Inside(c) /\ ~Inside(c)'
    BY <2>1 DEF Inside, Within
  <2>3. CASE lock = c
    BY <1>3, <2>1, <2>2, <2>3 DEF Release, LeaseInv, Inside
  <2>4. CASE lock # c
    BY <1>3, <2>1, <2>2, <2>4, LeaseKept DEF Release, leases
  <2> QED BY <2>3, <2>4
<1>4. ASSUME NEW c \in Confirms,
             \/ Confirm(c) \/ Incr(c) \/ Expire(c) \/ Compare(c) \/ Commit(c) \/ DelCode(c)
             \/ DelAttempts(c) \/ Revoke(c) \/ Raise(c) \/ Crash(c)
      PROVE LeaseInv'
  <2>1. UNCHANGED leases /\ UNCHANGED overran
    BY <1>4 DEF Confirm, Incr, Expire, Compare, Commit, DelCode, DelAttempts, Revoke, Raise,
                Crash, leases, history
  <2>2. \A d \in Confirms \ {c} : pc'[d] = pc[d]
    BY <1>4 DEF Confirm, Incr, Expire, Compare, Commit, DelCode, DelAttempts, Revoke, Raise,
                Crash, Reply, Applied, Goto, TypeOK
  <2>3. pc'[c] # "idle" /\ (Inside(c)' => Inside(c))
    BY <1>4 DEF Confirm, Incr, Expire, Compare, Commit, DelCode, DelAttempts, Revoke, Raise,
                Crash, Reply, Applied, Goto, TypeOK, Inside, Within
  <2> QED BY <2>1, <2>2, <2>3, LeaseKept
<1>5. CASE Tick
  <2>1. /\ pc' = pc /\ (lockTtl <= 1 => lock' = None) /\ (lockTtl > 1 => lock' = lock)
        /\ lockTtl > 1 => lockTtl' > 0
        /\ overran' = (overran \/ (lockTtl = 1 /\ \E c \in Confirms : Inside(c) /\ lock = c))
    BY <1>5, ResetAssumption DEF Tick, Less, TypeOK, calls
  <2>2. lock' # None => lockTtl' > 0 /\ pc'[lock'] # "idle"
    BY <2>1 DEF LeaseInv, TypeOK
  <2>3. ASSUME ~overran', NEW c \in Confirms, Inside(c)' PROVE lock' = c
    <3>1. ~overran /\ Inside(c)
      BY <2>1, <2>3 DEF Inside
    <3>2. lock = c /\ lockTtl > 0
      BY <3>1, ResetAssumption DEF LeaseInv
    <3>3. lockTtl # 1
      BY <2>1, <2>3, <3>1, <3>2
    <3> QED BY <2>1, <3>2, <3>3, ResetAssumption DEF TypeOK
  <2> QED BY <2>2, <2>3 DEF LeaseInv
<1> QED
  <2>1. CASE Request \/ Draw \/ (\E k \in Codes : Resend(k)) \/ FailRequest \/ UNCHANGED vars
    BY <1>1, <2>1 DEF Request, Draw, Resend, Store, FailRequest, vars, leases, calls, history
  <2> QED BY <1>2, <1>3, <1>4, <1>5, <2>1 DEF Next, Step

\* Only drawn codes are stored, matched, compared and used.
LEMMA CodeNext == TypeOK /\ CodeInv /\ [Next]_vars => CodeInv'
<1> SUFFICES ASSUME TypeOK, CodeInv, [Next]_vars PROVE CodeInv'
  OBVIOUS
<1> USE ResetAssumption
<1>1. CASE UNCHANGED <<drawn, code, codeTtl, compared, used, matched>>
           /\ \A c \in Confirms : pc'[c] = "commit" => pc[c] = "commit"
  BY <1>1 DEF CodeInv
<1>2. CASE Request \/ FailRequest \/ UNCHANGED vars
  BY <1>1, <1>2 DEF Request, FailRequest, vars, requests, calls, history
<1>3. CASE Draw \/ \E k \in Codes : Resend(k)
  <2>1. /\ code' \in drawn' /\ codeTtl' > 0 /\ drawn \subseteq drawn'
        /\ UNCHANGED <<pc, matched, compared, used>>
    BY <1>3 DEF Draw, Resend, Store, TypeOK
  <2> QED BY <2>1 DEF CodeInv
<1>4. ASSUME NEW c \in Confirms,
             \/ Confirm(c) \/ Acquire(c) \/ Incr(c) \/ Expire(c) \/ DelAttempts(c) \/ Revoke(c)
             \/ Release(c) \/ Raise(c) \/ Crash(c)
      PROVE CodeInv'
  <2>1. UNCHANGED <<drawn, code, codeTtl, compared, used, matched>>
    BY <1>4 DEF Confirm, Acquire, Incr, Expire, DelAttempts, Revoke, Release, Raise, Crash,
                requests, history
  <2>2. \A d \in Confirms : pc'[d] = "commit" => pc[d] = "commit"
    BY <1>4 DEF Confirm, Acquire, Incr, Expire, DelAttempts, Revoke, Release, Raise, Crash,
                Reply, Applied, Goto, TypeOK
  <2> QED BY <1>1, <2>1, <2>2
<1>5. ASSUME NEW c \in Confirms, Compare(c) PROVE CodeInv'
  <2>1. /\ UNCHANGED <<drawn, code, codeTtl, used>>
        /\ \A k \in Codes \ drawn : k # code
    BY <1>5 DEF Compare, CodeInv, requests
  <2>2. \A k \in Codes \ drawn : compared'[k] = 0
    BY <1>5, <2>1 DEF Compare, CodeInv, TypeOK
  <2>3. ASSUME NEW d \in Confirms
        PROVE /\ matched'[d] # None => matched'[d] \in drawn
              /\ pc'[d] = "commit" => matched'[d] # None
    BY <1>5 DEF Compare, Goto, CodeInv, TypeOK
  <2> QED BY <2>1, <2>2, <2>3 DEF CodeInv
<1>6. ASSUME NEW c \in Confirms, Commit(c) PROVE CodeInv'
  <2>1. UNCHANGED <<drawn, code, codeTtl, compared>> /\ matched[c] \in drawn
    BY <1>6 DEF Commit, CodeInv, requests
  <2>2. \A k \in Codes \ drawn : used'[k] = 0
    BY <1>6, <2>1 DEF Commit, CodeInv, TypeOK
  <2>3. ASSUME NEW d \in Confirms
        PROVE /\ matched'[d] # None => matched'[d] \in drawn
              /\ pc'[d] = "commit" => matched'[d] # None
    BY <1>6 DEF Commit, Applied, Goto, CodeInv, TypeOK
  <2> QED BY <2>1, <2>2, <2>3 DEF CodeInv
<1>7. ASSUME NEW c \in Confirms, DelCode(c) PROVE CodeInv'
  <2>1. UNCHANGED <<drawn, compared, used, matched>> /\ code' = None
    BY <1>7 DEF DelCode, requests, history
  <2>2. \A d \in Confirms : pc'[d] = "commit" => pc[d] = "commit"
    BY <1>7 DEF DelCode, Reply, Applied, Goto, TypeOK
  <2> QED BY <2>1, <2>2 DEF CodeInv
<1>8. CASE Tick
  BY <1>8 DEF Tick, Less, CodeInv, TypeOK, calls
<1> QED
  BY <1>2, <1>3, <1>4, <1>5, <1>6, <1>7, <1>8 DEF Next, Step

------------------------------------------------------------------------------
(* Faults, and the lives that they may have given *)

\* No step takes a fault back, and leases that were overrun stay overrun.
LEMMA FaultsGrow ==
  ASSUME TypeOK, [Next]_vars
  PROVE  faults' >= faults /\ (overran => overran')
<1>1. faults' >= faults
  BY DEF Next, Step, Request, Draw, Resend, FailRequest, Confirm, Acquire, Incr, Expire,
         Compare, Commit, DelCode, DelAttempts, Revoke, Release, Raise, Crash, Tick, vars,
         calls, Reply, Applied, Goto, Fault, TypeOK
<1>2. overran => overran'
  BY DEF Next, Step, Request, Draw, Resend, Store, FailRequest, Confirm, Acquire, Incr, Expire,
         Compare, Commit, DelCode, DelAttempts, Revoke, Release, Raise, Crash, Tick, vars,
         history
<1> QED
  BY <1>1, <1>2

\* Whose SET has got no answer changes only as codes are drawn and sent again, and
\* a SET that gets none costs a fault.
LEMMA Unanswered ==
  ASSUME TypeOK, [Next]_vars
  PROVE  \/ UNCHANGED unanswered
         \/ unanswered' \subseteq unanswered
         \/ faults' = faults + 1
  BY DEF Next, Step, Request, Draw, Resend, FailRequest, Confirm, Acquire, Incr, Expire,
         Compare, Commit, DelCode, DelAttempts, Revoke, Release, Raise, Crash, Tick, vars,
         requests, Fault

LEMMA LivesNext ==
  ASSUME TypeOK, TypeOK', LivesInv, [Next]_vars
  PROVE  /\ LivesInv'
         /\ Lives \in [Codes -> Nat] /\ Lives' \in [Codes -> Nat]
         /\ \A k \in Codes : /\ Lives'[k] >= Lives[k]
                             /\ Resend(k) => Lives'[k] = Lives[k] + 1
         /\ UNCHANGED unanswered => \A k \in Codes : Lives'[k] - Lives[k] = faults' - faults
<1>1. faults \in Nat /\ faults' \in Nat /\ faults' >= faults
  BY FaultsGrow, ResetAssumption DEF TypeOK
<1>2. LivesInv'
  BY <1>1, Unanswered DEF LivesInv
<1>3. ASSUME NEW k \in Codes
      PROVE  /\ Lives[k] \in Nat /\ Lives'[k] \in Nat /\ Lives'[k] >= Lives[k]
             /\ UNCHANGED unanswered => Lives'[k] - Lives[k] = faults' - faults
  <2>1. /\ Lives[k] = IF k \in unanswered THEN faults - 1 ELSE faults
        /\ Lives'[k] = IF k \in unanswered' THEN faults' - 1 ELSE faults'
    BY <1>3 DEF Lives
  <2>2. /\ k \in unanswered => faults >= 1
        /\ k \in unanswered' => faults' >= 1
    BY <1>1, <1>2 DEF LivesInv
  <2>3. k \in unanswered' => k \in unanswered \/ faults' = faults + 1
    BY Unanswered
  <2>4. CASE k \in unanswered /\ k \in unanswered'
    BY <1>1, <2>1, <2>2, <2>4
  <2>5. CASE k \in unanswered /\ k \notin unanswered'
    BY <1>1, <2>1, <2>2, <2>5
  <2>6. CASE k \notin unanswered /\ k \in unanswered'
    <3>1. faults' = faults + 1 /\ ~UNCHANGED unanswered
      BY <2>3, <2>6
    <3>2. Lives[k] = faults /\ Lives'[k] = faults' - 1
      BY <2>1, <2>6
    <3> QED BY <1>1, <3>1, <3>2
  <2>7. CASE k \notin unanswered /\ k \notin unanswered'
    BY <1>1, <2>1, <2>7
  <2> QED BY <2>4, <2>5, <2>6, <2>7
<1>4. ASSUME NEW k \in Codes, Resend(k) PROVE Lives'[k] = Lives[k] + 1
  <2>1. /\ Lives[k] = IF k \in unanswered THEN faults - 1 ELSE faults
        /\ Lives'[k] = IF k \in unanswered' THEN faults' - 1 ELSE faults'
    BY <1>4 DEF Lives
  <2>2. /\ k \in unanswered
        /\ \/ k \notin unanswered' /\ faults' = faults
           \/ k \in unanswered' /\ faults' = faults + 1
    BY <1>4 DEF Resend, Fault
  <2>3. CASE k \notin unanswered' /\ faults' = faults
    BY <1>1, <2>1, <2>2, <2>3
  <2>4. CASE k \in unanswered' /\ faults' = faults + 1
    BY <1>1, <2>1, <2>2, <2>4
  <2> QED BY <2>2, <2>3, <2>4
<1> QED
  <2>1. Lives \in [Codes -> Nat] /\ Lives' \in [Codes -> Nat]
    BY <1>3 DEF Lives
  <2> QED BY <1>2, <1>3, <1>4, <2>1

LEMMA Times ==
  ASSUME NEW m \in Nat, NEW a \in Nat, NEW b \in Nat, a <= b
  PROVE  m * a \in Nat /\ m * b \in Nat /\ m * a <= m * b /\ m * (a + 1) = m * a + m
<1>1. b - a \in Nat /\ m * b = m * a + m * (b - a)
  BY SMT
<1>2. \A x \in Nat : m * x \in Nat
  BY SMT
<1> QED
  BY <1>1, <1>2, SMT

LEMMA PastNext ==
  ASSUME TypeOK, TypeOK', LivesInv, [Next]_vars
  PROVE  \A k \in Codes : /\ Past[k] \in Nat /\ Past'[k] \in Nat /\ Past'[k] >= Past[k]
                          /\ Resend(k) => Past'[k] = Past[k] + MaxAttempts
<1> TAKE k \in Codes
<1>1. /\ Lives[k] \in Nat /\ Lives'[k] \in Nat /\ Lives'[k] >= Lives[k]
      /\ Resend(k) => Lives'[k] = Lives[k] + 1
  BY LivesNext
<1>2. Past[k] = MaxAttempts * Lives[k] /\ Past'[k] = MaxAttempts * Lives'[k]
  BY DEF Past
<1>3. MaxAttempts \in Nat
  BY ResetAssumption
<1> QED
  BY <1>1, <1>2, <1>3, Times

------------------------------------------------------------------------------
(* Guesses *)

\* A step that counts and compares nothing, and brings no confirmation to a step
\* that is spoken of in CountedFirst.
LEMMA GuessKept ==
  ASSUME TypeOK, GuessInv, UNCHANGED <<code, codeTtl, count, compared, overran>>,
         \A k \in Codes : Past[k] \in Nat /\ Past'[k] \in Nat /\ Past'[k] >= Past[k],
         \A d \in Confirms : pc'[d] \in {"expire", "get", "delattempts"} =>
           /\ pc'[d] = pc[d] /\ tally'[d] = tally[d]
           /\ d \in straddled => d \in straddled'
  PROVE  GuessInv'
<1> SUFFICES ASSUME ~overran' PROVE GuessInv'
  BY DEF GuessInv
<1>1. /\ \A k \in Codes : compared[k] \in Nat
      /\ MaxAttempts \in Nat /\ attempts \in Nat
      /\ code # None => code \in Codes
  BY ResetAssumption DEF TypeOK
<1>2. \A k \in Codes : compared'[k] <= MaxAttempts + Past'[k]
  BY <1>1 DEF GuessInv
<1>3. Counted'
  BY <1>1 DEF GuessInv, Counted, Covers, count
<1>4. ASSUME NEW d \in Confirms PROVE CountedFirst(d)'
  <2>1. tally[d] \in Nat
    BY DEF TypeOK
  <2>2. Fresh(d) /\ tally'[d] = tally[d] => Fresh(d)'
    BY <1>1, <2>1 DEF Fresh, count
  <2>3. Covers => Covers'
    BY DEF Covers, count
  <2>4. pc'[d] = "delattempts" => code' = None \/ compared'[code'] <= Past'[code']
    BY <1>1 DEF GuessInv, CountedFirst
  <2> QED BY <2>2, <2>3, <2>4 DEF GuessInv, CountedFirst
<1> QED
  BY <1>2, <1>3, <1>4 DEF GuessInv

\* While one confirmation is inside, nothing has to be shown of the others.
LEMMA GuessAlone ==
  ASSUME TypeOK, LeaseInv, ~overran, NEW c \in Confirms, Inside(c),
         \A d \in Confirms \ {c} : pc'[d] = pc[d]
  PROVE  \A d \in Confirms \ {c} : CountedFirst(d)'
<1> SUFFICES ASSUME NEW d \in Confirms \ {c} PROVE CountedFirst(d)'
  OBVIOUS
<1>1. ~Inside(d)
  BY OneInside
<1>2. pc'[d] \notin {"expire", "get", "delattempts"}
  BY <1>1 DEF Inside, Within
<1> QED
  BY <1>2 DEF CountedFirst

LEMMA GuessNext ==
  TypeOK /\ TypeOK' /\ LivesInv /\ LeaseInv /\ CodeInv /\ GuessInv /\ [Next]_vars => GuessInv'
<1> SUFFICES ASSUME TypeOK, TypeOK', LivesInv, LeaseInv, CodeInv, GuessInv, [Next]_vars, ~overran'
             PROVE  GuessInv'
  BY DEF GuessInv
<1> USE ResetAssumption
<1>0. ~overran
  BY FaultsGrow
<1>p. \A k \in Codes : Past[k] \in Nat /\ Past'[k] \in Nat /\ Past'[k] >= Past[k]
  BY PastNext
<1>q. /\ \A k \in Codes : compared[k] <= MaxAttempts + Past[k] /\ compared[k] \in Nat
      /\ \A k \in Codes : compared[k] <= MaxAttempts + Past'[k]
  BY <1>0, <1>p DEF GuessInv, TypeOK
<1>r. /\ code # None => code \in Codes
      /\ attempts \in Nat /\ \A d \in Confirms : tally[d] \in Nat
  BY DEF TypeOK
<1>1. CASE Request \/ FailRequest \/ UNCHANGED vars
  BY <1>1, <1>p, GuessKept DEF Request, FailRequest, vars, calls, history
<1>2. ASSUME NEW c \in Confirms,
             Confirm(c) \/ Acquire(c) \/ Commit(c) \/ Revoke(c) \/ Release(c) \/ Raise(c)
             \/ Crash(c)
      PROVE GuessInv'
  <2>1. UNCHANGED <<code, codeTtl, count, compared, overran>>
    BY <1>2 DEF Confirm, Acquire, Commit, Revoke, Release, Raise, Crash, history
  <2>2. ASSUME NEW d \in Confirms, pc'[d] \in {"expire", "get", "delattempts"}
        PROVE /\ pc'[d] = pc[d] /\ tally'[d] = tally[d]
              /\ d \in straddled => d \in straddled'
    BY <1>2, <2>2 DEF Confirm, Acquire, Commit, Revoke, Release, Raise, Crash, Reply, Applied,
                      Goto, TypeOK, history
  <2> QED BY <1>p, <2>1, <2>2, GuessKept
<1>3. CASE Draw \/ \E k \in Codes : Resend(k)
  <2>1. /\ code' \in Codes /\ UNCHANGED <<compared, attempts, tally, pc>>
        /\ \A d \in Confirms : /\ d \in straddled => d \in straddled'
                               /\ pc[d] = "get" => d \in straddled'
    BY <1>3 DEF Draw, Resend, Store, count
  <2>2. compared[code'] <= Past'[code']
    <3>1. CASE Draw
      BY <1>p, <2>1, <3>1 DEF Draw, Store, CodeInv
    <3>2. ASSUME NEW k \in Codes, Resend(k) PROVE compared[code'] <= Past'[code']
      <4>1. code' = k /\ Past'[k] = Past[k] + MaxAttempts
        BY <3>2, PastNext DEF Resend, Store
      <4> QED BY <1>p, <1>q, <4>1
    <3> QED BY <1>3, <3>1, <3>2
  <2>3. ASSUME NEW d \in Confirms PROVE CountedFirst(d)'
    <3>1. pc'[d] = "expire" => d \in straddled' \/ Fresh(d)'
      BY <1>0, <1>p, <1>q, <1>r, <2>1, <2>2 DEF GuessInv, CountedFirst, Fresh
    <3>2. pc'[d] = "get" => d \in straddled'
      BY <2>1
    <3> QED BY <2>1, <2>2, <3>1, <3>2 DEF CountedFirst
  <2>4. Counted'
    BY <1>p, <1>q, <2>1, <2>2 DEF Counted
  <2> QED BY <1>q, <2>1, <2>3, <2>4 DEF GuessInv
<1>4. ASSUME NEW c \in Confirms, Incr(c) PROVE GuessInv'
  <2>1. /\ Inside(c) /\ pc'[c] \notin {"get", "delattempts"}
        /\ \A d \in Confirms \ {c} : pc'[d] = pc[d]
    BY <1>4 DEF Incr, Reply, Applied, Goto, Inside, Within, TypeOK
  <2>2. UNCHANGED <<code, codeTtl, compared>>
    BY <1>4 DEF Incr, history
  <2>3. attempts' = attempts + 1 /\ tally'[c] = attempts' /\ (attempts > 0 /\ Covers => Covers')
    BY <1>4 DEF Incr, Covers, TypeOK
  <2>4. code # None => compared[code] <= attempts + Past[code]
    BY <1>0, <1>p, <1>q, <1>r DEF GuessInv, Counted
  <2>5. Counted'
    <3>1. code # None /\ compared[code] > Past'[code] => attempts > 0 /\ Covers
      BY <1>0, <1>p, <1>q, <1>r, <2>4 DEF GuessInv, Counted
    <3> QED BY <1>p, <1>q, <1>r, <2>2, <2>3, <2>4, <3>1 DEF Counted
  <2>6. CountedFirst(c)'
    BY <1>p, <1>q, <1>r, <2>1, <2>2, <2>3, <2>4 DEF CountedFirst, Fresh
  <2> QED BY <1>0, <1>q, <2>1, <2>2, <2>5, <2>6, GuessAlone DEF GuessInv
<1>5. ASSUME NEW c \in Confirms, Expire(c) PROVE GuessInv'
  <2>1. /\ Inside(c) /\ pc[c] = "expire" /\ pc'[c] # "delattempts"
        /\ pc'[c] = "get" => tally[c] <= MaxAttempts
        /\ \A d \in Confirms \ {c} : pc'[d] = pc[d]
    BY <1>5 DEF Expire, Reply, Applied, Goto, Inside, Within, TypeOK
  <2>2. UNCHANGED <<code, codeTtl, compared, attempts, tally, straddled>>
    BY <1>5 DEF Expire, history
  <2>3. attempts > 0 => Covers'
    BY <1>5 DEF Expire, Covers, TypeOK
  <2>4. Counted'
    BY <1>0, <1>p, <1>q, <1>r, <2>2, <2>3 DEF GuessInv, Counted
  <2>5. CountedFirst(c)'
    BY <1>0, <1>p, <1>q, <1>r, <2>1, <2>2, <2>3 DEF GuessInv, CountedFirst, Fresh
  <2> QED BY <1>0, <1>q, <2>1, <2>2, <2>4, <2>5, GuessAlone DEF GuessInv
<1>6. ASSUME NEW c \in Confirms, Compare(c) PROVE GuessInv'
  <2>1. /\ Inside(c) /\ pc[c] = "get" /\ pc'[c] \in {"release", "commit"}
        /\ \A d \in Confirms \ {c} : pc'[d] = pc[d]
    BY <1>6 DEF Compare, Goto, Inside, Within, TypeOK
  <2>2. UNCHANGED <<code, codeTtl, count, tally, straddled>>
    BY <1>6 DEF Compare
  <2>3. CASE code = None \/ c \in straddled
    <3>1. compared' = compared
      BY <1>6, <2>3 DEF Compare, TypeOK
    <3>2. (\A k \in Codes : compared'[k] <= MaxAttempts + Past'[k]) /\ Counted'
      BY <1>0, <1>p, <1>q, <1>r, <2>2, <3>1 DEF GuessInv, Counted, Covers, count
    <3>3. CountedFirst(c)'
      BY <2>1 DEF CountedFirst
    <3> QED BY <1>0, <2>1, <3>2, <3>3, GuessAlone DEF GuessInv
  <2>4. CASE code # None /\ c \notin straddled
    <3>1. /\ code \in Codes /\ compared[code] < attempts + Past[code]
          /\ compared[code] < MaxAttempts + Past[code] /\ Covers
      BY <1>0, <1>p, <1>q, <1>r, <2>1, <2>4 DEF GuessInv, CountedFirst, Fresh
    <3>2. /\ compared'[code] = compared[code] + 1
          /\ \A k \in Codes \ {code} : compared'[k] = compared[k]
      BY <1>6, <2>4, <3>1 DEF Compare
    <3>3. \A k \in Codes : compared'[k] <= MaxAttempts + Past'[k]
      BY <1>p, <1>q, <3>1, <3>2
    <3>4. Counted'
      BY <1>p, <1>q, <1>r, <2>2, <3>1, <3>2 DEF Counted, Covers, count
    <3>5. CountedFirst(c)'
      BY <2>1 DEF CountedFirst
    <3> QED BY <1>0, <2>1, <3>3, <3>4, <3>5, GuessAlone DEF GuessInv
  <2> QED BY <2>3, <2>4
<1>7. ASSUME NEW c \in Confirms, DelCode(c) PROVE GuessInv'
  <2>1. /\ Inside(c) /\ pc'[c] \notin {"expire", "get"} /\ code' = None /\ compared' = compared
        /\ \A d \in Confirms \ {c} : pc'[d] = pc[d]
    BY <1>7 DEF DelCode, Reply, Applied, Goto, Inside, Within, TypeOK, history
  <2> QED BY <1>0, <1>q, <2>1, GuessAlone DEF GuessInv, Counted, CountedFirst
<1>8. ASSUME NEW c \in Confirms, DelAttempts(c) PROVE GuessInv'
  <2>1. /\ Inside(c) /\ pc[c] = "delattempts" /\ pc'[c] \notin {"expire", "get"}
        /\ UNCHANGED <<code, compared>>
        /\ \A d \in Confirms \ {c} : pc'[d] = pc[d]
    BY <1>8 DEF DelAttempts, Reply, Applied, Goto, Inside, Within, TypeOK, history
  <2>2. code = None \/ compared[code] <= Past'[code]
    BY <1>0, <1>p, <1>q, <1>r, <2>1 DEF GuessInv, CountedFirst
  <2>3. Counted' /\ CountedFirst(c)'
    BY <1>p, <1>q, <1>r, <2>1, <2>2 DEF Counted, CountedFirst
  <2> QED BY <1>0, <1>q, <2>1, <2>3, GuessAlone DEF GuessInv
<1>9. CASE Tick
  <2>1. UNCHANGED <<pc, tally, compared>> /\ straddled \subseteq straddled'
    BY <1>9 DEF Tick, calls
  <2>2. code' # None => code' = code /\ codeTtl > 1 /\ codeTtl' = codeTtl - 1
    BY <1>9 DEF Tick, Less, TypeOK
  <2>3. attemptsTtl # 1 => attempts' = attempts
    BY <1>9 DEF Tick
  <2>4. code' # None /\ Covers => attemptsTtl # 1 /\ Covers'
    BY <1>9, <2>2 DEF Tick, Less, Covers, TypeOK
  <2>p. Past' = Past
    BY <1>9 DEF Tick, Past, Lives, calls
  <2>5. Counted'
    BY <1>0, <2>1, <2>2, <2>3, <2>4, <2>p DEF GuessInv, Counted
  <2>6. ASSUME NEW d \in Confirms PROVE CountedFirst(d)'
    <3>1. pc'[d] = "expire" => d \in straddled' \/ Fresh(d)'
      <4>1. CASE attemptsTtl = 1
        BY <1>9, <2>1, <4>1 DEF Tick
      <4>2. CASE attemptsTtl # 1
        BY <1>0, <2>1, <2>2, <2>3, <2>p, <4>2 DEF GuessInv, CountedFirst, Fresh
      <4> QED BY <4>1, <4>2
    <3>2. pc'[d] = "get" => \/ d \in straddled' \/ code' = None
                            \/ Fresh(d)' /\ Covers' /\ tally'[d] <= MaxAttempts
      BY <1>0, <2>1, <2>2, <2>3, <2>4, <2>p DEF GuessInv, CountedFirst, Fresh
    <3>3. pc'[d] = "delattempts" => code' = None \/ compared'[code'] <= Past'[code']
      BY <1>0, <2>1, <2>2, <2>p DEF GuessInv, CountedFirst
    <3> QED BY <3>1, <3>2, <3>3 DEF CountedFirst
  <2> QED BY <1>q, <2>1, <2>5, <2>6 DEF GuessInv
<1> QED
  BY <1>1, <1>2, <1>3, <1>4, <1>5, <1>6, <1>7, <1>8, <1>9 DEF Next, Step

------------------------------------------------------------------------------
(* Uses *)

\* A step that uses and stores no code and brings no confirmation to its commit; it
\* keeps one from deleting the code only by a fault.
LEMMA UseKept ==
  ASSUME TypeOK, TypeOK', LivesInv, CodeInv, UseInv, [Next]_vars,
         UNCHANGED <<used, code, unanswered, overran>>,
         \A d \in Confirms :
           /\ pc'[d] = "commit" => pc[d] = "commit" /\ matched'[d] = matched[d]
           /\ pc[d] = "delcode" => pc'[d] = "delcode" \/ faults' = faults + 1
  PROVE  UseInv'
<1> SUFFICES ASSUME ~overran' PROVE UseInv'
  BY DEF UseInv
<1>1. /\ used \in [Codes -> Nat] /\ faults \in Nat /\ faults' \in Nat
      /\ Lives \in [Codes -> Nat] /\ Lives' \in [Codes -> Nat]
      /\ \A k \in Codes : Lives'[k] - Lives[k] = faults' - faults /\ Lives'[k] >= Lives[k]
  BY LivesNext, ResetAssumption DEF TypeOK
<1>2. \A k \in Codes : used'[k] <= 1 + Lives'[k]
  BY <1>1 DEF UseInv
<1>3. ASSUME NEW c \in Confirms, pc'[c] = "commit" PROVE used'[matched'[c]] <= Lives'[matched'[c]]
  <2>1. matched[c] \in Codes /\ used[matched[c]] <= Lives[matched[c]]
    BY <1>3 DEF UseInv, CodeInv, TypeOK
  <2> QED BY <1>1, <1>3, <2>1
<1>4. ASSUME code' # None
      PROVE  used'[code'] <= Lives'[code'] \/ \E c \in Confirms : pc'[c] = "delcode"
  <2>1. code \in Codes /\ used[code] <= 1 + Lives[code]
    BY <1>4 DEF UseInv, TypeOK
  <2>2. CASE faults' = faults + 1
    <3>1. Lives'[code] = Lives[code] + 1
      BY <1>1, <2>1, <2>2
    <3> QED BY <1>1, <2>1, <3>1
  <2>3. CASE used[code] <= Lives[code]
    BY <1>1, <2>1, <2>3
  <2>4. CASE \E c \in Confirms : pc[c] = "delcode"
    BY <2>2, <2>4
  <2> QED BY <1>4, <2>3, <2>4 DEF UseInv
<1> QED
  BY <1>2, <1>3, <1>4 DEF UseInv

LEMMA UseNext ==
  TypeOK /\ TypeOK' /\ LivesInv /\ LeaseInv /\ CodeInv /\ UseInv /\ [Next]_vars => UseInv'
<1> SUFFICES ASSUME TypeOK, TypeOK', LivesInv, LeaseInv, CodeInv, UseInv, [Next]_vars, ~overran'
             PROVE  UseInv'
  BY DEF UseInv
<1> USE ResetAssumption
<1>0. ~overran
  BY FaultsGrow
<1>1. /\ used \in [Codes -> Nat] /\ faults \in Nat /\ faults' \in Nat
      /\ Lives \in [Codes -> Nat] /\ Lives' \in [Codes -> Nat]
      /\ \A k \in Codes : Lives'[k] >= Lives[k]
  BY LivesNext DEF TypeOK
<1>2. /\ \A k \in Codes : used[k] <= 1 + Lives[k]
      /\ \A c \in Confirms : pc[c] = "commit" => used[matched[c]] <= Lives[matched[c]]
      /\ code # None => used[code] <= Lives[code] \/ \E c \in Confirms : pc[c] = "delcode"
  BY <1>0 DEF UseInv
<1>3. CASE Request \/ FailRequest \/ UNCHANGED vars
  BY <1>3, UseKept DEF Request, FailRequest, vars, requests, calls, history
<1>4. ASSUME NEW c \in Confirms,
             \/ Confirm(c) \/ Acquire(c) \/ Incr(c) \/ Expire(c) \/ DelAttempts(c) \/ Revoke(c)
             \/ Release(c) \/ Raise(c) \/ Crash(c)
      PROVE UseInv'
  <2>1. UNCHANGED <<used, code, unanswered, overran>>
    BY <1>4 DEF Confirm, Acquire, Incr, Expire, DelAttempts, Revoke, Release, Raise, Crash,
                requests, history
  <2>2. ASSUME NEW d \in Confirms
        PROVE /\ pc'[d] = "commit" => pc[d] = "commit" /\ matched'[d] = matched[d]
              /\ pc[d] = "delcode" => pc'[d] = "delcode" \/ faults' = faults + 1
    BY <1>4 DEF Confirm, Acquire, Incr, Expire, DelAttempts, Revoke, Release, Raise,
                Crash, Reply, Applied, Goto, Fault, TypeOK
  <2> QED BY <2>1, <2>2, UseKept
<1>5. CASE Draw \/ \E k \in Codes : Resend(k)
  <2>1. UNCHANGED <<used, pc, matched>> /\ code' \in Codes
    BY <1>5 DEF Draw, Resend, Store
  <2>2. used[code'] <= Lives'[code']
    <3>1. CASE Draw
      BY <1>1, <2>1, <3>1 DEF Draw, Store, CodeInv
    <3>2. ASSUME NEW k \in Codes, Resend(k) PROVE used[code'] <= Lives'[code']
      <4>1. code' = k /\ Lives'[k] = Lives[k] + 1
        BY <3>2, LivesNext DEF Resend, Store
      <4> QED BY <1>1, <1>2, <4>1
    <3> QED BY <1>5, <3>1, <3>2
  <2>3. \A k \in Codes : used'[k] <= 1 + Lives'[k]
    BY <1>1, <1>2, <2>1
  <2>4. ASSUME NEW d \in Confirms, pc'[d] = "commit" PROVE used'[matched'[d]] <= Lives'[matched'[d]]
    <3>1. matched[d] \in Codes /\ used[matched[d]] <= Lives[matched[d]]
      BY <1>2, <2>1, <2>4 DEF CodeInv, TypeOK
    <3> QED BY <1>1, <2>1, <3>1
  <2> QED BY <2>1, <2>2, <2>3, <2>4 DEF UseInv
<1>6. ASSUME NEW c \in Confirms, Compare(c) PROVE UseInv'
  <2>1. /\ pc[c] = "get" /\ pc'[c] \in {"release", "commit"} /\ UNCHANGED <<used, code>>
        /\ \A d \in Confirms \ {c} : pc'[d] = pc[d] /\ matched'[d] = matched[d]
        /\ pc'[c] = "commit" => code # None /\ matched'[c] = code
    BY <1>6 DEF Compare, Goto, TypeOK
  <2>2. \A d \in Confirms : pc[d] # "delcode" /\ (pc[d] = "commit" => d = c)
    BY <1>0, <2>1, OneInside DEF Inside, Within
  <2>3. code # None => code \in Codes /\ used[code] <= Lives[code]
    BY <1>2, <2>2 DEF TypeOK
  <2>4. \A k \in Codes : used[k] <= 1 + Lives'[k]
    BY <1>1, <1>2
  <2>5. \A d \in Confirms : pc'[d] = "commit" => d = c
    BY <2>1, <2>2
  <2>6. code # None => used[code] <= Lives'[code]
    BY <1>1, <2>3
  <2> QED BY <2>1, <2>4, <2>5, <2>6 DEF UseInv
<1>7. ASSUME NEW c \in Confirms, Commit(c) PROVE UseInv'
  <2>1. /\ pc[c] = "commit" /\ code' = code
        /\ pc'[c] = "delcode" \/ (pc'[c] = "release" /\ faults' = faults + 1)
        /\ \A d \in Confirms \ {c} : pc'[d] = pc[d]
        /\ used' = [used EXCEPT ![matched[c]] = @ + 1]
    BY <1>7 DEF Commit, Applied, Goto, Fault, TypeOK
  <2>2. matched[c] \in Codes /\ used[matched[c]] <= Lives[matched[c]]
    BY <1>2, <2>1 DEF CodeInv, TypeOK
  <2>3. \A k \in Codes : used'[k] <= 1 + Lives[k]
    BY <1>1, <1>2, <2>1, <2>2
  <2>4. \A d \in Confirms : pc'[d] # "commit"
    BY <1>0, <2>1, OneInside DEF Inside, Within
  <2>5. pc'[c] # "delcode" => \A k \in Codes : used'[k] <= Lives'[k]
    <3>1. UNCHANGED unanswered
      BY <1>7 DEF Commit, requests
    <3>2. \A k \in Codes : Lives'[k] - Lives[k] = faults' - faults
      BY <3>1, LivesNext
    <3>3. pc'[c] # "delcode" => \A k \in Codes : Lives'[k] = Lives[k] + 1
      BY <1>1, <2>1, <3>2
    <3>4. \A k \in Codes : used'[k] \in Nat
      BY DEF TypeOK
    <3> QED BY <1>1, <2>3, <3>3, <3>4
  <2>6. used' \in [Codes -> Nat] /\ (code' # None => code' \in Codes)
    BY DEF TypeOK
  <2>7. \A k \in Codes : used'[k] <= 1 + Lives'[k]
    BY <1>1, <2>3, <2>6
  <2> QED BY <2>4, <2>5, <2>6, <2>7 DEF UseInv
<1>8. ASSUME NEW c \in Confirms, DelCode(c) PROVE UseInv'
  <2>1. /\ used' = used /\ matched' = matched /\ code' = None
        /\ \A d \in Confirms : pc'[d] = "commit" => pc[d] = "commit"
    BY <1>8 DEF DelCode, Reply, Applied, Goto, TypeOK, history
  <2>2. \A k \in Codes : used'[k] <= 1 + Lives'[k]
    BY <1>1, <1>2, <2>1
  <2>3. ASSUME NEW d \in Confirms, pc'[d] = "commit" PROVE used'[matched'[d]] <= Lives'[matched'[d]]
    <3>1. matched[d] \in Codes /\ used[matched[d]] <= Lives[matched[d]]
      BY <1>2, <2>1, <2>3 DEF CodeInv, TypeOK
    <3> QED BY <1>1, <2>1, <3>1
  <2> QED BY <2>1, <2>2, <2>3 DEF UseInv
<1>9. CASE Tick
  BY <1>2, <1>9 DEF Tick, UseInv, Lives, calls
<1> QED
  BY <1>3, <1>4, <1>5, <1>6, <1>7, <1>8, <1>9 DEF Next, Step

------------------------------------------------------------------------------
(* The theorems about codes *)

LEMMA Invariance == Spec => []Inv
<1>1. Init => Inv
  <2> SUFFICES ASSUME Init PROVE Inv
    OBVIOUS
  <2>1. TypeOK /\ LivesInv /\ LeaseInv /\ CodeInv
    BY TypeInit, ResetAssumption DEF Init, LivesInv, LeaseInv, CodeInv, Inside, Within
  <2>2. Lives = [k \in Codes |-> 0]
    BY DEF Init, Lives
  <2>3. Past = [k \in Codes |-> 0]
    BY <2>2, ResetAssumption DEF Past
  <2> QED BY <2>1, <2>2, <2>3, ResetAssumption
             DEF Init, Inv, GuessInv, Counted, CountedFirst, UseInv
<1>2. Inv /\ [Next]_vars => Inv'
  BY TypeNext, LivesNext, LeaseNext, CodeNext, GuessNext, UseNext DEF Inv
<1> QED
  BY <1>1, <1>2, PTL DEF Spec

\* While leases hold, each life of a code is guessed at no more than MaxAttempts
\* times, and a code has one life and one more for each fault.
THEOREM Guesses == Spec => []GuessesBounded
<1>1. Inv => GuessesBounded
  <2> SUFFICES ASSUME Inv, ~overran, NEW k \in Codes
               PROVE  compared[k] <= MaxAttempts * (1 + faults)
    BY DEF GuessesBounded
  <2>1. /\ Lives[k] \in Nat /\ Lives[k] <= faults /\ faults \in Nat /\ MaxAttempts \in Nat
        /\ compared[k] \in Nat /\ compared[k] <= MaxAttempts + Past[k]
        /\ Past[k] = MaxAttempts * Lives[k]
    BY ResetAssumption DEF Inv, TypeOK, LivesInv, GuessInv, Lives, Past
  <2>2. /\ MaxAttempts * Lives[k] \in Nat /\ MaxAttempts * faults \in Nat
        /\ MaxAttempts * Lives[k] <= MaxAttempts * faults
        /\ MaxAttempts * (faults + 1) = MaxAttempts * faults + MaxAttempts
    BY <2>1, Times
  <2>3. 1 + faults = faults + 1
    BY <2>1
  <2> QED BY <2>1, <2>2, <2>3
<1> QED
  BY <1>1, Invariance, PTL

\* While leases hold, a code resets the password once, and once more for each
\* fault.
THEOREM SingleUse == Spec => []CodeSingleUse
<1>1. Inv => CodeSingleUse
  <2> SUFFICES ASSUME Inv, ~overran, NEW k \in Codes PROVE used[k] <= 1 + faults
    BY DEF CodeSingleUse
  <2>1. /\ Lives[k] \in Nat /\ Lives[k] <= faults /\ faults \in Nat
        /\ used[k] \in Nat /\ used[k] <= 1 + Lives[k]
    BY ResetAssumption DEF Inv, TypeOK, LivesInv, UseInv, Lives
  <2> QED BY <2>1
<1> QED
  BY <1>1, Invariance, PTL

------------------------------------------------------------------------------
(* The reset lock is a lease lock. *)

\* The phases of a token, without the overlaps of Phase's CASE.
PhaseOf(c) ==
  /\ Phase(c) = "new" <=> pc[c] = "idle"
  /\ Phase(c) = "held" <=> lock = c
  /\ Phase(c) = "waiting" <=> pc[c] = "acquire" /\ lock # c
  /\ Phase(c) = "lost" <=> Inside(c) /\ lock # c
  /\ Phase(c) = "done" <=> pc[c] \in {"release", "ended"} /\ lock # c
  /\ Phase(c) \in {"new", "waiting", "held", "lost", "done"}

PhaseTable == \A c \in Confirms : PhaseOf(c)

LEMMA PhaseFacts == TypeOK /\ LeaseInv => PhaseTable
<1> SUFFICES ASSUME TypeOK, LeaseInv, NEW c \in Confirms PROVE PhaseOf(c)
  BY DEF PhaseTable
<1>1. pc[c] \in Steps /\ (pc[c] = "idle" => lock # c)
  BY ResetAssumption DEF TypeOK, LeaseInv, Steps
<1>2. CASE lock = c
  BY <1>1, <1>2 DEF PhaseOf, Phase, Inside, Within
<1>3. CASE lock # c
  BY <1>1, <1>3 DEF PhaseOf, Phase, Inside, Within, Steps
<1> QED
  BY <1>2, <1>3

\* A step of confirmation c leaves the others alone, and the lock if one has it; c
\* has started before.
Alone(c) ==
  /\ \A d \in Confirms \ {c} : pc'[d] = pc[d] /\ (lock' = d <=> lock = d)
  /\ pc[c] # "idle" /\ pc'[c] # "idle"

\* So it moves one token at most, in a way of the lease lock.
LEMMA OneToken ==
  ASSUME PhaseTable, PhaseTable', NEW c \in Confirms, Alone(c),
         \/ Phase(c)' = Phase(c)
         \/ Phase(c) \in {"waiting", "held", "lost"} /\ Phase(c)' = "done"
         \/ Phase(c) = "waiting" /\ Phase(c)' = "held" /\ lock = None
  PROVE  [ResetLock!Next]_(ResetLock!vars)
<1> DEFINE phase == [d \in Confirms |-> Phase(d)]
<1>1. Started' = Started
  BY DEF Alone, Started
<1>2. \A d \in Confirms \ {c} : Phase(d)' = Phase(d)
  BY DEF PhaseTable, PhaseOf, Alone, Inside
<1>3. phase' = [phase EXCEPT ![c] = Phase(c)']
  BY <1>2
<1>4. CASE Phase(c)' = Phase(c)
  BY <1>1, <1>3, <1>4 DEF ResetLock!vars
<1>5. CASE Phase(c) = "waiting" /\ Phase(c)' = "done"
  <2>1. ResetLock!GiveUp(c)
    BY <1>1, <1>3, <1>5 DEF ResetLock!GiveUp
  <2> QED BY <2>1 DEF ResetLock!Next
<1>6. CASE Phase(c) = "held" /\ Phase(c)' = "done"
  <2>1. ResetLock!Release(c)
    BY <1>1, <1>3, <1>6 DEF ResetLock!Release, ResetLock!Move
  <2> QED BY <2>1 DEF ResetLock!Next
<1>7. CASE Phase(c) = "lost" /\ Phase(c)' = "done"
  <2>1. ResetLock!Leave(c)
    BY <1>1, <1>3, <1>7 DEF ResetLock!Leave, ResetLock!Move
  <2> QED BY <2>1 DEF ResetLock!Next
<1>8. CASE Phase(c) = "waiting" /\ Phase(c)' = "held" /\ lock = None
  <2>1. \A d \in Confirms : Phase(d) # "held"
    BY <1>8, ResetAssumption DEF PhaseTable, PhaseOf
  <2>2. ResetLock!Acquire(c)
    BY <1>1, <1>3, <1>8, <2>1 DEF ResetLock!Acquire, ResetLock!Held, ResetLock!Move
  <2> QED BY <2>2 DEF ResetLock!Next
<1> QED
  BY <1>4, <1>5, <1>6, <1>7, <1>8

LEMMA Refine ==
  TypeOK /\ TypeOK' /\ LeaseInv /\ LeaseInv' /\ [Next]_vars => [ResetLock!Next]_(ResetLock!vars)
<1> SUFFICES ASSUME TypeOK, TypeOK', LeaseInv, LeaseInv', [Next]_vars
             PROVE  [ResetLock!Next]_(ResetLock!vars)
  OBVIOUS
<1> DEFINE phase == [c \in Confirms |-> Phase(c)]
<1> USE ResetAssumption
<1>0. PhaseTable /\ PhaseTable'
  BY PhaseFacts, PTL
<1>1. CASE UNCHANGED <<pc, lock>>
  <2>1. Started' = Started /\ \A c \in Confirms : Phase(c)' = Phase(c)
    BY <1>1 DEF Started, Phase, Inside
  <2> QED BY <2>1 DEF ResetLock!vars
<1>2. CASE Request \/ Draw \/ (\E k \in Codes : Resend(k)) \/ FailRequest \/ UNCHANGED vars
  BY <1>1, <1>2 DEF Request, Draw, Resend, Store, FailRequest, vars, leases, calls
<1>3. ASSUME NEW c \in Confirms, Confirm(c) PROVE [ResetLock!Next]_(ResetLock!vars)
  <2>1. pc[c] = "idle" /\ pc' = [pc EXCEPT ![c] = "acquire"] /\ lock' = lock
    BY <1>3 DEF Confirm, Goto, leases
  <2>2. \A d \in Confirms \ {c} : Phase(d)' = Phase(d)
    BY <1>0, <2>1 DEF PhaseTable, PhaseOf, Inside, TypeOK
  <2>3. pc'[c] = "acquire" /\ lock # c
    BY <2>1 DEF LeaseInv, TypeOK
  <2>4. Phase(c) = "new" /\ Phase(c)' = "waiting"
    BY <1>0, <2>1, <2>3 DEF PhaseTable, PhaseOf
  <2>5. phase' = [phase EXCEPT ![c] = "waiting"]
    BY <2>2, <2>4
  <2>6. Started' = [Started EXCEPT ![c] = User]
    BY <2>1 DEF Started, TypeOK
  <2>7. ResetLock!Ask(c, User)
    BY <2>4, <2>5, <2>6 DEF ResetLock!Ask, ResetLock!Move
  <2> QED BY <2>7 DEF ResetLock!Next
<1>4. ASSUME NEW c \in Confirms, Acquire(c) PROVE [ResetLock!Next]_(ResetLock!vars)
  <2>1. pc[c] = "acquire" /\ pc'[c] \in {"acquire", "incr", "ended"}
    BY <1>4 DEF Acquire, Reply, Applied, Goto, TypeOK
  <2>2. \A d \in Confirms \ {c} : pc'[d] = pc[d]
    BY <1>4 DEF Acquire, Reply, Applied, Goto, TypeOK
  <2>3. CASE lock = None
    <3>1. lock' = c
      BY <1>4, <2>3 DEF Acquire
    <3>2. Phase(c) = "waiting" /\ Phase(c)' = "held" /\ Alone(c)
      BY <1>0, <2>1, <2>2, <2>3, <3>1 DEF PhaseTable, PhaseOf, Alone
    <3> QED BY <1>0, <2>3, <3>2, OneToken
  <2>4. CASE lock # None
    <3>1. lock' = lock /\ pc'[c] # "incr"
      BY <1>4, <2>4 DEF Acquire, Reply, Applied, Goto, leases, TypeOK
    <3>2. Phase(c)' = Phase(c) \/ (Phase(c) = "waiting" /\ Phase(c)' = "done")
      BY <1>0, <2>1, <3>1 DEF PhaseTable, PhaseOf
    <3> QED BY <1>0, <2>1, <2>2, <3>1, <3>2, OneToken DEF Alone
  <2> QED BY <2>3, <2>4
<1>5. ASSUME NEW c \in Confirms,
             \/ Incr(c) \/ Expire(c) \/ Compare(c) \/ Commit(c) \/ DelCode(c)
             \/ DelAttempts(c) \/ Revoke(c) \/ Raise(c) \/ Crash(c)
      PROVE [ResetLock!Next]_(ResetLock!vars)
  <2>1. /\ lock' = lock /\ pc[c] # "idle" /\ pc'[c] \in {"release", "ended"} \cup Within
        /\ Inside(c)' => Inside(c)
    BY <1>5 DEF Incr, Expire, Compare, Commit, DelCode, DelAttempts, Revoke, Raise, Crash,
                Reply, Applied, Goto, TypeOK, Inside, Within, leases
  <2>2. \A d \in Confirms \ {c} : pc'[d] = pc[d]
    BY <1>5 DEF Incr, Expire, Compare, Commit, DelCode, DelAttempts, Revoke, Raise, Crash,
                Reply, Applied, Goto, TypeOK
  <2>3. \/ Phase(c)' = Phase(c)
        \/ Phase(c) \in {"waiting", "lost"} /\ Phase(c)' = "done"
    BY <1>0, <2>1 DEF PhaseTable, PhaseOf, Inside, Within
  <2>4. Alone(c)
    BY <2>1, <2>2 DEF Alone, Within
  <2> QED BY <1>0, <2>3, <2>4, OneToken
<1>6. ASSUME NEW c \in Confirms, Release(c) PROVE [ResetLock!Next]_(ResetLock!vars)
  <2>1. /\ pc[c] = "release" /\ pc'[c] \in {"release", "ended"} /\ lock' # c
        /\ lock # c => lock' = lock
        /\ lock = c => lock' = None
        /\ \A d \in Confirms \ {c} : pc'[d] = pc[d]
    BY <1>6 DEF Release, Reply, Applied, Goto, TypeOK
  <2>2. Alone(c) /\ Phase(c)' = "done" /\ Phase(c) \in {"held", "done"}
    BY <1>0, <2>1 DEF PhaseTable, PhaseOf, Alone, Inside, Within
  <2> QED BY <1>0, <2>2, OneToken
<1>7. CASE Tick
  <2>1. pc' = pc /\ lock' \in {None, lock}
    BY <1>7 DEF Tick, calls
  <2>2. CASE lock' = lock
    BY <1>1, <2>1, <2>2
  <2>3. CASE lock' = None /\ lock # None
    <3> DEFINE Lapsed == {c \in Confirms : Phase(c) = "held"}
               lost == {c \in Lapsed : Phase(c)' = "lost"}
               dead == {c \in Lapsed : Phase(c)' = "done"}
               asking == {c \in Lapsed : Phase(c)' = "waiting"}
    <3>1. Started' = Started
      BY <2>1 DEF Started
    <3>2. \A c \in Confirms : Phase(c) # "held" => Phase(c)' = Phase(c)
      BY <1>0, <2>1, <2>3 DEF PhaseTable, PhaseOf, Inside
    <3>3. \A c \in Lapsed : Phase(c)' \in {"lost", "done", "waiting"}
      BY <1>0, <2>1, <2>3 DEF PhaseTable, PhaseOf, LeaseInv
    <3>4. \A c \in Confirms : Phase(c)' =
            CASE c \in lost -> "lost"
              [] c \in dead \ lost -> "done"
              [] c \in asking \ (lost \cup dead) -> "waiting"
              [] OTHER -> Phase(c)
      BY <3>2, <3>3
    <3>5. ResetLock!Lapse(lost, dead, asking)
      BY <3>1, <3>4 DEF ResetLock!Lapse
    <3>6. lost \in SUBSET Confirms /\ dead \in SUBSET Confirms /\ asking \in SUBSET Confirms
      OBVIOUS
    <3> HIDE DEF lost, dead, asking
    <3> QED BY <3>5, <3>6 DEF ResetLock!Next
  <2> QED BY <2>1, <2>2, <2>3
<1> QED
  BY <1>2, <1>3, <1>4, <1>5, <1>6, <1>7 DEF Next, Step

\* The reset lock is a lease lock, also when confirmations outlive their leases.
THEOREM Implements == Spec => ImplementsLeaseLock
<1>1. Init => ResetLock!Init
  <2> SUFFICES ASSUME Init, NEW c \in Confirms PROVE pc[c] = "idle" /\ Phase(c) = "new"
    BY DEF Init, ResetLock!Init, Started
  <2> QED BY ResetAssumption DEF Init, Phase, Inside, Within
<1>2. Init => LeaseInv
  BY DEF Init, LeaseInv, Inside, Within
<1> QED
  BY <1>1, <1>2, TypeCorrect, TypeInit, TypeNext, LeaseNext, Refine, PTL
     DEF Spec, ResetLock!Spec, ImplementsLeaseLock
==============================================================================
