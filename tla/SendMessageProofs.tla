------------------------- MODULE SendMessageProofs -------------------------
(***************************************************************************)
(* What TLAPS proves of SendMessage, and of a Chat that shows its messages *)
(* to clients, for any numbers of users, calls, texts and clients, any     *)
(* limits and leases, and any number of faults.                            *)
(***************************************************************************)
EXTENDS Chat, FiniteSetTheorems, TLAPS

\* Changing one value of a function within its range keeps its type.
LEMMA ExceptType ==
  ASSUME NEW S, NEW T, NEW f \in [S -> T], NEW x, NEW y \in T
  PROVE  [f EXCEPT ![x] = y] \in [S -> T]
  OBVIOUS

\* An API without calls, with nothing in Redis, is well typed.
LEMMA TypeInit == Init => TypeOK
  BY NoneAssumption, TtlAssumption
     DEF Init, TypeOK, CallsTypeOK, RedisTypeOK, StoresTypeOK, HistoryTypeOK,
         Steps, NoSpam

\* Whatever becomes of an operation, the call goes on at a step of the program.
LEMMA ReplyType ==
  ASSUME CallsTypeOK, NEW r \in Requests, pc[r] # "idle",
         NEW answered \in Steps \ {"idle"}, NEW raised \in Steps \ {"idle"},
         Reply(r, answered, raised), UNCHANGED input
  PROVE  CallsTypeOK'
  BY TtlAssumption DEF CallsTypeOK, Reply, Applied, Goto, Fault, input

\* Every step of create_message keeps every variable's type.
LEMMA TypeNext == TypeOK /\ [Next]_vars => TypeOK'
<1> SUFFICES ASSUME TypeOK, [Next]_vars PROVE TypeOK'
  OBVIOUS
<1> USE NoneAssumption, TtlAssumption DEF TypeOK
<1>1. ASSUME NEW r \in Requests, NEW u \in Users, NEW b \in Bodies, Submit(r, u, b)
      PROVE TypeOK'
  <2>1. CallsTypeOK'
    BY <1>1 DEF Submit, At, Goto, CallsTypeOK, Steps, Before
  <2>2. RedisTypeOK' /\ StoresTypeOK' /\ HistoryTypeOK'
    BY <1>1 DEF Submit, redis, stores, history, RedisTypeOK, StoresTypeOK, HistoryTypeOK
  <2> QED BY <2>1, <2>2
<1>2. ASSUME NEW r \in Requests, Peek(r) \/ Invalid(r) PROVE TypeOK'
  <2>1. CallsTypeOK'
    BY <1>2 DEF Peek, Invalid, At, Goto, CallsTypeOK, Steps, Before, Answered, input
  <2>2. RedisTypeOK' /\ StoresTypeOK' /\ HistoryTypeOK'
    BY <1>2 DEF Peek, Invalid, redis, stores, history, RedisTypeOK, StoresTypeOK,
                HistoryTypeOK
  <2> QED BY <2>1, <2>2
<1>3. ASSUME NEW r \in Requests, CheckRate(r) PROVE TypeOK'
  <2>1. CallsTypeOK'
    BY <1>3, ReplyType DEF CheckRate, At, Steps, Before, Answered
  <2>2. RedisTypeOK'
    BY <1>3 DEF CheckRate, RedisTypeOK
  <2>3. StoresTypeOK'
    BY <1>3 DEF CheckRate, stores, StoresTypeOK
  <2>4. sinceAdmit' \in [Users -> 0 .. RateLimit]
    <3>1. sinceAdmit' = sinceAdmit \/ sinceAdmit' = [sinceAdmit EXCEPT ![who[r]] = 0]
      BY <1>3 DEF CheckRate
    <3>2. 0 \in 0 .. RateLimit
      BY TtlAssumption
    <3> QED BY <3>1, <3>2 DEF HistoryTypeOK
  <2>5. HistoryTypeOK'
    BY <1>3, <2>4 DEF CheckRate, HistoryTypeOK
  <2> QED BY <2>1, <2>2, <2>3, <2>5
<1>4. ASSUME NEW r \in Requests, CheckSpam(r) PROVE TypeOK'
  <2>1. CallsTypeOK'
    BY <1>4, ReplyType DEF CheckSpam, At, Steps, Before, Answered
  <2>2. body[r] \in Bodies /\ who[r] \in Users
    BY <1>4 DEF CheckSpam, At, CallsTypeOK
  <2>3. NewCount(who[r], body[r]) \in Nat
    BY <2>2 DEF NewCount, RedisTypeOK
  <2>4. RedisTypeOK'
    <3>1. [f |-> body[r], c |-> NewCount(who[r], body[r])]
            \in [f : Bodies \cup {None}, c : Nat]
      BY <2>2, <2>3
    <3>2. /\ spam' = [spam EXCEPT ![who[r]] =
                       [f |-> body[r], c |-> NewCount(who[r], body[r])]]
          /\ spamTtl' = [spamTtl EXCEPT ![who[r]] = SpamTtl]
          /\ UNCHANGED <<rateTtl, lock, lockTtl>>
      BY <1>4 DEF CheckSpam
    <3>3. spam' \in [Users -> [f : Bodies \cup {None}, c : Nat]]
      BY <3>1, <3>2, <2>2 DEF RedisTypeOK
    <3>4. spamTtl' \in [Users -> 0 .. SpamTtl]
      <4>1. SpamTtl \in 0 .. SpamTtl
        OBVIOUS
      <4> QED BY <3>2, <4>1, ExceptType DEF RedisTypeOK
    <3> QED BY <3>2, <3>3, <3>4 DEF RedisTypeOK
  <2>5. StoresTypeOK'
    BY <1>4 DEF CheckSpam, stores, StoresTypeOK
  <2>6. accepted' \in [Users -> Seq(Bodies)]
    <3>1. \/ accepted' = accepted
          \/ accepted' = [accepted EXCEPT ![who[r]] = Append(accepted[who[r]], body[r])]
      BY <1>4 DEF CheckSpam
    <3>2. Append(accepted[who[r]], body[r]) \in Seq(Bodies)
      BY <2>2 DEF HistoryTypeOK
    <3> QED BY <3>1, <3>2 DEF HistoryTypeOK
  <2>7. HistoryTypeOK'
    BY <1>4, <2>6 DEF CheckSpam, HistoryTypeOK
  <2> QED BY <2>1, <2>4, <2>5, <2>7
<1>5. ASSUME NEW r \in Requests, Acquire(r) PROVE TypeOK'
  <2>1. CallsTypeOK'
    BY <1>5, ReplyType DEF Acquire, At, Steps, Before, Within, Answered
  <2>2. RedisTypeOK'
    BY <1>5 DEF Acquire, RedisTypeOK
  <2>3. StoresTypeOK' /\ HistoryTypeOK'
    BY <1>5 DEF Acquire, stores, history, StoresTypeOK, HistoryTypeOK
  <2> QED BY <2>1, <2>2, <2>3
<1>6. ASSUME NEW r \in Requests,
             Upload(r) \/ Commit(r) \/ Invalidate(r) \/ Publish(r) \/ Dispatch(r)
      PROVE TypeOK'
  <2>1. CallsTypeOK'
    <3>1. pc[r] # "idle" /\ UNCHANGED input
      BY <1>6 DEF Upload, Commit, Invalidate, Publish, Dispatch, At
    <3>2. \E to \in Steps \ {"idle"} : Reply(r, to, "unwind")
      BY <1>6 DEF Upload, Commit, Invalidate, Publish, Dispatch, Reply, Applied,
                  Steps, Within, Finally
    <3> QED BY <3>1, <3>2, ReplyType DEF Steps, Finally
  <2>2. StoresTypeOK'
    <3>1. /\ objects' \subseteq objects \cup {r}
          /\ invalidated' \subseteq invalidated \cup {r}
          /\ queued' \subseteq queued \cup {r}
      BY <1>6 DEF Upload, Commit, Invalidate, Publish, Dispatch
    <3>2. rows' \in {rows, Append(rows, r)} /\ published' \in {published, Append(published, r)}
      BY <1>6 DEF Upload, Commit, Invalidate, Publish, Dispatch
    <3>3. Append(rows, r) \in Seq(Requests) /\ Append(published, r) \in Seq(Requests)
      BY DEF StoresTypeOK
    <3> QED BY <3>1, <3>2, <3>3 DEF StoresTypeOK
  <2>3. RedisTypeOK' /\ HistoryTypeOK'
    BY <1>6 DEF Upload, Commit, Invalidate, Publish, Dispatch, redis, history,
                RedisTypeOK, HistoryTypeOK
  <2> QED BY <2>1, <2>2, <2>3
<1>7. ASSUME NEW r \in Requests, Release(r) PROVE TypeOK'
  <2>1. CallsTypeOK'
    <3>1. pc[r] # "idle" /\ UNCHANGED input
      BY <1>7 DEF Release, At
    <3>2. \E to \in Steps \ {"idle"} : Reply(r, to, "failed")
      BY <1>7 DEF Release, Steps, Answered
    <3> QED BY <3>1, <3>2, ReplyType DEF Steps, Answered
  <2>2. RedisTypeOK'
    <3>1. lock' \in [Users -> Requests \cup {None}]
      BY <1>7 DEF Release, RedisTypeOK
    <3>2. lockTtl' \in [Users -> 0 .. LockTtl]
      <4>1. lockTtl' = [lockTtl EXCEPT ![who[r]] = 0] \/ lockTtl' = lockTtl
        BY <1>7 DEF Release, RedisTypeOK
      <4>2. 0 \in 0 .. LockTtl
        OBVIOUS
      <4> QED BY <4>1, <4>2, ExceptType DEF RedisTypeOK
    <3> QED BY <1>7, <3>1, <3>2 DEF Release, RedisTypeOK
  <2>3. StoresTypeOK' /\ HistoryTypeOK'
    BY <1>7 DEF Release, stores, history, StoresTypeOK, HistoryTypeOK
  <2> QED BY <2>1, <2>2, <2>3
<1>8. ASSUME NEW r \in Requests, Raise(r) \/ Crash(r) PROVE TypeOK'
  <2>1. CallsTypeOK'
    BY <1>8, ReplyType DEF Raise, Crash, Active, Reply, Applied, Steps, Before, Within,
                           Finally, Answered
  <2>2. RedisTypeOK' /\ StoresTypeOK' /\ HistoryTypeOK'
    BY <1>8 DEF Raise, Crash, redis, stores, history, RedisTypeOK, StoresTypeOK,
                HistoryTypeOK
  <2> QED BY <2>1, <2>2
<1>9. CASE Tick
  <2>1. CallsTypeOK' /\ StoresTypeOK'
    BY <1>9 DEF Tick, calls, input, stores, CallsTypeOK, StoresTypeOK
  <2>2. RedisTypeOK'
    <3>1. /\ rateTtl' \in [Users -> 0 .. RateLimit]
          /\ spamTtl' \in [Users -> 0 .. SpamTtl]
          /\ lockTtl' \in [Users -> 0 .. LockTtl]
      <4>1. \A m \in Nat : \A n \in 0 .. m : Less(n) \in 0 .. m
        BY DEF Less
      <4> QED BY <1>9, <4>1 DEF Tick, RedisTypeOK
    <3>2. lock' \in [Users -> Requests \cup {None}]
      BY <1>9 DEF Tick, RedisTypeOK
    <3>3. NoSpam \in [f : Bodies \cup {None}, c : Nat]
      BY DEF NoSpam
    <3>4. spam' \in [Users -> [f : Bodies \cup {None}, c : Nat]]
      BY <1>9, <3>3 DEF Tick, RedisTypeOK
    <3> QED BY <3>1, <3>2, <3>4 DEF RedisTypeOK
  <2>3. HistoryTypeOK'
    <3>1. sinceAdmit' \in [Users -> 0 .. RateLimit]
      <4>1. \A n \in 0 .. RateLimit :
              (IF n < RateLimit THEN n + 1 ELSE RateLimit) \in 0 .. RateLimit
        BY TtlAssumption
      <4> QED BY <1>9, <4>1 DEF Tick, HistoryTypeOK
    <3>2. accepted' \in [Users -> Seq(Bodies)]
      <4>1. <<>> \in Seq(Bodies)
        OBVIOUS
      <4>2. accepted' = [u \in Users |-> IF spamTtl[u] <= 1 THEN <<>> ELSE accepted[u]]
        BY <1>9 DEF Tick
      <4>3. \A u \in Users : accepted[u] \in Seq(Bodies)
        BY DEF HistoryTypeOK
      <4> QED BY <4>1, <4>2, <4>3
    <3>3. overran' \subseteq Requests
      BY <1>9 DEF Tick, HistoryTypeOK
    <3> QED BY <3>1, <3>2, <3>3 DEF HistoryTypeOK
  <2> QED BY <2>1, <2>2, <2>3
<1>10. CASE UNCHANGED vars
  BY <1>10 DEF vars, calls, input, redis, stores, history, CallsTypeOK, RedisTypeOK,
               StoresTypeOK, HistoryTypeOK
<1> QED
  BY <1>1, <1>2, <1>3, <1>4, <1>5, <1>6, <1>7, <1>8, <1>9, <1>10 DEF Next, Step

\* Every variable keeps its type.
THEOREM TypeCorrect == Spec => []TypeOK
  BY TypeInit, TypeNext, PTL DEF Spec

------------------------------------------------------------------------------
(* The send lock.  LeaseExclusion is inductive with the types. *)

\* A step that takes no call into the guarded block and leaves the locks alone.
LEMMA LeaseQuiet ==
  ASSUME LeaseExclusion, UNCHANGED <<who, lock, overran>>,
         \A r \in Requests : Inside(r)' => Inside(r)
  PROVE  LeaseExclusion'
  BY DEF LeaseExclusion

\* A call in the guarded block that kept within its lease still holds the lock.
LEMMA LeaseNext == TypeOK /\ LeaseExclusion /\ [Next]_vars => LeaseExclusion'
<1> SUFFICES ASSUME TypeOK, LeaseExclusion, [Next]_vars PROVE LeaseExclusion'
  OBVIOUS
<1> USE NoneAssumption, TtlAssumption DEF TypeOK
<1>1. ASSUME NEW r \in Requests, NEW u \in Users, NEW b \in Bodies, Submit(r, u, b)
      PROVE LeaseExclusion'
  BY <1>1 DEF Submit, At, Goto, LeaseExclusion, Inside, Within, CallsTypeOK, redis, history
<1>2. ASSUME NEW r \in Requests,
             Peek(r) \/ Invalid(r) \/ CheckRate(r) \/ CheckSpam(r)
      PROVE LeaseExclusion'
  <2>1. \A s \in Requests : Inside(s)' => Inside(s)
    BY <1>2 DEF Peek, Invalid, CheckRate, CheckSpam, Reply, Applied, Goto, Inside,
                Within, CallsTypeOK
  <2> QED BY <1>2, <2>1, LeaseQuiet
          DEF Peek, Invalid, CheckRate, CheckSpam, input, redis, history
<1>3. ASSUME NEW r \in Requests, Acquire(r) PROVE LeaseExclusion'
  <2>1. CASE lock[who[r]] = None
    BY <1>3, <2>1 DEF Acquire, At, Reply, Applied, Goto, LeaseExclusion, Inside, Within,
                      CallsTypeOK, RedisTypeOK, input, history
  <2>2. CASE lock[who[r]] # None
    BY <1>3, <2>2, LeaseQuiet DEF Acquire, Reply, Applied, Goto, Inside, Within,
                                  CallsTypeOK, input, history
  <2> QED BY <2>1, <2>2
<1>4. ASSUME NEW r \in Requests,
             Upload(r) \/ Commit(r) \/ Invalidate(r) \/ Publish(r) \/ Dispatch(r)
      PROVE LeaseExclusion'
  <2>1. \A s \in Requests : Inside(s)' => Inside(s)
    BY <1>4 DEF Upload, Commit, Invalidate, Publish, Dispatch, At, Reply, Applied,
                Goto, Inside, Within, CallsTypeOK
  <2> QED BY <1>4, <2>1, LeaseQuiet
          DEF Upload, Commit, Invalidate, Publish, Dispatch, input, redis, history
<1>5. ASSUME NEW r \in Requests, Release(r) PROVE LeaseExclusion'
  <2>1. \A s \in Requests : Inside(s)' => Inside(s) /\ s # r
    BY <1>5 DEF Release, At, Reply, Applied, Goto, Inside, Within, CallsTypeOK
  <2>2. \A s \in Requests : lock[who[s]] = s /\ s # r => lock'[who[s]] = s
    BY <1>5 DEF Release, RedisTypeOK
  <2> QED BY <1>5, <2>1, <2>2 DEF Release, LeaseExclusion, input, history
<1>6. ASSUME NEW r \in Requests, Raise(r) \/ Crash(r) PROVE LeaseExclusion'
  <2>1. \A s \in Requests : Inside(s)' => Inside(s)
    BY <1>6 DEF Raise, Crash, Inside, Within, CallsTypeOK
  <2> QED BY <1>6, <2>1, LeaseQuiet DEF Raise, Crash, input, redis, history
<1>7. CASE Tick
  BY <1>7 DEF Tick, LeaseExclusion, Inside, Within, calls, input, CallsTypeOK, RedisTypeOK
<1>8. CASE UNCHANGED vars
  BY <1>8, LeaseQuiet DEF vars, calls, input, redis, history, Inside
<1> QED
  BY <1>1, <1>2, <1>3, <1>4, <1>5, <1>6, <1>7, <1>8 DEF Next, Step

\* The send lock excludes the calls of a user that keep within their leases.
THEOREM Exclusion == Spec => []LeaseExclusion
<1>1. Init => LeaseExclusion
  BY DEF Init, LeaseExclusion, Inside, Within
<1> QED
  BY <1>1, TypeCorrect, LeaseNext, PTL DEF Spec

------------------------------------------------------------------------------
(* Whose a send lock is: HolderAccountable, strengthened by the steps at which
   a call can hold the lock without a fault. *)

HolderInv ==
  \A u \in Users : lock[u] # None =>
    /\ lockTtl[u] > 0
    /\ who[lock[u]] = u
    /\ \/ pc[lock[u]] \in Within \cup Finally \cup {"failed", "crashed"}
       \/ pc[lock[u]] \in {"acquire", "rejected"} /\ faults > 0

\* How a call goes on after a Redis command was applied.
LEMMA ReplyCases ==
  ASSUME CallsTypeOK, NEW r \in Requests, NEW answered, NEW raised,
         Reply(r, answered, raised)
  PROVE  \/ pc' = [pc EXCEPT ![r] = answered] /\ faults' = faults
         \/ pc' = [pc EXCEPT ![r] = raised] /\ faults' > 0
         \/ pc' = pc /\ faults' > 0
  BY TtlAssumption DEF Reply, Applied, Goto, Fault, CallsTypeOK

\* Only Acquire names a holder, and a holder that ends without giving the lock
\* back has failed, crashed or lost an answer.
LEMMA HolderNext == TypeOK /\ HolderInv /\ [Next]_vars => HolderInv'
<1> SUFFICES ASSUME TypeOK, HolderInv, [Next]_vars PROVE HolderInv'
  OBVIOUS
<1> USE NoneAssumption, TtlAssumption DEF TypeOK
<1>1. ASSUME NEW r \in Requests, NEW u \in Users, NEW b \in Bodies, Submit(r, u, b)
      PROVE HolderInv'
  BY <1>1 DEF Submit, At, Goto, HolderInv, Within, Finally, CallsTypeOK, RedisTypeOK,
              redis
<1>2. ASSUME NEW r \in Requests,
             Peek(r) \/ Invalid(r) \/ CheckRate(r) \/ CheckSpam(r)
      PROVE HolderInv'
  <2>1. pc[r] \in {"peek", "rate", "spam"}
    BY <1>2 DEF Peek, Invalid, CheckRate, CheckSpam, At
  <2>2. \A s \in Requests : s # r => pc'[s] = pc[s]
    BY <1>2 DEF Peek, Invalid, CheckRate, CheckSpam, Reply, Applied, Goto, CallsTypeOK
  <2>3. UNCHANGED <<who, lock, lockTtl>> /\ (faults > 0 => faults' > 0)
    BY <1>2 DEF Peek, Invalid, CheckRate, CheckSpam, Reply, Applied, Goto, Fault,
                input, redis, CallsTypeOK
  <2> QED BY <2>1, <2>2, <2>3 DEF HolderInv, Within, Finally, RedisTypeOK
<1>3. ASSUME NEW r \in Requests, Acquire(r) PROVE HolderInv'
  <2>1. CASE lock[who[r]] = None
    <3>1. who[r] \in Users /\ r # None
      BY <1>3 DEF Acquire, At, CallsTypeOK
    <3>2. /\ lock'[who[r]] = r /\ lockTtl'[who[r]] > 0
          /\ \A u \in Users \ {who[r]} : lock'[u] = lock[u] /\ lockTtl'[u] = lockTtl[u]
      BY <1>3, <2>1, <3>1 DEF Acquire, RedisTypeOK
    <3>3. \A u \in Users \ {who[r]} : lock[u] # r
      BY <3>1 DEF HolderInv
    <3>4. /\ \/ pc'[r] \in Within \cup {"failed"}
             \/ pc'[r] = "acquire" /\ faults' > 0
          /\ \A s \in Requests : s # r => pc'[s] = pc[s]
          /\ who' = who /\ (faults > 0 => faults' > 0)
      <4>1. Reply(r, IF file[r] THEN "upload" ELSE "commit", "failed")
        BY <1>3, <2>1 DEF Acquire
      <4>2. \/ \E to \in Within : pc' = [pc EXCEPT ![r] = to] /\ faults' = faults
            \/ pc' = [pc EXCEPT ![r] = "failed"] /\ faults' > 0
            \/ pc' = pc /\ faults' > 0
        BY <4>1, ReplyCases DEF Within
      <4>3. pc[r] = "acquire" /\ who' = who
        BY <1>3 DEF Acquire, At, input
      <4> QED BY <4>2, <4>3 DEF CallsTypeOK
    <3> QED BY <3>1, <3>2, <3>3, <3>4 DEF HolderInv, RedisTypeOK
  <2>2. CASE lock[who[r]] # None
    <3>1. \/ pc' = [pc EXCEPT ![r] = "rejected"] /\ UNCHANGED faults
          \/ pc' = [pc EXCEPT ![r] = "failed"] /\ faults' > 0
          \/ UNCHANGED pc /\ faults' > 0
      <4>1. Reply(r, "rejected", "failed")
        BY <1>3, <2>2 DEF Acquire
      <4> QED BY <4>1, ReplyCases
    <3>2. UNCHANGED <<who, lock, lockTtl>> /\ pc[r] = "acquire"
      BY <1>3, <2>2 DEF Acquire, At, input
    <3> QED BY <3>1, <3>2 DEF HolderInv, Within, Finally, CallsTypeOK, RedisTypeOK
  <2> QED BY <2>1, <2>2
<1>4. ASSUME NEW r \in Requests,
             Upload(r) \/ Commit(r) \/ Invalidate(r) \/ Publish(r) \/ Dispatch(r)
      PROVE HolderInv'
  <2>1. pc'[r] \in Within \cup Finally /\ \A s \in Requests : s # r => pc'[s] = pc[s]
    BY <1>4 DEF Upload, Commit, Invalidate, Publish, Dispatch, At, Reply, Applied,
                Goto, Within, Finally, CallsTypeOK
  <2>2. UNCHANGED <<who, lock, lockTtl>> /\ (faults > 0 => faults' > 0)
    BY <1>4 DEF Upload, Commit, Invalidate, Publish, Dispatch, Reply, Applied, Goto,
                Fault, input, redis, CallsTypeOK
  <2> QED BY <2>1, <2>2 DEF HolderInv, RedisTypeOK
<1>5. ASSUME NEW r \in Requests, Release(r) PROVE HolderInv'
  <2>1. \A s \in Requests : s # r => pc'[s] = pc[s]
    BY <1>5 DEF Release, Reply, Applied, Goto, CallsTypeOK
  <2>2. UNCHANGED who /\ (faults > 0 => faults' > 0)
    BY <1>5 DEF Release, Reply, Applied, Goto, Fault, input, CallsTypeOK
  <2>3. who[r] \in Users
    BY <1>5 DEF Release, At, CallsTypeOK
  <2>4. \A u \in Users : lock'[u] # None =>
          lock'[u] = lock[u] /\ lockTtl'[u] = lockTtl[u] /\ lock[u] # r
    BY <1>5, <2>3 DEF Release, RedisTypeOK, HolderInv
  <2> QED BY <2>1, <2>2, <2>4 DEF HolderInv, RedisTypeOK
<1>6. ASSUME NEW r \in Requests, Raise(r) \/ Crash(r) PROVE HolderInv'
  <2>1. /\ pc'[r] \in Finally \cup {"failed", "crashed"}
        /\ \A s \in Requests : s # r => pc'[s] = pc[s]
    BY <1>6 DEF Raise, Crash, Active, Before, Within, Finally, CallsTypeOK
  <2>2. UNCHANGED <<who, lock, lockTtl>> /\ faults' > 0
    BY <1>6 DEF Raise, Crash, Fault, input, redis, CallsTypeOK
  <2> QED BY <2>1, <2>2 DEF HolderInv, RedisTypeOK
<1>7. CASE Tick
  BY <1>7 DEF Tick, Less, HolderInv, calls, input, RedisTypeOK
<1>8. CASE UNCHANGED vars
  BY <1>8 DEF vars, calls, input, redis, HolderInv
<1> QED
  BY <1>1, <1>2, <1>3, <1>4, <1>5, <1>6, <1>7, <1>8 DEF Next, Step

\* A user's sends are blocked only by a call of that user, for the life of a
\* lease, and never by a call that was answered 201.
THEOREM Accountable == Spec => []HolderAccountable
<1>1. Init => HolderInv
  BY DEF Init, HolderInv
<1>2. HolderInv => HolderAccountable
  BY DEF HolderInv, HolderAccountable, Active, Before
<1> QED
  BY <1>1, <1>2, TypeCorrect, HolderNext, PTL DEF Spec

------------------------------------------------------------------------------
(* The rate limit. *)

\* A user admitted less than RateLimit ago still has a rate-limit key.
SpacingInv == \A u \in Users : sinceAdmit[u] + rateTtl[u] >= RateLimit

\* Redis counts the rate-limit key down no faster than time passes.
LEMMA SpacingNext == TypeOK /\ SpacingInv /\ [Next]_vars => SpacingInv'
<1> SUFFICES ASSUME TypeOK, SpacingInv, [Next]_vars PROVE SpacingInv'
  OBVIOUS
<1> USE TtlAssumption DEF TypeOK
<1>1. CASE UNCHANGED <<rateTtl, sinceAdmit>>
  BY <1>1 DEF SpacingInv
<1>2. ASSUME NEW r \in Requests, CheckRate(r) PROVE SpacingInv'
  <2>1. CASE rateTtl[who[r]] = 0
    <3>1. /\ rateTtl' = [rateTtl EXCEPT ![who[r]] = RateLimit]
          /\ \/ sinceAdmit' = sinceAdmit
             \/ sinceAdmit' = [sinceAdmit EXCEPT ![who[r]] = 0]
      BY <1>2, <2>1 DEF CheckRate
    <3>2. \A u \in Users : 
            rateTtl'[u] = rateTtl[u] \/ (u = who[r] /\ rateTtl'[u] = RateLimit)
      BY <3>1 DEF RedisTypeOK
    <3>3. \A u \in Users : 
            sinceAdmit'[u] = sinceAdmit[u] \/ (u = who[r] /\ sinceAdmit'[u] = 0)
      BY <3>1 DEF HistoryTypeOK
    <3>4. \A u \in Users : u = who[r] => rateTtl'[u] = RateLimit
      BY <3>1 DEF RedisTypeOK
    <3>5. \A u \in Users : rateTtl[u] \in Nat /\ sinceAdmit[u] \in Nat
      BY DEF RedisTypeOK, HistoryTypeOK
    <3> QED BY <3>2, <3>3, <3>4, <3>5 DEF SpacingInv
  <2>2. CASE rateTtl[who[r]] # 0
    BY <1>1, <1>2, <2>2 DEF CheckRate
  <2> QED BY <2>1, <2>2
<1>3. CASE Tick
  <2>1. \A u \in Users : /\ rateTtl[u] \in 0 .. RateLimit
                         /\ sinceAdmit[u] \in 0 .. RateLimit
                         /\ sinceAdmit[u] + rateTtl[u] >= RateLimit
    BY DEF SpacingInv, RedisTypeOK, HistoryTypeOK
  <2>2. \A u \in Users : /\ rateTtl'[u] = IF rateTtl[u] > 0 THEN rateTtl[u] - 1 ELSE 0
                         /\ sinceAdmit'[u] = IF sinceAdmit[u] < RateLimit
                                             THEN sinceAdmit[u] + 1 ELSE RateLimit
    BY <1>3 DEF Tick, Less
  <2> QED BY <2>1, <2>2 DEF SpacingInv
<1>4. CASE Next /\ ~Tick /\ \A r \in Requests : ~CheckRate(r)
  <2>1. UNCHANGED <<rateTtl, sinceAdmit>>
    BY <1>4 DEF Next, Step, Submit, Peek, Invalid, CheckSpam, Acquire, Upload, Commit,
                Invalidate, Publish, Dispatch, Release, Raise, Crash, redis, history
  <2> QED BY <1>1, <2>1
<1>5. CASE UNCHANGED vars
  BY <1>1, <1>5 DEF vars, redis, history
<1> QED
  BY <1>2, <1>3, <1>4, <1>5

\* Only check_rate_limit takes a call from "rate" to "spam", and only when it
\* finds no key.
LEMMA AdmitStep ==
  ASSUME TypeOK, [Next]_vars, NEW r \in Requests, pc[r] = "rate", pc'[r] = "spam"
  PROVE  rateTtl[who[r]] = 0
<1> USE DEF TypeOK, CallsTypeOK
<1>1. ASSUME NEW s \in Requests, CheckRate(s) PROVE rateTtl[who[r]] = 0
  <2>1. s = r
    BY <1>1 DEF CheckRate, Reply, Applied, Goto
  <2>2. CASE rateTtl[who[r]] # 0
    BY <1>1, <2>1, <2>2 DEF CheckRate, Reply, Applied, Goto
  <2> QED BY <2>2
<1>2. ASSUME NEW s \in Requests,
             \/ Peek(s) \/ Invalid(s) \/ CheckSpam(s) \/ Acquire(s)
             \/ \E u \in Users, b \in Bodies : Submit(s, u, b)
      PROVE FALSE
  BY <1>2 DEF Peek, Invalid, CheckSpam, Acquire, Submit, At, Reply, Applied, Goto
<1>3. ASSUME NEW s \in Requests,
             Upload(s) \/ Commit(s) \/ Invalidate(s) \/ Publish(s) \/ Dispatch(s)
      PROVE FALSE
  BY <1>3 DEF Upload, Commit, Invalidate, Publish, Dispatch, At, Reply, Applied, Goto
<1>4. ASSUME NEW s \in Requests, Release(s) \/ Raise(s) \/ Crash(s) PROVE FALSE
  BY <1>4 DEF Release, Raise, Crash, At, Reply, Applied, Goto
<1>5. CASE Tick \/ UNCHANGED vars
  BY <1>5 DEF Tick, vars, calls
<1> QED
  BY <1>1, <1>2, <1>3, <1>4, <1>5 DEF Next, Step

\* Two messages of a user are admitted at least RateLimit apart, however many
\* processes serve the user.
THEOREM Spacing == Spec => AdmissionSpacing
<1> DEFINE Admit == \A r \in Requests : pc[r] = "rate" /\ pc'[r] = "spam"
                      => sinceAdmit[who[r]] = RateLimit
<1>1. Init => SpacingInv
  BY TtlAssumption DEF Init, SpacingInv
<1>2. TypeOK /\ SpacingInv /\ [Next]_vars => [Admit]_vars
  <2> SUFFICES ASSUME TypeOK, SpacingInv, [Next]_vars,
                      NEW r \in Requests, pc[r] = "rate", pc'[r] = "spam"
               PROVE sinceAdmit[who[r]] = RateLimit
    OBVIOUS
  <2>1. rateTtl[who[r]] = 0 /\ who[r] \in Users
    BY AdmitStep DEF TypeOK, CallsTypeOK
  <2> QED BY <2>1, TtlAssumption DEF SpacingInv, TypeOK, HistoryTypeOK
<1> QED
  BY <1>1, <1>2, TypeCorrect, SpacingNext, PTL DEF Spec, AdmissionSpacing

------------------------------------------------------------------------------
(* The spam filter.  c bounds the run of equal fingerprints at the end of what
   the filter let through; the runs further back are bounded by SpamStreak. *)

LastRun(a, c) ==
  \A i \in 1 .. Len(a) :
    (\A k \in i .. Len(a) : a[k] = a[Len(a)]) => Len(a) - i + 1 <= c

Runs(a) ==
  \A i, j \in 1 .. Len(a) :
    (i <= j /\ \A k \in i .. j : a[k] = a[j]) => j - i < MaxSame

StreakInv ==
  \A u \in Users : /\ spamTtl[u] = 0 => accepted[u] = <<>>
                   /\ accepted[u] # <<>> => accepted[u][Len(accepted[u])] = spam[u].f
                   /\ LastRun(accepted[u], spam[u].c)
                   /\ Runs(accepted[u])

\* One more fingerprint b, counted as NewCount counts it.
LEMMA AppendRuns ==
  ASSUME NEW a \in Seq(Bodies), NEW b \in Bodies, NEW old \in Nat, NEW c \in Nat,
         LastRun(a, old), Runs(a), c \in 1 .. MaxSame,
         a # <<>> /\ a[Len(a)] = b => c = old + 1
  PROVE  /\ LastRun(Append(a, b), c)
         /\ Runs(Append(a, b))
         /\ Append(a, b) # <<>>
         /\ Append(a, b)[Len(Append(a, b))] = b
<1> DEFINE n == Len(a)
           s == Append(a, b)
<1>1. n \in Nat /\ Len(s) = n + 1 /\ s[n + 1] = b /\ \A k \in 1 .. n : s[k] = a[k]
  OBVIOUS
<1>2. LastRun(s, c)
  <2> SUFFICES ASSUME NEW i \in 1 .. n + 1, \A k \in i .. n + 1 : s[k] = b
               PROVE  n + 1 - i + 1 <= c
    BY <1>1 DEF LastRun
  <2>1. CASE i = n + 1
    BY <2>1, <1>1
  <2>2. CASE i # n + 1
    <3>1. i \in 1 .. n /\ n \in i .. n + 1 /\ n \in 1 .. n
      BY <2>2, <1>1
    <3>2. a[n] = b
      BY <3>1, <1>1
    <3>3. \A k \in i .. n : a[k] = a[n]
      BY <3>1, <3>2, <1>1
    <3>4. n - i + 1 <= old
      BY <3>1, <3>3 DEF LastRun
    <3>5. a # <<>>
      BY <3>1
    <3> QED BY <3>2, <3>4, <3>5, <1>1
  <2> QED BY <2>1, <2>2
<1>3. Runs(s)
  <2> SUFFICES ASSUME NEW i \in 1 .. n + 1, NEW j \in 1 .. n + 1, i <= j,
                      \A k \in i .. j : s[k] = s[j]
               PROVE  j - i < MaxSame
    BY <1>1 DEF Runs
  <2>1. CASE j = n + 1
    <3>1. n + 1 - i + 1 <= c
      BY <1>1, <1>2, <2>1 DEF LastRun
    <3> QED BY <3>1, <2>1, <1>1, TtlAssumption
  <2>2. CASE j # n + 1
    <3>1. i \in 1 .. n /\ j \in 1 .. n /\ \A k \in i .. j : k \in 1 .. n
      BY <2>2, <1>1
    <3>2. \A k \in i .. j : a[k] = a[j]
      BY <3>1, <1>1
    <3> QED BY <3>1, <3>2 DEF Runs
  <2> QED BY <2>1, <2>2
<1> QED
  BY <1>1, <1>2, <1>3

\* A larger count bounds the last run too.
LEMMA LooserBound ==
  ASSUME NEW a \in Seq(Bodies), NEW old \in Nat, NEW c \in Nat,
         old <= c, LastRun(a, old)
  PROVE  LastRun(a, c)
<1> SUFFICES ASSUME NEW i \in 1 .. Len(a), \A k \in i .. Len(a) : a[k] = a[Len(a)]
             PROVE  Len(a) - i + 1 <= c
  BY DEF LastRun
<1>1. Len(a) - i + 1 <= old
  BY DEF LastRun
<1>2. Len(a) \in Nat
  OBVIOUS
<1> QED
  BY <1>1, <1>2

\* check_spam keeps the stored count equal to the run it has let through.
LEMMA StreakNext == TypeOK /\ StreakInv /\ [Next]_vars => StreakInv'
<1> SUFFICES ASSUME TypeOK, StreakInv, [Next]_vars PROVE StreakInv'
  OBVIOUS
<1> USE TtlAssumption DEF TypeOK
<1>1. CASE UNCHANGED <<spam, spamTtl, accepted>>
  BY <1>1 DEF StreakInv, LastRun, Runs
<1>2. ASSUME NEW r \in Requests, CheckSpam(r) PROVE StreakInv'
  <2> DEFINE u == who[r]
             b == body[r]
             c == NewCount(u, b)
  <2>1. u \in Users /\ b \in Bodies
    BY <1>2 DEF CheckSpam, At, CallsTypeOK
  <2>2. /\ spam[u].c \in Nat /\ accepted[u] \in Seq(Bodies) /\ spamTtl[u] \in Nat
        /\ MaxSame \in Nat \ {0} /\ SpamTtl > 0
    BY <2>1 DEF RedisTypeOK, HistoryTypeOK
  <2>3. c \in Nat \ {0} /\ (c = 1 \/ (spam[u].f = b /\ c = spam[u].c + 1))
    BY <2>2 DEF NewCount
  <2>4. /\ spam'[u] = [f |-> b, c |-> c] /\ spamTtl'[u] = SpamTtl
        /\ \A v \in Users \ {u} : spam'[v] = spam[v] /\ spamTtl'[v] = spamTtl[v]
    BY <1>2, <2>1 DEF CheckSpam, RedisTypeOK
  <2>5. spam'[u].f = b /\ spam'[u].c = c
    BY <2>4
  <2>6. \A v \in Users \ {u} : accepted'[v] = accepted[v]
    BY <1>2 DEF CheckSpam, HistoryTypeOK
  <2>7. /\ accepted'[u] # <<>> => accepted'[u][Len(accepted'[u])] = b
        /\ LastRun(accepted'[u], c)
        /\ Runs(accepted'[u])
    <3>1. CASE c > MaxSame
      <4>1. accepted' = accepted
        BY <1>2, <3>1 DEF CheckSpam
      <4>2. spam[u].f = b /\ c = spam[u].c + 1
        BY <2>2, <2>3, <3>1
      <4>3. /\ accepted[u] # <<>> => accepted[u][Len(accepted[u])] = spam[u].f
            /\ LastRun(accepted[u], spam[u].c)
            /\ Runs(accepted[u])
        BY <2>1 DEF StreakInv
      <4>4. spam[u].c <= c /\ c \in Nat
        BY <4>2, <2>2
      <4>5. LastRun(accepted[u], c)
        <5> HIDE DEF u, b, c
        <5> QED BY <4>3, <4>4, <2>2, LooserBound
      <4>6. accepted'[u] = accepted[u]
        BY <4>1
      <4> HIDE DEF u, b, c
      <4> QED BY <4>2, <4>3, <4>5, <4>6
    <3>2. CASE c <= MaxSame
      <4>1. accepted'[u] = Append(accepted[u], b)
        BY <1>2, <3>2, <2>1, <2>2, <2>3 DEF CheckSpam, HistoryTypeOK
      <4>2. accepted[u] # <<>> /\ accepted[u][Len(accepted[u])] = b => c = spam[u].c + 1
        BY <2>1, <2>2 DEF StreakInv, NewCount
      <4>3. c \in 1 .. MaxSame
        BY <2>2, <2>3, <3>2
      <4>4. LastRun(accepted[u], spam[u].c) /\ Runs(accepted[u])
        BY <2>1 DEF StreakInv
      <4>5. c \in Nat
        BY <2>3
      <4> HIDE DEF u, b, c
      <4> QED BY <4>1, <4>2, <4>3, <4>4, <4>5, <2>1, <2>2, AppendRuns
    <3> QED BY <3>1, <3>2, <2>2, <2>3
  <2> HIDE DEF u, b, c
  <2> QED BY <2>1, <2>2, <2>4, <2>5, <2>6, <2>7 DEF StreakInv
<1>3. CASE Tick
  <2>1. \A u \in Users : /\ spamTtl[u] \in Nat
                         /\ spamTtl'[u] = IF spamTtl[u] > 0 THEN spamTtl[u] - 1 ELSE 0
                         /\ accepted'[u] = IF spamTtl[u] <= 1 THEN <<>> ELSE accepted[u]
                         /\ spam'[u] = IF spamTtl[u] <= 1 THEN NoSpam ELSE spam[u]
    BY <1>3 DEF Tick, Less, RedisTypeOK
  <2>2. LastRun(<<>>, NoSpam.c) /\ Runs(<<>>)
    BY DEF LastRun, Runs
  <2> QED BY <2>1, <2>2 DEF StreakInv
<1>4. CASE Next /\ ~Tick /\ \A r \in Requests : ~CheckSpam(r)
  <2>1. UNCHANGED <<spam, spamTtl, accepted>>
    BY <1>4 DEF Next, Step, Submit, Peek, Invalid, CheckRate, Acquire, Upload, Commit,
                Invalidate, Publish, Dispatch, Release, Raise, Crash, redis, history
  <2> QED BY <1>1, <2>1
<1>5. CASE UNCHANGED vars
  BY <1>1, <1>5 DEF vars, redis, history
<1> QED
  BY <1>2, <1>3, <1>4, <1>5

\* While a user's spam key lives, the filter never lets more than MaxSame equal
\* fingerprints through in a row, whatever the interleaving of the calls.
THEOREM Streak == Spec => []SpamStreak
<1>1. Init => StreakInv
  BY DEF Init, StreakInv, LastRun, Runs
<1>2. StreakInv => SpamStreak
  BY DEF StreakInv, Runs, SpamStreak
<1> QED
  BY <1>1, <1>2, TypeCorrect, StreakNext, PTL DEF Spec

------------------------------------------------------------------------------
(* What a call has done, by the step it is at. *)

Stored(r) == r \in Elements(rows)
Broadcast(r) == r \in Elements(published)

\* Nothing before the commit, and then one thing after the other: a later step has
\* all that the earlier ones do.
DoneBy(r) ==
  /\ pc[r] \in {"idle", "rejected", "upload", "commit"} \cup Before =>
       ~Stored(r) /\ ~Broadcast(r) /\ r \notin invalidated \cup queued
  /\ pc[r] \in {"idle", "rejected", "upload"} \cup Before => r \notin objects
  /\ pc[r] = "commit" => (file[r] => r \in objects)
  /\ pc[r] \in {"invalidate", "publish", "dispatch", "release", "created"} => Stored(r)
  /\ pc[r] \in {"publish", "dispatch", "release", "created"} => r \in invalidated
  /\ pc[r] \in {"dispatch", "release", "created"} => Broadcast(r)
  /\ Stored(r) => (file[r] => r \in objects)
  /\ Broadcast(r) => Stored(r) /\ r \in invalidated

StoredOnce == \A i, j \in 1 .. Len(rows) : rows[i] = rows[j] => i = j

StageInv == StoredOnce /\ \A r \in Requests : DoneBy(r)

\* What Append adds to the elements.
LEMMA AppendElements ==
  ASSUME NEW S, NEW s \in Seq(S), NEW x \in S
  PROVE  Elements(Append(s, x)) = Elements(s) \cup {x}
<1>1. Len(Append(s, x)) = Len(s) + 1 /\ Append(s, x)[Len(s) + 1] = x
  OBVIOUS
<1>2. \A i \in 1 .. Len(s) : Append(s, x)[i] = s[i]
  OBVIOUS
<1>3. Elements(Append(s, x)) \subseteq Elements(s) \cup {x}
  BY <1>1, <1>2 DEF Elements
<1>4. Elements(s) \subseteq Elements(Append(s, x)) /\ x \in Elements(Append(s, x))
  BY <1>1, <1>2 DEF Elements
<1> QED
  BY <1>3, <1>4

\* A step that does nothing to the stores, and brings its call to no step that claims
\* more than has been done.
LEMMA StageKept ==
  ASSUME StageInv, UNCHANGED stores, NEW r \in Requests,
         \A s \in Requests \ {r} : pc'[s] = pc[s] /\ file'[s] = file[s],
         \/ file'[r] = file[r] /\ pc'[r] \in {pc[r], "failed", "crashed", "unwind"}
         \/ file'[r] = file[r] /\ pc[r] \in Before /\ pc'[r] \in {"rejected", "upload"} \cup Before
         \/ file'[r] = file[r] /\ pc[r] \in Before /\ pc'[r] = "commit" /\ ~file[r]
         \/ pc[r] = "idle" /\ pc'[r] \in Before
         \/ file'[r] = file[r] /\ pc[r] = "release" /\ pc'[r] = "created"
  PROVE  StageInv'
<1>1. StoredOnce'
  BY DEF StageInv, StoredOnce, stores
<1>2. ASSUME NEW s \in Requests, s # r PROVE DoneBy(s)'
  BY <1>2 DEF StageInv, DoneBy, Stored, Broadcast, stores
<1>3. DoneBy(r)'
  BY DEF StageInv, DoneBy, Stored, Broadcast, stores, Before
<1> QED
  BY <1>1, <1>2, <1>3 DEF StageInv

\* A step of call r leaves what other calls have done.
LEMMA OthersDone ==
  ASSUME StageInv, NEW r \in Requests, file' = file,
         \A s \in Requests \ {r} : /\ pc'[s] = pc[s]
                                   /\ Stored(s)' <=> Stored(s)
                                   /\ Broadcast(s)' <=> Broadcast(s)
                                   /\ s \in objects' <=> s \in objects
                                   /\ s \in invalidated' <=> s \in invalidated
                                   /\ s \in queued' <=> s \in queued,
         StoredOnce', DoneBy(r)'
  PROVE  StageInv'
<1> SUFFICES ASSUME NEW s \in Requests \ {r} PROVE DoneBy(s)'
  BY DEF StageInv
<1> QED
  BY DEF StageInv, DoneBy

LEMMA StageNext == TypeOK /\ StageInv /\ [Next]_vars => StageInv'
<1> SUFFICES ASSUME TypeOK, StageInv, [Next]_vars PROVE StageInv'
  OBVIOUS
<1> USE DEF TypeOK
<1>1. ASSUME NEW r \in Requests, NEW u \in Users, NEW b \in Bodies, Submit(r, u, b)
      PROVE StageInv'
  <2>1. UNCHANGED stores /\ pc[r] = "idle" /\ pc'[r] \in Before
    BY <1>1 DEF Submit, At, Goto, Before, CallsTypeOK
  <2>2. \A s \in Requests \ {r} : pc'[s] = pc[s] /\ file'[s] = file[s]
    BY <1>1 DEF Submit, At, Goto, CallsTypeOK
  <2> QED BY <2>1, <2>2, StageKept
<1>2. ASSUME NEW r \in Requests,
             \/ Peek(r) \/ Invalid(r) \/ CheckRate(r) \/ CheckSpam(r) \/ Acquire(r)
             \/ Release(r) \/ Raise(r) \/ Crash(r)
      PROVE StageInv'
  <2>1. UNCHANGED stores /\ file' = file
    BY <1>2 DEF Peek, Invalid, CheckRate, CheckSpam, Acquire, Release, Raise, Crash, input
  <2>2. \A s \in Requests \ {r} : pc'[s] = pc[s]
    BY <1>2 DEF Peek, Invalid, CheckRate, CheckSpam, Acquire, Release, Raise, Crash, Reply,
                Applied, Goto, CallsTypeOK
  <2>3. \/ pc'[r] \in {pc[r], "failed", "crashed", "unwind"}
        \/ pc[r] \in Before /\ pc'[r] \in {"rejected", "upload"} \cup Before
        \/ pc[r] \in Before /\ pc'[r] = "commit" /\ ~file[r]
        \/ pc[r] = "release" /\ pc'[r] = "created"
    BY <1>2 DEF Peek, Invalid, CheckRate, CheckSpam, Acquire, Release, Raise, Crash, Reply,
                Applied, Goto, At, CallsTypeOK, Before
  <2> QED BY <2>1, <2>2, <2>3, StageKept
<1>3. ASSUME NEW r \in Requests, Upload(r) PROVE StageInv'
  <2>1. /\ pc[r] = "upload" /\ pc'[r] \in {"commit", "unwind"} /\ file' = file
        /\ objects' = objects \cup {r}
        /\ UNCHANGED <<rows, published, invalidated, queued>>
        /\ \A s \in Requests \ {r} : pc'[s] = pc[s]
    BY <1>3 DEF Upload, At, Applied, Goto, CallsTypeOK, input
  <2>2. DoneBy(r)' /\ StoredOnce'
    BY <2>1 DEF StageInv, DoneBy, Stored, Broadcast, StoredOnce, Before
  <2> QED BY <2>1, <2>2, OthersDone DEF Stored, Broadcast
<1>4. ASSUME NEW r \in Requests, Commit(r) PROVE StageInv'
  <2>1. /\ pc[r] = "commit" /\ pc'[r] \in {"invalidate", "unwind"} /\ file' = file
        /\ rows' = Append(rows, r)
        /\ UNCHANGED <<objects, published, invalidated, queued>>
        /\ \A s \in Requests \ {r} : pc'[s] = pc[s]
    BY <1>4 DEF Commit, At, Applied, Goto, CallsTypeOK, input
  <2>2. Elements(rows') = Elements(rows) \cup {r}
    BY <2>1, AppendElements DEF StoresTypeOK
  <2>3. ~Stored(r) /\ ~Broadcast(r) /\ (file[r] => r \in objects)
    BY <2>1 DEF StageInv, DoneBy
  <2>4. StoredOnce'
    <3>1. \A i \in 1 .. Len(rows) : rows[i] # r
      BY <2>3 DEF Stored, Elements
    <3>2. /\ Len(rows') = Len(rows) + 1 /\ rows'[Len(rows) + 1] = r
          /\ \A i \in 1 .. Len(rows) : rows'[i] = rows[i]
      BY <2>1 DEF StoresTypeOK
    <3>3. Len(rows) \in Nat
      BY DEF StoresTypeOK
    <3> QED BY <3>1, <3>2, <3>3 DEF StageInv, StoredOnce
  <2>5. DoneBy(r)'
    BY <2>1, <2>2, <2>3 DEF DoneBy, Stored, Broadcast, Before
  <2> QED BY <2>1, <2>2, <2>4, <2>5, OthersDone DEF Stored, Broadcast
<1>5. ASSUME NEW r \in Requests, Invalidate(r) PROVE StageInv'
  <2>1. /\ pc[r] = "invalidate" /\ pc'[r] \in {"invalidate", "publish", "unwind"} /\ file' = file
        /\ invalidated' = invalidated \cup {r}
        /\ UNCHANGED <<objects, published, rows, queued>>
        /\ \A s \in Requests \ {r} : pc'[s] = pc[s]
    BY <1>5 DEF Invalidate, At, Reply, Applied, Goto, CallsTypeOK, input
  <2>2. DoneBy(r)' /\ StoredOnce'
    BY <2>1 DEF StageInv, DoneBy, Stored, Broadcast, StoredOnce, Before
  <2> QED BY <2>1, <2>2, OthersDone DEF Stored, Broadcast
<1>6. ASSUME NEW r \in Requests, Publish(r) PROVE StageInv'
  <2>1. /\ pc[r] = "publish" /\ pc'[r] \in {"publish", "dispatch", "unwind"} /\ file' = file
        /\ published' = Append(published, r)
        /\ UNCHANGED <<objects, rows, invalidated, queued>>
        /\ \A s \in Requests \ {r} : pc'[s] = pc[s]
    BY <1>6 DEF Publish, At, Reply, Applied, Goto, CallsTypeOK, input
  <2>2. Elements(published') = Elements(published) \cup {r}
    BY <2>1, AppendElements DEF StoresTypeOK
  <2>3. DoneBy(r)' /\ StoredOnce'
    BY <2>1, <2>2 DEF StageInv, DoneBy, Stored, Broadcast, StoredOnce, Before
  <2> QED BY <2>1, <2>2, <2>3, OthersDone DEF Stored, Broadcast
<1>7. ASSUME NEW r \in Requests, Dispatch(r) PROVE StageInv'
  <2>1. /\ pc[r] = "dispatch" /\ pc'[r] = "release" /\ file' = file
        /\ queued' \in {queued, queued \cup {r}}
        /\ UNCHANGED <<objects, rows, published, invalidated>>
        /\ \A s \in Requests \ {r} : pc'[s] = pc[s]
    BY <1>7 DEF Dispatch, At, Goto, CallsTypeOK, input
  <2>2. DoneBy(r)' /\ StoredOnce'
    BY <2>1 DEF StageInv, DoneBy, Stored, Broadcast, StoredOnce, Before
  <2> QED BY <2>1, <2>2, OthersDone DEF Stored, Broadcast
<1>8. CASE Tick \/ UNCHANGED vars
  <2>1. UNCHANGED stores /\ pc' = pc /\ file' = file
    BY <1>8 DEF Tick, vars, calls, input
  <2> QED BY <2>1 DEF StageInv, DoneBy, Stored, Broadcast, StoredOnce, stores
<1> QED
  BY <1>1, <1>2, <1>3, <1>4, <1>5, <1>6, <1>7, <1>8 DEF Next, Step

LEMMA StageInit == Init => StageInv
  BY DEF Init, StageInv, StoredOnce, DoneBy, Stored, Broadcast, Elements, Before

\* A call that is answered 201 has stored, invalidated and broadcast its message, and one
\* that is refused has left no row, object, invalidation, broadcast or task.
THEOREM Honest == Spec => []AnswerIsHonest
<1>1. StageInv => AnswerIsHonest
  BY DEF StageInv, DoneBy, Stored, Broadcast, AnswerIsHonest
<1> QED
  BY <1>1, StageInit, StageNext, TypeCorrect, PTL DEF Spec

\* What is broadcast is committed once and its file is in the bucket; the invalidation of
\* the cached pages was completed before.
THEOREM Readable == Spec => []PublishedIsReadable
<1>1. TypeOK /\ StageInv => PublishedIsReadable
  <2> SUFFICES ASSUME TypeOK, StageInv, NEW r \in Elements(published) PROVE Complete(r)
    BY DEF PublishedIsReadable
  <2>1. r \in Requests /\ Broadcast(r)
    BY DEF Broadcast, Elements, TypeOK, StoresTypeOK
  <2>2. Stored(r) /\ r \in invalidated /\ (file[r] => r \in objects)
    BY <2>1 DEF StageInv, DoneBy
  <2>3. PICK i \in 1 .. Len(rows) : rows[i] = r
    BY <2>2 DEF Stored, Elements
  <2>4. \A j \in 1 .. Len(rows) : rows[j] = r <=> i = j
    BY <2>3 DEF StageInv, StoredOnce
  <2> QED BY <2>2, <2>4 DEF Complete
<1> QED
  BY <1>1, StageInit, StageNext, TypeCorrect, PTL DEF Spec

------------------------------------------------------------------------------
(* What faults cost *)

\* A call that sends its publication again has published already.
Resending == {r \in Requests : pc[r] = "publish" /\ Broadcast(r)}

\* It is charged for the copy to come, as are the lost calls for their answers.
Charged == Lost \cup Resending

Bill == /\ IsFiniteSet(Charged)
        /\ Cardinality(Charged) + Cardinality(Copies(published)) <= faults

\* What is not invalidated yet was not published.
PaidInv == Bill /\ \A r \in Requests : pc[r] = "invalidate" => ~Broadcast(r)

\* The copies in a sequence are finitely many.
LEMMA CopiesFinite ==
  ASSUME NEW S, NEW s \in Seq(S)
  PROVE  IsFiniteSet(Copies(s)) /\ Cardinality(Copies(s)) \in Nat
<1>1. IsFiniteSet(1 .. Len(s))
  BY FS_Interval
<1>2. IsFiniteSet(Copies(s))
  BY <1>1, FS_Subset DEF Copies
<1> QED
  BY <1>2, FS_CardinalityType

\* Appending what is there adds one copy, and what is not adds none.
LEMMA CopiesOfAppend ==
  ASSUME NEW S, NEW s \in Seq(S), NEW x \in S
  PROVE  Cardinality(Copies(Append(s, x))) =
           IF x \in Elements(s) THEN Cardinality(Copies(s)) + 1 ELSE Cardinality(Copies(s))
<1> DEFINE t == Append(s, x)
           n == Len(s) + 1
<1>1. /\ Len(t) = n /\ n \in Nat /\ t[n] = x
      /\ \A i \in 1 .. Len(s) : t[i] = s[i]
  OBVIOUS
<1>2. \A j \in 1 .. Len(s) : j \in Copies(t) <=> j \in Copies(s)
  BY <1>1 DEF Copies
<1>3. n \in Copies(t) <=> x \in Elements(s)
  <2>1. n \in Copies(t) <=> \E i \in 1 .. n - 1 : t[i] = x
    BY <1>1 DEF Copies
  <2>2. 1 .. n - 1 = 1 .. Len(s)
    OBVIOUS
  <2> QED BY <1>1, <2>1, <2>2 DEF Elements
<1>4. Copies(t) \subseteq 1 .. n /\ Copies(s) \subseteq 1 .. Len(s)
  BY <1>1 DEF Copies
<1>5. Copies(t) = IF x \in Elements(s) THEN Copies(s) \cup {n} ELSE Copies(s)
  <2>1. 1 .. n = (1 .. Len(s)) \cup {n}
    OBVIOUS
  <2>2. \A j : j \in Copies(t) => j \in 1 .. Len(s) \/ j = n
    BY <1>4, <2>1
  <2>3. \A j : j \in Copies(s) => j \in 1 .. Len(s)
    BY <1>4
  <2>4. CASE x \in Elements(s)
    <3>1. Copies(t) = Copies(s) \cup {n}
      BY ONLY <1>2, <1>3, <2>2, <2>3, <2>4
    <3> QED BY <2>4, <3>1
  <2>5. CASE x \notin Elements(s)
    <3>1. Copies(t) = Copies(s)
      BY ONLY <1>2, <1>3, <2>2, <2>3, <2>5
    <3> QED BY <2>5, <3>1
  <2> QED BY <2>4, <2>5
<1>6. n \notin Copies(s)
  BY <1>4
<1> QED
  BY <1>5, <1>6, CopiesFinite, FS_AddElement

\* Charging one call adds one to the bill at most, crediting one takes it off.
LEMMA Charge ==
  ASSUME NEW S, IsFiniteSet(S), NEW x
  PROVE  /\ IsFiniteSet(S \cup {x}) /\ IsFiniteSet(S \ {x})
         /\ Cardinality(S \cup {x}) \in Nat /\ Cardinality(S) \in Nat
         /\ Cardinality(S \ {x}) \in Nat
         /\ Cardinality(S \cup {x}) <= Cardinality(S) + 1
         /\ x \notin S => Cardinality(S \cup {x}) = Cardinality(S) + 1
         /\ x \in S => Cardinality(S \ {x}) = Cardinality(S) - 1
         /\ x \notin S => Cardinality(S \ {x}) = Cardinality(S)
  BY FS_AddElement, FS_RemoveElement, FS_CardinalityType

\* A step that publishes nothing is paid for if it charges nobody, or one call
\* for a fault.
LEMMA BillKept ==
  ASSUME TypeOK, TypeOK', Bill, published' = published, NEW r \in Requests,
         Charged' \subseteq Charged \cup {r}, faults' >= faults,
         faults' = faults => Charged' \subseteq Charged
  PROVE  Bill'
<1> DEFINE c == Cardinality(Charged)
           p == Cardinality(Copies(published))
<1>1. p \in Nat /\ Cardinality(Copies(published))' = p
  BY CopiesFinite DEF TypeOK, StoresTypeOK
<1>2. faults \in Nat /\ faults' \in Nat
  BY TtlAssumption DEF TypeOK, CallsTypeOK
<1>3. IsFiniteSet(Charged) /\ c \in Nat /\ c + p <= faults
  BY FS_CardinalityType DEF Bill
<1>4. CASE faults' = faults
  <2>1. IsFiniteSet(Charged') /\ Cardinality(Charged') <= c
    BY <1>3, <1>4, FS_Subset
  <2>2. Cardinality(Charged') \in Nat
    BY <2>1, FS_CardinalityType
  <2> QED BY <1>1, <1>2, <1>3, <1>4, <2>1, <2>2 DEF Bill
<1>5. CASE faults' # faults
  <2>1. /\ IsFiniteSet(Charged \cup {r}) /\ Cardinality(Charged \cup {r}) \in Nat
        /\ Cardinality(Charged \cup {r}) <= c + 1
    BY <1>3, Charge
  <2>2. IsFiniteSet(Charged') /\ Cardinality(Charged') <= Cardinality(Charged \cup {r})
    BY <2>1, FS_Subset
  <2>3. Cardinality(Charged') \in Nat
    BY <2>2, FS_CardinalityType
  <2>4. faults' >= faults + 1
    BY <1>2, <1>5
  <2> QED BY <1>1, <1>2, <1>3, <2>1, <2>2, <2>3, <2>4 DEF Bill
<1> QED
  BY <1>4, <1>5

\* A publication is new, or a copy that its call was charged for.
LEMMA BillOfPublish ==
  ASSUME TypeOK, TypeOK', Bill, NEW r \in Requests, Publish(r)
  PROVE  Bill'
<1> DEFINE c == Cardinality(Charged)
           p == Cardinality(Copies(published))
           q == Cardinality(Copies(published'))
<1>1. /\ published \in Seq(Requests) /\ published' = Append(published, r)
      /\ pc[r] = "publish" /\ \A s \in Requests \ {r} : pc'[s] = pc[s]
      /\ \/ pc'[r] = "dispatch" /\ faults' = faults
         \/ pc'[r] \in {"unwind", "publish"} /\ faults' = faults + 1
  BY DEF TypeOK, CallsTypeOK, StoresTypeOK, Publish, At, Reply, Applied, Goto, Fault
<1>2. faults \in Nat /\ p \in Nat /\ q \in Nat
  BY TtlAssumption, CopiesFinite DEF TypeOK, CallsTypeOK, StoresTypeOK
<1>3. q = IF Broadcast(r) THEN p + 1 ELSE p
  BY <1>1, CopiesOfAppend DEF Broadcast
<1>4. IsFiniteSet(Charged) /\ c \in Nat /\ c + p <= faults
  BY FS_CardinalityType DEF Bill
<1>5. r \in Charged <=> Broadcast(r)
  BY <1>1 DEF Charged, Lost, Resending
<1>6. Elements(published') = Elements(published) \cup {r}
  BY <1>1, AppendElements
<1>7. CASE pc'[r] = "dispatch" /\ faults' = faults
  <2>1. Charged' = Charged \ {r}
    BY <1>1, <1>6, <1>7 DEF Charged, Lost, Resending, Broadcast
  <2>2. /\ IsFiniteSet(Charged') /\ Cardinality(Charged') \in Nat
        /\ Cardinality(Charged') = IF Broadcast(r) THEN c - 1 ELSE c
    BY <1>4, <1>5, <2>1, Charge
  <2> QED BY <1>2, <1>3, <1>4, <1>7, <2>2 DEF Bill
<1>8. CASE pc'[r] \in {"unwind", "publish"} /\ faults' = faults + 1
  <2>1. Charged' = Charged \cup {r}
    BY <1>1, <1>6, <1>8 DEF Charged, Lost, Resending, Broadcast
  <2>2. /\ IsFiniteSet(Charged') /\ Cardinality(Charged') \in Nat
        /\ Cardinality(Charged') <= IF Broadcast(r) THEN c ELSE c + 1
    <3>1. Broadcast(r) => Charged' = Charged
      BY <1>5, <2>1
    <3> QED BY <1>4, <2>1, <3>1, Charge
  <2> QED BY <1>2, <1>3, <1>4, <1>8, <2>2 DEF Bill
<1> QED
  BY <1>1, <1>7, <1>8

LEMMA PaidNext ==
  TypeOK /\ TypeOK' /\ StageInv /\ PaidInv /\ [Next]_vars => PaidInv'
<1> SUFFICES ASSUME TypeOK, TypeOK', StageInv, PaidInv, [Next]_vars PROVE PaidInv'
  OBVIOUS
<1>0. Bill /\ \A s \in Requests : pc[s] = "invalidate" => ~Broadcast(s)
  BY DEF PaidInv
<1>1. ASSUME NEW r \in Requests,
             \/ \E u \in Users, b \in Bodies : Submit(r, u, b)
             \/ Peek(r) \/ Invalid(r) \/ CheckRate(r) \/ CheckSpam(r) \/ Acquire(r)
             \/ Upload(r) \/ Commit(r) \/ Invalidate(r) \/ Dispatch(r)
             \/ Release(r) \/ Raise(r) \/ Crash(r)
      PROVE PaidInv'
  <2>1. /\ published' = published
        /\ \A s \in Requests \ {r} : pc'[s] = pc[s]
    BY <1>1 DEF TypeOK, CallsTypeOK, Submit, Peek, Invalid, CheckRate, CheckSpam, Acquire,
                Upload, Commit, Invalidate, Dispatch, Release, Raise, Crash, Reply, Applied,
                Goto, stores
  <2>2. faults' = faults \/ faults' = faults + 1
    BY <1>1 DEF Submit, Peek, Invalid, CheckRate, CheckSpam, Acquire,
                Upload, Commit, Invalidate, Dispatch, Release, Raise, Crash, Reply, Applied,
                Goto, Fault
  <2>3. /\ faults' = faults /\ pc'[r] \in {"unwind", "failed", "crashed"} => pc[r] = "unwind"
        /\ pc'[r] = "publish" => pc[r] \in {"invalidate", "publish"}
        /\ faults' = faults /\ pc'[r] = "publish" => pc[r] = "invalidate"
        /\ pc'[r] = "invalidate" => pc[r] \in {"invalidate", "commit"}
    BY <1>1, TtlAssumption
       DEF TypeOK, CallsTypeOK, At, Submit, Peek, Invalid, CheckRate, CheckSpam, Acquire,
           Upload, Commit, Invalidate, Dispatch, Release, Raise, Crash, Reply, Applied,
           Goto, Fault, Within, Before, Finally
  <2>4. \A s \in Requests : Broadcast(s)' <=> Broadcast(s)
    BY <2>1 DEF Broadcast
  <2>5. Charged' \subseteq Charged \cup {r}
    BY <2>1, <2>4 DEF Charged, Lost, Resending
  <2>6. faults' = faults => Charged' \subseteq Charged
    BY <1>0, <2>1, <2>3, <2>4 DEF Charged, Lost, Resending
  <2>7. Bill'
    BY <1>0, <2>1, <2>2, <2>5, <2>6, BillKept, TtlAssumption DEF TypeOK, CallsTypeOK
  <2>8. pc[r] = "commit" => ~Broadcast(r)
    BY DEF StageInv, DoneBy
  <2>9. \A s \in Requests : pc'[s] = "invalidate" => ~Broadcast(s)'
    BY <1>0, <2>1, <2>3, <2>4, <2>8
  <2> QED BY <2>7, <2>9 DEF PaidInv
<1>2. ASSUME NEW r \in Requests, Publish(r) PROVE PaidInv'
  <2>1. /\ published' = Append(published, r) /\ published \in Seq(Requests)
        /\ pc'[r] # "invalidate" /\ \A s \in Requests \ {r} : pc'[s] = pc[s]
    BY <1>2 DEF TypeOK, CallsTypeOK, StoresTypeOK, Publish, At, Reply, Applied, Goto
  <2>2. Elements(published') = Elements(published) \cup {r}
    BY <2>1, AppendElements
  <2>3. \A s \in Requests : pc'[s] = "invalidate" => ~Broadcast(s)'
    BY <1>0, <2>1, <2>2 DEF Broadcast
  <2> QED BY <1>0, <1>2, <2>3, BillOfPublish DEF PaidInv
<1>3. CASE Tick \/ UNCHANGED vars
  <2>1. UNCHANGED <<pc, faults, published>>
    BY <1>3 DEF Tick, vars, calls, stores
  <2>2. Charged' = Charged
    BY <2>1 DEF Charged, Lost, Resending, Broadcast
  <2> QED BY <2>1, <2>2 DEF PaidInv, Bill, Broadcast
<1> QED
  BY <1>1, <1>2, <1>3 DEF Next, Step

\* A file without a row is that of a call that is about to commit, or is lost.
LEMMA LeftBehindIsLost == TypeOK /\ StageInv => LeftBehind \subseteq Lost
<1> SUFFICES ASSUME TypeOK, StageInv, NEW r \in LeftBehind PROVE r \in Lost
  OBVIOUS
<1>1. r \in Requests /\ r \in objects /\ ~Stored(r) /\ pc[r] # "commit"
  BY DEF LeftBehind, Stored, TypeOK, StoresTypeOK
<1>2. /\ pc[r] \notin {"idle", "rejected", "upload"} \cup Before
      /\ pc[r] \notin {"invalidate", "publish", "dispatch", "release", "created"}
  BY <1>1 DEF StageInv, DoneBy
<1> QED
  BY <1>1, <1>2 DEF Lost, TypeOK, CallsTypeOK, Steps, Within, Finally, Answered

\* The bill is paid before any call is made.
LEMMA PaidInit == Init => PaidInv
<1> SUFFICES ASSUME Init PROVE PaidInv
  OBVIOUS
<1>1. Charged = {} /\ Copies(published) = {}
  BY DEF Init, Charged, Lost, Resending, Broadcast, Elements, Copies
<1>2. IsFiniteSet(Charged) /\ Cardinality(Charged) = 0 /\ Cardinality(Copies(published)) = 0
  BY <1>1, FS_EmptySet
<1>3. faults = 0 /\ \A r \in Requests : pc[r] = "idle"
  BY DEF Init
<1> QED BY <1>2, <1>3 DEF PaidInv, Bill

\* A fault costs no more than one answer, with a file left behind, or one copy too many.
THEOREM Paid == Spec => []FailuresArePaid
<1>1. TypeOK /\ StageInv /\ PaidInv => FailuresArePaid
  <2> SUFFICES ASSUME TypeOK, StageInv, PaidInv PROVE FailuresArePaid
    OBVIOUS
  <2>1. Lost \cup LeftBehind \subseteq Charged
    BY LeftBehindIsLost DEF Charged
  <2>2. /\ Cardinality(Lost \cup LeftBehind) <= Cardinality(Charged)
        /\ Cardinality(Lost \cup LeftBehind) \in Nat
        /\ Cardinality(Charged) \in Nat
    BY <2>1, FS_Subset, FS_CardinalityType DEF PaidInv, Bill
  <2>3. Cardinality(Copies(published)) \in Nat /\ faults \in Nat
    BY CopiesFinite, TtlAssumption DEF TypeOK, StoresTypeOK, CallsTypeOK
  <2> QED BY <2>2, <2>3 DEF PaidInv, Bill, FailuresArePaid
<1> QED
  BY <1>1, PaidInit, StageInit, StageNext, PaidNext, TypeCorrect, PTL DEF Spec

\* In particular there are no more copies than faults.
Bought == Cardinality(Copies(published)) <= faults

LEMMA CopiesPaid == Spec => []Bought
<1>1. TypeOK /\ PaidInv => Bought
  <2> SUFFICES ASSUME TypeOK, PaidInv PROVE Bought
    OBVIOUS
  <2>1. Cardinality(Charged) \in Nat
    BY FS_CardinalityType DEF PaidInv, Bill
  <2>2. Cardinality(Copies(published)) \in Nat /\ faults \in Nat
    BY CopiesFinite, TtlAssumption DEF TypeOK, StoresTypeOK, CallsTypeOK
  <2> QED BY <2>1, <2>2 DEF PaidInv, Bill, Bought
<1> QED
  BY <1>1, PaidInit, StageInit, StageNext, PaidNext, TypeCorrect, PTL DEF Spec

------------------------------------------------------------------------------
(* The order of a user's messages *)

\* When a later message of the same user is stored, the call of the earlier one has left
\* the block; with leases that held.
SerialInv ==
  \A i, j \in 1 .. Len(rows) :
    i < j /\ who[rows[i]] = who[rows[j]] /\ {rows[i], rows[j]} \cap overran = {}
      => ~Inside(rows[i])

\* Calls that have stored something do not enter the block again, change their user, or
\* take back that they outlived a lease.
LEMMA StoredStays ==
  ASSUME TypeOK, StageInv, [Next]_vars, NEW r \in Requests, Stored(r)
  PROVE  (pc'[r] \in Within => Inside(r)) /\ who'[r] = who[r]
<1> USE DEF TypeOK
<1>1. pc[r] \notin {"idle"} \cup Before
  BY DEF StageInv, DoneBy
<1>2. ASSUME NEW s \in Requests, NEW u \in Users, NEW b \in Bodies, Submit(s, u, b)
      PROVE  (pc'[r] \in Within => Inside(r)) /\ who'[r] = who[r]
  BY <1>1, <1>2 DEF Submit, At, Goto, Inside, CallsTypeOK
<1>3. ASSUME NEW s \in Requests, Invalid(s) \/ Step(s) \/ Raise(s) \/ Crash(s)
      PROVE  (pc'[r] \in Within => Inside(r)) /\ who'[r] = who[r]
  <2>1. who' = who
    BY <1>3 DEF Invalid, Step, Peek, CheckRate, CheckSpam, Acquire, Upload, Commit, Invalidate,
                Publish, Dispatch, Release, Raise, Crash, input
  <2>2. CASE s # r
    <3>1. pc'[r] = pc[r]
      BY <1>3, <2>2 DEF Invalid, Step, Peek, CheckRate, CheckSpam, Acquire, Upload, Commit,
                  Invalidate, Publish, Dispatch, Release, Raise, Crash, Reply, Applied, Goto,
                  CallsTypeOK
    <3> QED BY <2>1, <3>1 DEF Inside
  <2>3. CASE s = r
    <3>1. Inside(r) \/ pc'[r] \notin Within
      BY <1>1, <1>3, <2>3 DEF Invalid, Step, Peek, CheckRate, CheckSpam, Acquire, Upload, Commit,
                  Invalidate, Publish, Dispatch, Release, Raise, Crash, Reply, Applied, Goto,
                  At, Inside, Before, Within, Finally, Active, CallsTypeOK
    <3> QED BY <2>1, <3>1 DEF Inside
  <2> QED BY <2>2, <2>3
<1>4. CASE Tick \/ UNCHANGED vars
  BY <1>4 DEF Tick, vars, calls, input, Inside
<1> QED
  BY <1>2, <1>3, <1>4 DEF Next

\* overran only grows.
LEMMA OverranGrows == [Next]_vars => overran \subseteq overran'
  BY DEF Next, Step, Submit, Peek, Invalid, CheckRate, CheckSpam, Acquire, Upload, Commit,
         Invalidate, Publish, Dispatch, Release, Raise, Crash, Tick, vars, history

LEMMA SerialNext ==
  TypeOK /\ LeaseExclusion /\ StageInv /\ SerialInv /\ [Next]_vars => SerialInv'
<1> SUFFICES ASSUME TypeOK, LeaseExclusion, StageInv, SerialInv, [Next]_vars PROVE SerialInv'
  OBVIOUS
<1>1. rows \in Seq(Requests) /\ overran \subseteq overran'
  BY OverranGrows DEF TypeOK, StoresTypeOK
<1>2. \A i \in 1 .. Len(rows) :
        /\ rows[i] \in Requests /\ (pc'[rows[i]] \in Within => Inside(rows[i]))
        /\ who'[rows[i]] = who[rows[i]]
  <2> SUFFICES ASSUME NEW i \in 1 .. Len(rows)
               PROVE  /\ rows[i] \in Requests /\ (pc'[rows[i]] \in Within => Inside(rows[i]))
                      /\ who'[rows[i]] = who[rows[i]]
    OBVIOUS
  <2>1. rows[i] \in Requests /\ Stored(rows[i])
    BY <1>1 DEF Stored, Elements
  <2> QED BY <2>1, StoredStays
<1>3. CASE rows' = rows
  BY <1>1, <1>2, <1>3 DEF SerialInv, Inside
<1>4. ASSUME NEW s \in Requests, Commit(s) PROVE SerialInv'
  <2>1. /\ Inside(s) /\ ~Stored(s) /\ rows' = Append(rows, s) /\ who' = who
    BY <1>4 DEF Commit, At, Inside, Within, input, StageInv, DoneBy
  <2>2. /\ Len(rows') = Len(rows) + 1 /\ rows'[Len(rows) + 1] = s /\ Len(rows) \in Nat
        /\ \A i \in 1 .. Len(rows) : rows'[i] = rows[i]
    BY <1>1, <2>1
  <2>3. ASSUME NEW i \in 1 .. Len(rows), who[rows[i]] = who[s],
               rows[i] \notin overran, s \notin overran
        PROVE  ~Inside(rows[i])
    <3>1. rows[i] # s /\ rows[i] \in Requests
      BY <1>1, <2>1 DEF Stored, Elements
    <3> QED BY <2>1, <2>3, <3>1 DEF LeaseExclusion
  <2> SUFFICES ASSUME NEW i \in 1 .. Len(rows'), NEW j \in 1 .. Len(rows'), i < j,
                      who'[rows'[i]] = who'[rows'[j]],
                      {rows'[i], rows'[j]} \cap overran' = {}
               PROVE  pc'[rows'[i]] \notin Within
    BY DEF SerialInv, Inside
  <2>4. i \in 1 .. Len(rows) /\ rows'[i] = rows[i]
    BY <2>2
  <2>5. CASE j \in 1 .. Len(rows)
    BY <1>1, <1>2, <2>1, <2>2, <2>4, <2>5 DEF SerialInv, Inside
  <2>6. CASE j = Len(rows) + 1
    BY <1>1, <1>2, <2>1, <2>2, <2>3, <2>4, <2>6 DEF Inside
  <2> QED BY <2>2, <2>5, <2>6
<1> QED
  <2>1. \/ rows' = rows
        \/ \E s \in Requests : Commit(s)
    BY DEF Next, Step, Submit, Peek, Invalid, CheckRate, CheckSpam, Acquire, Upload,
           Invalidate, Publish, Dispatch, Release, Raise, Crash, Tick, vars, stores
  <2> QED BY <1>3, <1>4, <2>1

LEMMA OrderNext ==
  TypeOK /\ StageInv /\ SerialInv /\ SerializedPerUser /\ [Next]_vars => SerializedPerUser'
<1> SUFFICES ASSUME TypeOK, StageInv, SerialInv, SerializedPerUser, [Next]_vars,
                    NEW i \in 1 .. Len(rows'), NEW j \in 1 .. Len(rows'),
                    NEW k \in 1 .. Len(published'), NEW l \in 1 .. Len(published'),
                    i < j, who'[rows'[i]] = who'[rows'[j]],
                    {rows'[i], rows'[j]} \cap overran' = {},
                    published'[k] = rows'[i], published'[l] = rows'[j]
             PROVE  k < l
  BY DEF SerializedPerUser
<1>1. /\ rows \in Seq(Requests) /\ published \in Seq(Requests) /\ overran \subseteq overran'
  BY OverranGrows DEF TypeOK, StoresTypeOK
<1>2. \A n \in 1 .. Len(rows) : who'[rows[n]] = who[rows[n]]
  <2> SUFFICES ASSUME NEW n \in 1 .. Len(rows) PROVE who'[rows[n]] = who[rows[n]]
    OBVIOUS
  <2>1. rows[n] \in Requests /\ Stored(rows[n])
    BY <1>1 DEF Stored, Elements
  <2> QED BY <2>1, StoredStays
<1>3. CASE rows' = rows /\ published' = published
  BY <1>1, <1>2, <1>3 DEF SerializedPerUser
<1>4. ASSUME NEW s \in Requests, Commit(s) PROVE k < l
  <2>1. /\ ~Stored(s) /\ ~Broadcast(s) /\ rows' = Append(rows, s) /\ published' = published
    BY <1>4 DEF Commit, At, StageInv, DoneBy
  <2>2. /\ Len(rows') = Len(rows) + 1 /\ rows'[Len(rows) + 1] = s /\ Len(rows) \in Nat
        /\ \A n \in 1 .. Len(rows) : rows'[n] = rows[n]
    BY <1>1, <2>1
  <2>3. rows'[j] # s
    BY <2>1 DEF Broadcast, Elements
  <2>4. i \in 1 .. Len(rows) /\ j \in 1 .. Len(rows)
    BY <2>2, <2>3
  <2> QED BY <1>1, <1>2, <2>1, <2>2, <2>4 DEF SerializedPerUser
<1>5. ASSUME NEW s \in Requests, Publish(s) PROVE k < l
  <2>1. /\ Inside(s) /\ rows' = rows /\ published' = Append(published, s)
    BY <1>5 DEF Publish, At, Inside, Within
  <2>2. /\ Len(published') = Len(published) + 1 /\ published'[Len(published) + 1] = s
        /\ Len(published) \in Nat
        /\ \A n \in 1 .. Len(published) : published'[n] = published[n]
    BY <1>1, <2>1
  <2>3. who[rows[i]] = who[rows[j]] /\ {rows[i], rows[j]} \cap overran = {}
    BY <1>1, <1>2, <2>1
  <2>4. rows[i] # s
    BY <2>1, <2>3 DEF SerialInv
  <2>5. k \in 1 .. Len(published) /\ published[k] = rows[i]
    BY <2>1, <2>2, <2>4
  <2>6. CASE l \in 1 .. Len(published)
    BY <2>1, <2>2, <2>3, <2>5, <2>6 DEF SerializedPerUser
  <2>7. CASE l = Len(published) + 1
    BY <2>2, <2>5, <2>7
  <2> QED BY <2>2, <2>6, <2>7
<1> QED
  <2>1. \/ rows' = rows /\ published' = published
        \/ \E s \in Requests : Commit(s) \/ Publish(s)
    BY DEF Next, Step, Submit, Peek, Invalid, CheckRate, CheckSpam, Acquire, Upload,
           Invalidate, Dispatch, Release, Raise, Crash, Tick, vars, stores
  <2> QED BY <1>3, <1>4, <1>5, <2>1

\* A user's messages reach the subscribers in the order in which they are stored, as far as
\* leases hold.
THEOREM Serialized == Spec => []SerializedPerUser
<1>1. Init => LeaseExclusion /\ SerialInv /\ SerializedPerUser
  BY DEF Init, LeaseExclusion, SerialInv, SerializedPerUser, Inside, Within
<1> QED
  BY <1>1, StageInit, StageNext, LeaseNext, SerialNext, OrderNext, TypeCorrect, PTL DEF Spec

------------------------------------------------------------------------------
(* The send lock implements the abstract lease lock. *)

\* The phases of a lock token, without the overlaps of Phase's CASE.
PhaseOf(r) ==
  /\ Phase(r) = "new" <=> pc[r] = "idle"
  /\ Phase(r) = "held" <=> pc[r] # "idle" /\ lock[who[r]] = r
  /\ Phase(r) = "waiting" <=> pc[r] \in Before /\ lock[who[r]] # r
  /\ Phase(r) = "lost" <=> Inside(r) /\ lock[who[r]] # r
  /\ Phase(r) = "done" <=> pc[r] \in Finally \cup Answered /\ lock[who[r]] # r
  /\ Phase(r) \in {"new", "waiting", "held", "lost", "done"}

PhaseTable == \A r \in Requests : PhaseOf(r)

\* In every reachable state the phase of a token is the one its call's step and
\* the lock determine.
LEMMA PhaseFacts == TypeOK /\ HolderInv => PhaseTable
<1> SUFFICES ASSUME TypeOK, HolderInv, NEW r \in Requests
             PROVE  PhaseOf(r)
  BY DEF PhaseTable
<1>1. CASE pc[r] = "idle"
  <2>1. who[r] # None => lock[who[r]] # r
    BY <1>1, NoneAssumption DEF TypeOK, CallsTypeOK, HolderInv, Within, Finally
  <2> QED BY <1>1, <2>1 DEF PhaseOf, Phase, Inside, Before, Within, Finally, Answered
<1>2. CASE pc[r] # "idle"
  <2>1. who[r] # None /\ pc[r] \in Before \cup Within \cup Finally \cup Answered
    BY <1>2, NoneAssumption DEF TypeOK, CallsTypeOK, Steps
  <2> QED BY <1>2, <2>1 DEF PhaseOf, Phase, Inside, Before, Within, Finally, Answered
<1> QED BY <1>1, <1>2

\* A step of call r leaves the other calls alone, and the locks they hold.
Alone(r) ==
  \A s \in Requests : s # r =>
    /\ pc'[s] = pc[s] /\ who'[s] = who[s]
    /\ (lock'[who[s]] = s <=> lock[who[s]] = s)

\* So it changes the phase of one token, and these are the changes that are
\* steps of the lease lock.
LEMMA OneToken ==
  ASSUME PhaseTable, PhaseTable', NEW r \in Requests, Alone(r), who' = who,
         who[r] \in Users,
         \/ Phase(r)' = Phase(r)
         \/ Phase(r) = "waiting" /\ Phase(r)' = "done"
         \/ Phase(r) = "held" /\ Phase(r)' = "done"
         \/ Phase(r) = "lost" /\ Phase(r)' = "done"
         \/ Phase(r) = "waiting" /\ Phase(r)' = "held" /\ lock[who[r]] = None
  PROVE  [SendLock!Next]_(SendLock!vars)
<1> DEFINE phase == [s \in Requests |-> Phase(s)]
<1>1. ASSUME NEW s \in Requests, s # r PROVE Phase(s)' = Phase(s)
  <2>1. /\ pc'[s] = pc[s] /\ (lock'[who'[s]] = s <=> lock[who[s]] = s)
        /\ Inside(s)' <=> Inside(s)
    BY <1>1 DEF Alone, Inside
  <2>2. /\ Phase(s) \in {"new", "waiting", "held", "lost", "done"}
        /\ Phase(s)' \in {"new", "waiting", "held", "lost", "done"}
    BY DEF PhaseTable, PhaseOf
  <2>3. /\ Phase(s)' = "new" <=> Phase(s) = "new"
        /\ Phase(s)' = "held" <=> Phase(s) = "held"
        /\ Phase(s)' = "waiting" <=> Phase(s) = "waiting"
        /\ Phase(s)' = "lost" <=> Phase(s) = "lost"
    BY <2>1 DEF PhaseTable, PhaseOf
  <2> QED BY <2>2, <2>3
<1>2. phase' = [phase EXCEPT ![r] = Phase(r)']
  BY <1>1
<1>3. CASE Phase(r)' = Phase(r)
  BY <1>2, <1>3 DEF SendLock!vars
<1>4. CASE Phase(r) = "waiting" /\ Phase(r)' = "done"
  <2>1. SendLock!GiveUp(r)
    BY <1>2, <1>4 DEF SendLock!GiveUp
  <2> QED BY <2>1 DEF SendLock!Next
<1>5. CASE Phase(r) = "held" /\ Phase(r)' = "done"
  <2>1. SendLock!Release(r)
    BY <1>2, <1>5 DEF SendLock!Release, SendLock!Move
  <2> QED BY <2>1 DEF SendLock!Next
<1>6. CASE Phase(r) = "lost" /\ Phase(r)' = "done"
  <2>1. SendLock!Leave(r)
    BY <1>2, <1>6 DEF SendLock!Leave, SendLock!Move
  <2> QED BY <2>1 DEF SendLock!Next
<1>7. CASE Phase(r) = "waiting" /\ Phase(r)' = "held" /\ lock[who[r]] = None
  <2>1. \A s \in Requests : ~(Phase(s) = "held" /\ who[s] = who[r])
    BY <1>7, NoneAssumption DEF PhaseTable, PhaseOf
  <2>2. SendLock!Acquire(r)
    BY <1>2, <1>7, <2>1 DEF SendLock!Acquire, SendLock!Held, SendLock!Move
  <2> QED BY <2>2 DEF SendLock!Next
<1> QED
  BY <1>3, <1>4, <1>5, <1>6, <1>7

\* Every step of create_message is a step of the lease lock, or leaves it alone.
LEMMA Refine ==
  TypeOK /\ TypeOK' /\ HolderInv /\ HolderInv' /\ [Next]_vars => [SendLock!Next]_(SendLock!vars)
<1> SUFFICES ASSUME TypeOK, TypeOK', HolderInv, HolderInv', [Next]_vars
             PROVE [SendLock!Next]_(SendLock!vars)
  OBVIOUS
<1> DEFINE phase == [r \in Requests |-> Phase(r)]
<1> USE NoneAssumption DEF TypeOK
<1>0. PhaseTable /\ PhaseTable'
  BY PhaseFacts, PTL
<1>1. ASSUME NEW r \in Requests, NEW u \in Users, NEW b \in Bodies, Submit(r, u, b)
      PROVE [SendLock!Next]_(SendLock!vars)
  <2>1. /\ pc[r] = "idle" /\ pc'[r] \in Before /\ who' = [who EXCEPT ![r] = u]
        /\ lock' = lock /\ \A s \in Requests : s # r => pc'[s] = pc[s]
    BY <1>1 DEF Submit, At, Goto, Before, CallsTypeOK, redis
  <2>2. \A s \in Requests : s # r => Phase(s)' = Phase(s)
    BY <1>0, <2>1 DEF PhaseTable, PhaseOf, Inside, CallsTypeOK
  <2>3. lock'[who'[r]] # r
    BY <2>1 DEF HolderInv, Within, Finally, CallsTypeOK
  <2>4. Phase(r) = "new" /\ Phase(r)' = "waiting"
    BY <1>0, <2>1, <2>3 DEF PhaseTable, PhaseOf
  <2>5. phase' = [phase EXCEPT ![r] = "waiting"]
    BY <2>2, <2>4
  <2>6. SendLock!Ask(r, u)
    BY <2>1, <2>4, <2>5 DEF SendLock!Ask, SendLock!Move
  <2> QED BY <2>6 DEF SendLock!Next
<1>2. ASSUME NEW r \in Requests,
             Peek(r) \/ Invalid(r) \/ CheckRate(r) \/ CheckSpam(r)
      PROVE [SendLock!Next]_(SendLock!vars)
  <2>1. /\ pc[r] \in {"peek", "rate", "spam"} /\ who' = who /\ lock' = lock
    BY <1>2 DEF Peek, Invalid, CheckRate, CheckSpam, At, input, redis
  <2>2. pc'[r] \in Before \cup Answered /\ \A s \in Requests : s # r => pc'[s] = pc[s]
    BY <1>2 DEF Peek, Invalid, CheckRate, CheckSpam, At, Reply, Applied, Goto, Before,
                Answered, CallsTypeOK
  <2>3. who[r] \in Users /\ lock[who[r]] # r
    BY <2>1 DEF HolderInv, Within, Finally, CallsTypeOK
  <2>4. Phase(r) = "waiting" /\ Phase(r)' \in {"waiting", "done"}
    BY <1>0, <2>1, <2>2, <2>3 DEF PhaseTable, PhaseOf, Before
  <2> QED BY <1>0, <2>1, <2>2, <2>3, <2>4, OneToken DEF Alone
<1>3. ASSUME NEW r \in Requests, Acquire(r) PROVE [SendLock!Next]_(SendLock!vars)
  <2>1. /\ pc[r] = "acquire" /\ who' = who /\ who[r] \in Users
        /\ \A s \in Requests : s # r => pc'[s] = pc[s]
        /\ pc'[r] # "idle"
    BY <1>3 DEF Acquire, At, Reply, Applied, Goto, input, CallsTypeOK
  <2>2. CASE lock[who[r]] = None
    <3>1. lock' = [lock EXCEPT ![who[r]] = r]
      BY <1>3, <2>2 DEF Acquire
    <3>2. lock'[who[r]] = r /\ lock[who[r]] # r
      BY <2>1, <2>2, <3>1 DEF RedisTypeOK
    <3>3. Phase(r) = "waiting" /\ Phase(r)' = "held"
      BY <1>0, <2>1, <3>2 DEF PhaseTable, PhaseOf, Before
    <3>4. Alone(r)
      BY <2>1, <2>2, <3>1 DEF Alone, RedisTypeOK
    <3> QED BY <1>0, <2>1, <2>2, <3>3, <3>4, OneToken
  <2>3. CASE lock[who[r]] # None
    <3>1. lock' = lock /\ pc'[r] \in {"rejected", "failed", "acquire"}
      BY <1>3, <2>1, <2>3 DEF Acquire, Reply, Applied, Goto, CallsTypeOK
    <3>2. Phase(r)' = Phase(r) \/ (Phase(r) = "waiting" /\ Phase(r)' = "done")
      BY <1>0, <2>1, <3>1 DEF PhaseTable, PhaseOf, Before, Answered
    <3> QED BY <1>0, <2>1, <3>1, <3>2, OneToken DEF Alone
  <2> QED BY <2>2, <2>3
<1>4. ASSUME NEW r \in Requests,
             Upload(r) \/ Commit(r) \/ Invalidate(r) \/ Publish(r) \/ Dispatch(r)
      PROVE [SendLock!Next]_(SendLock!vars)
  <2>1. /\ Inside(r) /\ who' = who /\ lock' = lock
        /\ pc'[r] \in Within \cup Finally /\ \A s \in Requests : s # r => pc'[s] = pc[s]
    BY <1>4 DEF Upload, Commit, Invalidate, Publish, Dispatch, At, Reply, Applied, Goto,
                Inside, Within, Finally, CallsTypeOK, input, redis
  <2>2. \/ Phase(r)' = Phase(r)
        \/ Phase(r) = "lost" /\ Phase(r)' = "done"
    BY <1>0, <2>1 DEF PhaseTable, PhaseOf, Inside, Within, Finally
  <2>3. who[r] \in Users
    BY <2>1 DEF Inside, Within, CallsTypeOK
  <2> QED BY <1>0, <2>1, <2>2, <2>3, OneToken DEF Alone
<1>5. ASSUME NEW r \in Requests, Release(r) PROVE [SendLock!Next]_(SendLock!vars)
  <2>1. /\ pc[r] \in Finally /\ pc'[r] \in Finally \cup Answered /\ who' = who
        /\ \A s \in Requests : s # r => pc'[s] = pc[s]
    BY <1>5 DEF Release, At, Reply, Applied, Goto, Finally, Answered, CallsTypeOK, input
  <2>2. who[r] \in Users
    BY <2>1 DEF Finally, CallsTypeOK
  <2>3. lock'[who[r]] # r /\ Alone(r)
    BY <1>5, <2>1, <2>2 DEF Release, Alone, RedisTypeOK
  <2>4. Phase(r)' = "done" /\ Phase(r) \in {"held", "done"}
    BY <1>0, <2>1, <2>3 DEF PhaseTable, PhaseOf, Finally
  <2> QED BY <1>0, <2>1, <2>2, <2>3, <2>4, OneToken
<1>6. ASSUME NEW r \in Requests, Raise(r) \/ Crash(r)
      PROVE [SendLock!Next]_(SendLock!vars)
  <2>1. /\ pc[r] # "idle" /\ pc'[r] \in Finally \cup Answered /\ who' = who /\ lock' = lock
        /\ pc[r] \in Before \cup Within \cup Finally
        /\ \A s \in Requests : s # r => pc'[s] = pc[s]
    BY <1>6 DEF Raise, Crash, Active, Before, Within, Finally, Answered, CallsTypeOK,
                input, redis
  <2>2. who[r] \in Users
    BY <2>1 DEF CallsTypeOK
  <2>3. \/ Phase(r)' = Phase(r)
        \/ Phase(r) \in {"waiting", "lost"} /\ Phase(r)' = "done"
    BY <1>0, <2>1 DEF PhaseTable, PhaseOf, Inside, Before, Within, Finally, Answered
  <2> QED BY <1>0, <2>1, <2>2, <2>3, OneToken DEF Alone
<1>7. CASE Tick
  <2> DEFINE Lapsed == {r \in Requests : Phase(r) = "held" /\ Phase(r)' # "held"}
             lost == {r \in Lapsed : Phase(r)' = "lost"}
             dead == {r \in Lapsed : Phase(r)' = "done"}
             asking == {r \in Lapsed : Phase(r)' = "waiting"}
  <2>1. who' = who /\ pc' = pc /\ \A u \in Users : lock'[u] \in {None, lock[u]}
    BY <1>7 DEF Tick, calls, input
  <2>2. \A r \in Requests : Phase(r) # "held" => Phase(r)' = Phase(r)
    BY <1>0, <2>1 DEF PhaseTable, PhaseOf, Inside, CallsTypeOK, Before, Within, Finally, Answered
  <2>3. \A r \in Lapsed : Phase(r)' \in {"lost", "done", "waiting"}
    BY <1>0, <2>1 DEF PhaseTable, PhaseOf
  <2>4. \A r \in Requests : Phase(r)' =
          CASE r \in lost -> "lost"
            [] r \in dead \ lost -> "done"
            [] r \in asking \ (lost \cup dead) -> "waiting"
            [] OTHER -> Phase(r)
    BY <2>2, <2>3
  <2>5. SendLock!Lapse(lost, dead, asking)
    BY <2>1, <2>4 DEF SendLock!Lapse
  <2>6. lost \in SUBSET Requests /\ dead \in SUBSET Requests /\ asking \in SUBSET Requests
    OBVIOUS
  <2> HIDE DEF lost, dead, asking
  <2> QED BY <2>5, <2>6 DEF SendLock!Next
<1>8. CASE UNCHANGED vars
  <2>1. UNCHANGED <<who, pc, lock>>
    BY <1>8 DEF vars, calls, input, redis
  <2>2. \A r \in Requests : Phase(r)' = Phase(r)
    BY <2>1 DEF Phase, Inside
  <2> QED BY <2>1, <2>2 DEF SendLock!vars
<1> QED
  BY <1>1, <1>2, <1>3, <1>4, <1>5, <1>6, <1>7, <1>8 DEF Next, Step

\* The send lock is a lease lock: calls of create_message take it, give it
\* back, lose it and die with it as LeaseLock allows, and in no other way.
THEOREM Implements == Spec => ImplementsLeaseLock
<1>1. Init => SendLock!Init
  <2> SUFFICES ASSUME Init, NEW r \in Requests PROVE who[r] = None /\ Phase(r) = "new"
    BY DEF Init, SendLock!Init
  <2> QED BY DEF Init, Phase, Inside, Before, Within
<1>2. Init => HolderInv
  BY DEF Init, HolderInv
<1> QED
  BY <1>1, <1>2, TypeCorrect, TypeInit, TypeNext, HolderNext, Refine, PTL
     DEF Spec, SendLock!Spec, ImplementsLeaseLock

------------------------------------------------------------------------------
(* What a lease lock promises, whoever implements it *)

VARIABLES lockName, lockPhase
Promise == INSTANCE LeaseLock WITH Names <- Users, Tokens <- Requests,
             name <- lockName, phase <- lockPhase

\* Every step of a token keeps the types.
LEMMA LockTypes == Promise!Spec => []Promise!LockTypeOK
<1> USE DEF Promise!LockTypeOK, Promise!Phases
<1>1. Promise!Init => Promise!LockTypeOK
  BY DEF Promise!Init
<1>2. Promise!LockTypeOK /\ [Promise!Next]_(Promise!vars) => Promise!LockTypeOK'
  BY DEF Promise!Next, Promise!vars, Promise!Move, Promise!Ask, Promise!Acquire,
         Promise!GiveUp, Promise!Release, Promise!Lapse, Promise!Leave
<1> QED
  BY <1>1, <1>2, PTL DEF Promise!Spec

\* Whatever leases run out and whoever dies, a lock has one holder at most.
THEOREM Exclusive == Promise!Spec => []Promise!OneHolder
<1> USE DEF Promise!OneHolder, Promise!Move
<1>1. Promise!Init => Promise!OneHolder
  BY DEF Promise!Init
<1>2. Promise!LockTypeOK /\ Promise!OneHolder /\ [Promise!Next]_(Promise!vars)
        => Promise!OneHolder'
  <2> SUFFICES ASSUME Promise!LockTypeOK, Promise!OneHolder, [Promise!Next]_(Promise!vars)
               PROVE  Promise!OneHolder'
    OBVIOUS
  <2>1. ASSUME NEW t \in Requests, NEW n \in Users, Promise!Ask(t, n)
        PROVE  Promise!OneHolder'
    BY <2>1 DEF Promise!Ask, Promise!LockTypeOK
  <2>2. ASSUME NEW t \in Requests, Promise!Acquire(t) PROVE Promise!OneHolder'
    BY <2>2 DEF Promise!Acquire, Promise!Held, Promise!LockTypeOK
  <2>3. ASSUME NEW t \in Requests,
               Promise!GiveUp(t) \/ Promise!Release(t) \/ Promise!Leave(t)
        PROVE  Promise!OneHolder'
    BY <2>3 DEF Promise!GiveUp, Promise!Release, Promise!Leave, Promise!LockTypeOK
  <2>4. ASSUME NEW lost, NEW dead, NEW asking, Promise!Lapse(lost, dead, asking)
        PROVE  Promise!OneHolder'
    BY <2>4 DEF Promise!Lapse, Promise!LockTypeOK
  <2>5. CASE UNCHANGED Promise!vars
    BY <2>5 DEF Promise!vars
  <2> QED
    BY <2>1, <2>2, <2>3, <2>4, <2>5 DEF Promise!Next
<1> QED
  BY <1>1, <1>2, LockTypes, PTL DEF Promise!Spec

------------------------------------------------------------------------------
(* What clients are shown *)

\* A chat is calls of create_message ...
LEMMA ChatCalls == ChatSpec => Spec
<1>1. ChatInit => Init
  BY DEF ChatInit
<1>2. [ChatNext]_<<vars, hub>> => [Next]_vars
  BY DEF ChatNext
<1> QED BY <1>1, <1>2, PTL DEF ChatSpec, Spec

\* ... and a process that passes messages on.
LEMMA ChatHub == ChatSpec => Hub!Spec
<1>1. ChatInit => Hub!Init
  BY DEF ChatInit
<1>2. [ChatNext]_<<vars, hub>> => [Hub!Next]_(Hub!vars)
  BY DEF ChatNext, Listen, Serve, hub, Hub!Next, Hub!vars
<1> QED BY <1>1, <1>2, PTL DEF ChatSpec, Hub!Spec

\* The log rises; what a connected client was given is the stretch of the log
\* between its joining and its place, and who has not joined was given nothing.
Stretches ==
  /\ \A i, j \in 1 .. Len(heard) : i < j => heard[i] < heard[j]
  /\ \A c \in Hub!Connected :
       /\ Hub!Place(c) <= Len(heard)
       /\ \A i \in 1 .. Len(given[c]) : given[c][i] = heard[joined[c] + i]
  /\ \A c \in Clients \ (Hub!Connected \cup gone) : given[c] = <<>>

LEMMA ElementsOf == ASSUME NEW S, NEW q \in Seq(S), NEW k \in 1 .. Len(q) PROVE q[k] \in S
  OBVIOUS

LEMMA HubTypes == Hub!Spec => []Hub!BroadcastTypeOK
<1> USE DEF Hub!BroadcastTypeOK, Hub!Connected
<1>1. Hub!Init => Hub!BroadcastTypeOK
  BY DEF Hub!Init
<1>2. Hub!BroadcastTypeOK /\ [Hub!Next]_(Hub!vars) => Hub!BroadcastTypeOK'
  <2> SUFFICES ASSUME Hub!BroadcastTypeOK, [Hub!Next]_(Hub!vars) PROVE Hub!BroadcastTypeOK'
    OBVIOUS
  <2>1. ASSUME NEW n \in Nat, Hub!Hear(n) PROVE Hub!BroadcastTypeOK'
    BY <2>1 DEF Hub!Hear
  <2>2. ASSUME NEW c \in Clients, Hub!Join(c) PROVE Hub!BroadcastTypeOK'
    BY <2>2 DEF Hub!Join
  <2>3. ASSUME NEW c \in Clients, Hub!Leave(c) PROVE Hub!BroadcastTypeOK'
    BY <2>3 DEF Hub!Leave
  <2>4. ASSUME NEW c \in Clients, Hub!Deliver(c) PROVE Hub!BroadcastTypeOK'
    <3>1. joined[c] \in Nat /\ Len(given[c]) \in Nat
      BY <2>4 DEF Hub!Deliver
    <3>2. heard[Hub!Place(c) + 1] \in Nat
      <4>1. heard \in Seq(Nat) /\ Len(heard) \in Nat
        OBVIOUS
      <4>2. Hub!Place(c) + 1 \in 1 .. Len(heard)
        BY <2>4, <3>1, <4>1 DEF Hub!Deliver, Hub!Place
      <4> QED BY <4>1, <4>2, ElementsOf
    <3> QED BY <2>4, <3>2 DEF Hub!Deliver
  <2>5. CASE UNCHANGED Hub!vars
    BY <2>5 DEF Hub!vars
  <2> QED BY <2>1, <2>2, <2>3, <2>4, <2>5 DEF Hub!Next
<1> QED BY <1>1, <1>2, PTL DEF Hub!Spec

\* The messages of a Broadcast go to each client in the order of their numbers.
LEMMA HubInOrder == Hub!Spec => []Hub!GivenInOrder
<1> USE DEF Hub!Connected
<1>1. Hub!Init => Stretches /\ Hub!GivenInOrder
  BY DEF Hub!Init, Stretches, Hub!GivenInOrder
<1>2. Hub!BroadcastTypeOK /\ Stretches /\ Hub!GivenInOrder /\ [Hub!Next]_(Hub!vars)
        => Stretches' /\ Hub!GivenInOrder'
  <2> SUFFICES ASSUME Hub!BroadcastTypeOK, Stretches, Hub!GivenInOrder, [Hub!Next]_(Hub!vars)
               PROVE  Stretches' /\ Hub!GivenInOrder'
    OBVIOUS
  <2>0. /\ heard \in Seq(Nat) /\ given \in [Clients -> Seq(Nat)]
        /\ \A c \in DOMAIN joined : c \in Clients /\ joined[c] \in Nat /\ Len(given[c]) \in Nat
    BY DEF Hub!BroadcastTypeOK
  <2>1. ASSUME NEW n \in Nat, Hub!Hear(n) PROVE Stretches' /\ Hub!GivenInOrder'
    <3>1. /\ Len(heard') = Len(heard) + 1 /\ Len(heard) \in Nat
          /\ heard'[Len(heard) + 1] = n
          /\ \A i \in 1 .. Len(heard) : heard'[i] = heard[i] /\ heard[i] < n
          /\ UNCHANGED <<joined, gone, given>>
      BY <2>0, <2>1 DEF Hub!Hear
    <3>2. ASSUME NEW i \in 1 .. Len(heard'), NEW j \in 1 .. Len(heard'), i < j
          PROVE  heard'[i] < heard'[j]
      <4>1. i \in 1 .. Len(heard)
        BY <3>1, <3>2
      <4>2. j \in 1 .. Len(heard) \/ j = Len(heard) + 1
        BY <3>1
      <4> QED BY <3>1, <3>2, <4>1, <4>2 DEF Stretches
    <3>3. ASSUME NEW c \in DOMAIN joined
          PROVE  /\ Hub!Place(c) <= Len(heard) + 1
                 /\ \A i \in 1 .. Len(given[c]) : given[c][i] = heard'[joined[c] + i]
      <4>1. Hub!Place(c) <= Len(heard)
            /\ \A i \in 1 .. Len(given[c]) : given[c][i] = heard[joined[c] + i]
        BY DEF Stretches
      <4>2. \A i \in 1 .. Len(given[c]) : joined[c] + i \in 1 .. Len(heard)
        BY <2>0, <3>1, <4>1 DEF Hub!Place
      <4>3. \A i \in 1 .. Len(given[c]) : heard'[joined[c] + i] = heard[joined[c] + i]
        BY <3>1, <4>2
      <4>4. Hub!Place(c) <= Len(heard) + 1
        BY <2>0, <3>1, <4>1 DEF Hub!Place
      <4> QED BY <4>1, <4>3, <4>4
    <3>4. Stretches'
      BY <3>1, <3>2, <3>3 DEF Stretches, Hub!Place
    <3> QED BY <3>1, <3>4 DEF Hub!GivenInOrder
  <2>2. ASSUME NEW c \in Clients, Hub!Join(c) PROVE Stretches' /\ Hub!GivenInOrder'
    <3>1. /\ c \notin DOMAIN joined \cup gone
          /\ UNCHANGED <<heard, gone, given>>
          /\ DOMAIN joined' = DOMAIN joined \cup {c}
          /\ joined'[c] = Len(heard)
          /\ \A d \in DOMAIN joined : joined'[d] = joined[d]
      BY <2>2 DEF Hub!Join
    <3>2. given[c] = <<>> /\ Len(given[c]) = 0 /\ Len(heard) \in Nat
      BY <2>0, <3>1 DEF Stretches
    <3>3. joined'[c] + Len(given'[c]) <= Len(heard)
      BY <3>1, <3>2
    <3> QED BY <3>1, <3>2, <3>3 DEF Stretches, Hub!GivenInOrder, Hub!Place
  <2>3. ASSUME NEW c \in Clients, Hub!Leave(c) PROVE Stretches' /\ Hub!GivenInOrder'
    BY <2>3 DEF Hub!Leave, Stretches, Hub!GivenInOrder, Hub!Place
  <2>4. ASSUME NEW c \in Clients, Hub!Deliver(c) PROVE Stretches' /\ Hub!GivenInOrder'
    <3>1. /\ c \in DOMAIN joined /\ UNCHANGED <<heard, joined, gone>>
          /\ Hub!Place(c) < Len(heard) /\ Hub!Place(c) = joined[c] + Len(given[c])
          /\ given' = [given EXCEPT ![c] = Append(@, heard[Hub!Place(c) + 1])]
      BY <2>4 DEF Hub!Deliver, Hub!Place
    <3>2. /\ Len(given'[c]) = Len(given[c]) + 1 /\ Len(given[c]) \in Nat
          /\ given'[c][Len(given[c]) + 1] = heard[joined[c] + (Len(given[c]) + 1)]
          /\ \A i \in 1 .. Len(given[c]) : given'[c][i] = given[c][i]
      BY <2>0, <3>1
    <3>3. \A d \in Clients \ {c} : given'[d] = given[d]
      BY <2>0, <3>1
    <3>4. \A i \in 1 .. Len(given'[c]) : given'[c][i] = heard[joined[c] + i]
      <4>1. \A i \in 1 .. Len(given[c]) : given[c][i] = heard[joined[c] + i]
        BY <3>1 DEF Stretches
      <4> QED BY <3>2, <4>1
    <3>5. ASSUME NEW i \in 1 .. Len(given'[c]), NEW j \in 1 .. Len(given'[c]), i < j
          PROVE  given'[c][i] < given'[c][j]
      <4>0. joined[c] \in Nat /\ Len(given[c]) \in Nat /\ Len(heard) \in Nat
        BY <2>0, <3>1
      <4>1. /\ joined[c] + i \in 1 .. Len(heard) /\ joined[c] + j \in 1 .. Len(heard)
            /\ joined[c] + i < joined[c] + j
        BY <3>1, <3>2, <3>5, <4>0
      <4>2. heard[joined[c] + i] < heard[joined[c] + j]
        BY <4>1 DEF Stretches
      <4> QED BY <3>4, <4>2
    <3>6. Hub!GivenInOrder'
      BY <3>3, <3>5 DEF Hub!GivenInOrder
    <3>7. Stretches'
      <4>1. joined[c] + Len(given'[c]) <= Len(heard)
        BY <2>0, <3>1, <3>2
      <4>2. ASSUME NEW d \in DOMAIN joined
            PROVE  /\ joined[d] + Len(given'[d]) <= Len(heard)
                   /\ \A i \in 1 .. Len(given'[d]) : given'[d][i] = heard[joined[d] + i]
        <5>1. CASE d = c
          BY <3>4, <4>1, <5>1
        <5>2. CASE d # c
          <6>1. given'[d] = given[d]
            BY <2>0, <3>3, <5>2
          <6> QED BY <6>1 DEF Stretches, Hub!Place
        <5> QED BY <5>1, <5>2
      <4>3. \A d \in Clients \ (DOMAIN joined \cup gone) : given'[d] = <<>>
        BY <3>1, <3>3 DEF Stretches
      <4> QED BY <3>1, <4>2, <4>3 DEF Stretches, Hub!Place
    <3> QED BY <3>6, <3>7
  <2>5. CASE UNCHANGED Hub!vars
    BY <2>5 DEF Hub!vars, Stretches, Hub!GivenInOrder, Hub!Place
  <2> QED BY <2>1, <2>2, <2>3, <2>4, <2>5 DEF Hub!Next
<1> QED BY <1>1, <1>2, HubTypes, PTL DEF Hub!Spec

\* What the process hears and what clients are given has been published.
Drawn ==
  /\ \A i \in 1 .. Len(heard) : heard[i] \in 1 .. Len(published)
  /\ \A c \in Clients : \A i \in 1 .. Len(given[c]) : given[c][i] \in 1 .. Len(published)

LEMMA PublishedGrows ==
  ASSUME TypeOK, [Next]_vars
  PROVE  Len(published) \in Nat /\ Len(published') \in Nat /\ Len(published) <= Len(published')
<1>1. published \in Seq(Requests)
  BY DEF TypeOK, StoresTypeOK
<1>2. ASSUME NEW r \in Requests, Publish(r) \/ Raise(r) \/ Crash(r)
      PROVE  published' = published \/ published' = Append(published, r)
  BY <1>2 DEF Publish, Raise, Crash, stores
<1>3. ASSUME ~ \E r \in Requests : Publish(r) \/ Raise(r) \/ Crash(r)
      PROVE  published' = published
  BY <1>3 DEF Next, Step, Submit, Peek, Invalid, CheckRate, CheckSpam, Acquire, Upload, Commit,
              Invalidate, Dispatch, Release, Tick, vars, stores
<1> QED BY <1>1, <1>2, <1>3

LEMMA DrawnAlways == ChatSpec => []Drawn
<1>1. ChatInit => Drawn
  BY DEF ChatInit, Hub!Init, Drawn
<1>2. TypeOK /\ Hub!BroadcastTypeOK /\ Drawn /\ [ChatNext]_<<vars, hub>> => Drawn'
  <2> SUFFICES ASSUME TypeOK, Hub!BroadcastTypeOK, Drawn, [ChatNext]_<<vars, hub>>
               PROVE  Drawn'
    OBVIOUS
  <2>0. /\ heard \in Seq(Nat) /\ given \in [Clients -> Seq(Nat)]
        /\ \A c \in DOMAIN joined : c \in Clients /\ joined[c] \in Nat /\ Len(given[c]) \in Nat
    BY DEF Hub!BroadcastTypeOK, Hub!Connected
  <2>1. CASE Next /\ UNCHANGED hub
    <3>1. Len(published) \in Nat /\ Len(published') \in Nat /\ Len(published) <= Len(published')
      BY <2>1, PublishedGrows
    <3> QED BY <2>0, <2>1, <3>1 DEF Drawn, hub
  <2>2. ASSUME NEW n \in 1 .. Len(published), Hub!Hear(n), UNCHANGED vars PROVE Drawn'
    BY <2>0, <2>2 DEF Hub!Hear, Drawn, vars, stores
  <2>3. ASSUME NEW c \in Clients, Hub!Join(c) \/ Hub!Leave(c), UNCHANGED vars PROVE Drawn'
    BY <2>3 DEF Hub!Join, Hub!Leave, Drawn, vars, stores
  <2>4. ASSUME NEW c \in Clients, Hub!Deliver(c), UNCHANGED vars PROVE Drawn'
    <3>1. Hub!Place(c) + 1 \in 1 .. Len(heard)
      BY <2>0, <2>4 DEF Hub!Deliver, Hub!Place, Hub!Connected
    <3>2. heard[Hub!Place(c) + 1] \in 1 .. Len(published)
      BY <3>1 DEF Drawn
    <3>3. /\ given' = [given EXCEPT ![c] = Append(@, heard[Hub!Place(c) + 1])]
          /\ UNCHANGED <<heard, published>>
      BY <2>4 DEF Hub!Deliver, vars, stores
    <3>4. /\ Len(given'[c]) = Len(given[c]) + 1 /\ Len(given[c]) \in Nat
          /\ given'[c][Len(given[c]) + 1] \in 1 .. Len(published)
          /\ \A i \in 1 .. Len(given[c]) : given'[c][i] = given[c][i]
          /\ \A d \in Clients \ {c} : given'[d] = given[d]
      BY <2>0, <3>2, <3>3
    <3>5. ASSUME NEW i \in 1 .. Len(given'[c]) PROVE given'[c][i] \in 1 .. Len(published)
      <4>1. i \in 1 .. Len(given[c]) \/ i = Len(given[c]) + 1
        BY <3>4
      <4>2. \A k \in 1 .. Len(given[c]) : given[c][k] \in 1 .. Len(published)
        BY DEF Drawn
      <4> QED BY <3>4, <4>1, <4>2
    <3> QED BY <3>3, <3>4, <3>5 DEF Drawn
  <2>5. CASE UNCHANGED <<vars, hub>>
    BY <2>5 DEF Drawn, vars, hub, stores
  <2> QED BY <2>1, <2>2, <2>3, <2>4, <2>5 DEF ChatNext, Listen, Serve
<1> QED
  BY <1>1, <1>2, ChatCalls, ChatHub, TypeCorrect, HubTypes, PTL DEF ChatSpec

\* What a client is shown has been published.
LEMMA ShownIsPublished ==
  ASSUME Drawn, NEW c \in Clients, NEW i \in 1 .. Len(Shown(c)), Hub!BroadcastTypeOK
  PROVE  /\ Len(Shown(c)) = Len(given[c]) /\ i \in 1 .. Len(given[c])
         /\ Shown(c)[i] = published[given[c][i]]
         /\ given[c][i] \in 1 .. Len(published)
<1>1. given[c] \in Seq(Nat)
  BY DEF Hub!BroadcastTypeOK
<1>2. Len(Shown(c)) = Len(given[c])
  BY <1>1 DEF Shown
<1> QED BY <1>2 DEF Shown, Drawn

\* Whoever is shown a message, at once or late, finds it committed once and its file in the
\* bucket, and the invalidation of the cached pages was completed before.
THEOREM WhatIsShownIsReadable == ChatSpec => []ShownIsReadable
<1>1. Drawn /\ Hub!BroadcastTypeOK /\ PublishedIsReadable => ShownIsReadable
  BY ShownIsPublished DEF ShownIsReadable, PublishedIsReadable, Elements
<1> QED
  BY <1>1, DrawnAlways, ChatCalls, ChatHub, HubTypes, Readable, PTL

\* The messages of a user are shown in the order in which they were stored.
THEOREM ShownInOrder == ChatSpec => []ShownInTurn
<1>1. TypeOK /\ Drawn /\ Hub!BroadcastTypeOK /\ Hub!GivenInOrder /\ SerializedPerUser => ShownInTurn
  <2> SUFFICES ASSUME TypeOK, Drawn, Hub!BroadcastTypeOK, Hub!GivenInOrder, SerializedPerUser,
                      NEW c \in Clients, NEW k \in 1 .. Len(Shown(c)), NEW l \in 1 .. Len(Shown(c)),
                      NEW i \in 1 .. Len(rows), NEW j \in 1 .. Len(rows), k < l,
                      rows[i] = Shown(c)[k], rows[j] = Shown(c)[l],
                      who[rows[i]] = who[rows[j]], {rows[i], rows[j]} \cap overran = {},
                      j < i
               PROVE  FALSE
    BY DEF ShownInTurn
  <2> DEFINE m == given[c][k]
             n == given[c][l]
  <2>1. /\ m \in 1 .. Len(published) /\ published[m] = rows[i]
        /\ n \in 1 .. Len(published) /\ published[n] = rows[j]
        /\ k \in 1 .. Len(given[c]) /\ l \in 1 .. Len(given[c])
    BY ShownIsPublished
  <2>2. m < n
    BY <2>1 DEF Hub!GivenInOrder
  <2>3. who[rows[j]] = who[rows[i]] /\ {rows[j], rows[i]} \cap overran = {}
    OBVIOUS
  <2> HIDE DEF m, n
  <2>4. n < m
    BY <2>1, <2>3 DEF SerializedPerUser
  <2> QED BY <2>1, <2>2, <2>4
<1> QED
  BY <1>1, DrawnAlways, ChatCalls, ChatHub, HubTypes, HubInOrder, Serialized, TypeCorrect, PTL

\* A client is shown a copy of what it was shown before only if a copy was published.
LEMMA CopiesShown ==
  ASSUME TypeOK, Drawn, Hub!BroadcastTypeOK, Hub!GivenInOrder, NEW c \in Clients
  PROVE  /\ Cardinality(Copies(Shown(c))) \in Nat /\ Cardinality(Copies(published)) \in Nat
         /\ Cardinality(Copies(Shown(c))) <= Cardinality(Copies(published))
<1>1. given[c] \in Seq(Nat) /\ Len(Shown(c)) = Len(given[c])
  BY DEF Hub!BroadcastTypeOK, Shown
<1>2. \A j \in 1 .. Len(given[c]) : /\ given[c][j] \in 1 .. Len(published)
                                    /\ Shown(c)[j] = published[given[c][j]]
  BY <1>1, ShownIsPublished
<1>3. \A i, j \in 1 .. Len(given[c]) : i < j => given[c][i] < given[c][j]
  BY DEF Hub!GivenInOrder
<1>4. \A j \in Copies(Shown(c)) : j \in 1 .. Len(given[c]) /\ given[c][j] \in Copies(published)
  <2> SUFFICES ASSUME NEW j \in Copies(Shown(c))
               PROVE  j \in 1 .. Len(given[c]) /\ given[c][j] \in Copies(published)
    OBVIOUS
  <2>1. j \in 1 .. Len(given[c])
    BY <1>1 DEF Copies
  <2>2. PICK i \in 1 .. j - 1 : Shown(c)[i] = Shown(c)[j]
    BY DEF Copies
  <2>3. i \in 1 .. Len(given[c]) /\ i < j
    BY <1>1, <2>1
  <2>4. /\ given[c][i] \in 1 .. given[c][j] - 1
        /\ published[given[c][i]] = published[given[c][j]]
    BY <1>2, <1>3, <2>1, <2>2, <2>3
  <2> QED BY <1>2, <2>1, <2>4 DEF Copies
<1> DEFINE f == [j \in Copies(Shown(c)) |-> given[c][j]]
<1>5. f \in Injection(Copies(Shown(c)), Copies(published))
  <2>1. f \in [Copies(Shown(c)) -> Copies(published)]
    BY <1>4
  <2>2. ASSUME NEW i \in Copies(Shown(c)), NEW j \in Copies(Shown(c)), f[i] = f[j] PROVE i = j
    <3>1. /\ i \in 1 .. Len(given[c]) /\ j \in 1 .. Len(given[c])
          /\ given[c][i] = given[c][j]
      BY <1>4, <2>2
    <3> QED BY <1>1, <1>2, <1>3, <3>1
  <2> QED BY <2>1, <2>2 DEF Injection, IsInjective
<1>6. IsFiniteSet(Copies(published)) /\ Cardinality(Copies(published)) \in Nat
  BY CopiesFinite DEF TypeOK, StoresTypeOK
<1>7. /\ IsFiniteSet(Copies(Shown(c)))
      /\ Cardinality(Copies(Shown(c))) <= Cardinality(Copies(published))
  BY <1>5, <1>6, FS_Injection
<1> QED BY <1>6, <1>7, FS_CardinalityType

\* No client is shown more copies than there were faults.
THEOREM ShownOnlyOnce == ChatSpec => []ShownOnce
<1>1. TypeOK /\ Drawn /\ Hub!BroadcastTypeOK /\ Hub!GivenInOrder /\ Bought => ShownOnce
  <2> SUFFICES ASSUME TypeOK, Drawn, Hub!BroadcastTypeOK, Hub!GivenInOrder, Bought,
                      NEW c \in Clients
               PROVE  Cardinality(Copies(Shown(c))) <= faults
    BY DEF ShownOnce
  <2>1. faults \in Nat
    BY TtlAssumption DEF TypeOK, CallsTypeOK
  <2> QED BY <2>1, CopiesShown DEF Bought
<1> QED
  BY <1>1, DrawnAlways, ChatCalls, ChatHub, HubTypes, HubInOrder, CopiesPaid, TypeCorrect, PTL
==============================================================================
