----------------------------- MODULE SendMessage -----------------------------
(***************************************************************************)
(* POST /messages and a WebSocket text frame: every call of                *)
(* MessageService.create_message that the API processes run concurrently,  *)
(* from the rate-limit peek to the release of the user's send lock.        *)
(*                                                                         *)
(* One action is the code between two awaits together with the Redis, S3   *)
(* or database operation awaited, which the service applies atomically.    *)
(* An awaited operation may fail in two ways: without being applied        *)
(* (Raise), or applied with its answer lost (the exceptional next step in  *)
(* its own action); the Redis client may also resend a command whose       *)
(* answer was lost.  Redis keys carry their remaining life in ticks.       *)
(***************************************************************************)
EXTENDS Naturals, Sequences, FiniteSets

CONSTANTS Users, Requests, Bodies,
          None,        \* no user, body or lock token
          RateLimit,   \* RATE_LIMIT_MS, in ticks
          LockTtl,     \* timeout_ms of the send lock, in ticks
          SpamTtl,     \* SPAM_TTL_SECONDS, in ticks
          MaxSame,     \* MAX_CONSECUTIVE_SAME_MESSAGES
          MaxFaults    \* bound: crashes, errors and lost answers in a behaviour

ASSUME NoneAssumption == None \notin Users \cup Requests \cup Bodies
ASSUME TtlAssumption == /\ RateLimit \in Nat \ {0}
                        /\ LockTtl \in Nat \ {0}
                        /\ SpamTtl \in Nat \ {0}
                        /\ MaxSame \in Nat \ {0}
                        /\ MaxFaults \in Nat

VARIABLES
  pc, who, body, file,         \* each call: next step, user, fingerprint, has a file
  rateTtl,                     \* ratelimit:messages:<u>, 0 when absent
  spam, spamTtl,               \* spam:<u>, its fields f and c
  lock, lockTtl,               \* lock:send:<u>, the token it holds
  objects,                     \* calls whose file is in the bucket
  rows,                        \* calls whose message is committed, in that order
  invalidated,                 \* calls whose invalidate_message_cache completed
  published,                   \* calls whose message reached chat:messages, in order
  queued,                      \* calls whose process_message task is queued
  faults,                      \* crashes, errors and lost answers so far
  sinceAdmit,                  \* history: ticks since a call passed the rate limit
  accepted,                    \* history: fingerprints passed while spam:<u> lives
  overran                      \* history: calls that outlived their own lease

input == <<who, body, file>>
calls == <<pc, input, faults>>
redis == <<rateTtl, spam, spamTtl, lock, lockTtl>>
stores == <<objects, rows, invalidated, published, queued>>
history == <<sinceAdmit, accepted, overran>>
vars == <<calls, redis, stores, history>>

\* Steps before the try block, in it (with its finally), and the answers.
Before == {"peek", "rate", "spam", "acquire"}
Within == {"upload", "commit", "invalidate", "publish", "dispatch"}
Finally == {"release", "unwind"}
Answered == {"created", "rejected", "failed", "crashed"}

Inside(r) == pc[r] \in Within
Active(r) == pc[r] \in Before \cup Within \cup Finally

Steps == {"idle"} \cup Before \cup Within \cup Finally \cup Answered

CallsTypeOK ==
  /\ pc \in [Requests -> Steps]
  /\ who \in [Requests -> Users \cup {None}]
  /\ body \in [Requests -> Bodies \cup {None}]
  /\ file \in [Requests -> BOOLEAN]
  /\ faults \in 0 .. MaxFaults
  /\ \A r \in Requests : pc[r] # "idle" => who[r] \in Users /\ body[r] \in Bodies

RedisTypeOK ==
  /\ rateTtl \in [Users -> 0 .. RateLimit]
  /\ spam \in [Users -> [f : Bodies \cup {None}, c : Nat]]
  /\ spamTtl \in [Users -> 0 .. SpamTtl]
  /\ lock \in [Users -> Requests \cup {None}]
  /\ lockTtl \in [Users -> 0 .. LockTtl]

StoresTypeOK ==
  /\ objects \subseteq Requests
  /\ rows \in Seq(Requests)
  /\ invalidated \subseteq Requests
  /\ published \in Seq(Requests)
  /\ queued \subseteq Requests

HistoryTypeOK ==
  /\ sinceAdmit \in [Users -> 0 .. RateLimit]
  /\ accepted \in [Users -> Seq(Bodies)]
  /\ overran \subseteq Requests

TypeOK == CallsTypeOK /\ RedisTypeOK /\ StoresTypeOK /\ HistoryTypeOK

NoSpam == [f |-> None, c |-> 0]

Init ==
  /\ pc = [r \in Requests |-> "idle"]
  /\ who = [r \in Requests |-> None]
  /\ body = [r \in Requests |-> None]
  /\ file = [r \in Requests |-> FALSE]
  /\ faults = 0
  /\ rateTtl = [u \in Users |-> 0]
  /\ spam = [u \in Users |-> NoSpam]
  /\ spamTtl = [u \in Users |-> 0]
  /\ lock = [u \in Users |-> None]
  /\ lockTtl = [u \in Users |-> 0]
  /\ objects = {} /\ rows = <<>> /\ invalidated = {}
  /\ published = <<>> /\ queued = {}
  /\ sinceAdmit = [u \in Users |-> RateLimit]
  /\ accepted = [u \in Users |-> <<>>]
  /\ overran = {}

------------------------------------------------------------------------------
At(r, step) == pc[r] = step
Goto(r, step) == pc' = [pc EXCEPT ![r] = step] /\ UNCHANGED faults
Fault == faults < MaxFaults /\ faults' = faults + 1

\* An operation is applied: its answer arrives, or is lost and the call raises.
Applied(r, answered, raised) ==
  \/ Goto(r, answered)
  \/ Fault /\ pc' = [pc EXCEPT ![r] = raised]

\* A Redis command is applied: the client may also send it again.
Reply(r, answered, raised) ==
  Applied(r, answered, raised) \/ (Fault /\ UNCHANGED pc)

\* A client sends.  HTTP peeks at the rate limit first and may carry a file;
\* a WebSocket frame is text and goes straight to create_message.
Submit(r, u, b) ==
  /\ At(r, "idle")
  /\ \/ Goto(r, "peek") /\ file' \in {[file EXCEPT ![r] = f] : f \in BOOLEAN}
     \/ Goto(r, "rate") /\ UNCHANGED file
  /\ who' = [who EXCEPT ![r] = u]
  /\ body' = [body EXCEPT ![r] = b]
  /\ UNCHANGED <<redis, stores, history>>

\* peek_rate_limit reads only; what it saw may be out of date at CheckRate.
Peek(r) ==
  /\ At(r, "peek")
  /\ Goto(r, IF rateTtl[who[r]] = 0 THEN "rate" ELSE "rejected")
  /\ UNCHANGED <<input, redis, stores, history>>

\* The checks of the text and the file, which change no state.
Invalid(r) ==
  /\ At(r, "peek") \/ At(r, "rate")
  /\ Goto(r, "rejected")
  /\ UNCHANGED <<input, redis, stores, history>>

\* Mutant: a plain SET, which never finds the user limited.
CheckRateWithoutNX(r) ==
  /\ At(r, "rate")
  /\ Reply(r, "spam", "failed")
  /\ rateTtl' = [rateTtl EXCEPT ![who[r]] = RateLimit]
  /\ sinceAdmit' = IF pc'[r] = "spam" THEN [sinceAdmit EXCEPT ![who[r]] = 0]
                                      ELSE sinceAdmit
  /\ UNCHANGED <<input, spam, spamTtl, lock, lockTtl, stores, accepted, overran>>

\* check_rate_limit: SET NX PX.  A resent SET finds the key it made itself.
CheckRate(r) ==
  /\ At(r, "rate")
  /\ IF rateTtl[who[r]] = 0
       THEN /\ Reply(r, "spam", "failed")
            /\ rateTtl' = [rateTtl EXCEPT ![who[r]] = RateLimit]
            /\ sinceAdmit' = IF pc'[r] = "spam"
                             THEN [sinceAdmit EXCEPT ![who[r]] = 0]
                             ELSE sinceAdmit
       ELSE /\ Reply(r, "rejected", "failed")
            /\ UNCHANGED <<rateTtl, sinceAdmit>>
  /\ UNCHANGED <<input, spam, spamTtl, lock, lockTtl, stores, accepted, overran>>

\* Mutant: the count that was stored, without this attempt.
CountBefore(u, b) ==
  IF spamTtl[u] > 0 /\ spam[u].f = b THEN spam[u].c ELSE 1

\* SPAM_LUA's new_count.
NewCount(u, b) ==
  IF spamTtl[u] > 0 /\ spam[u].f = b THEN spam[u].c + 1 ELSE 1

\* check_spam: one atomic script, which stores the count it refuses as well.
CheckSpam(r) ==
  /\ At(r, "spam")
  /\ LET u == who[r]
         c == NewCount(u, body[r]) IN
     /\ spam' = [spam EXCEPT ![u] = [f |-> body[r], c |-> c]]
     /\ spamTtl' = [spamTtl EXCEPT ![u] = SpamTtl]
     /\ IF c > MaxSame
          THEN /\ Reply(r, "rejected", "failed")
               /\ UNCHANGED accepted
          ELSE /\ Reply(r, "acquire", "failed")
               /\ accepted' = [accepted EXCEPT ![u] = Append(@, body[r])]
  /\ UNCHANGED <<input, rateTtl, lock, lockTtl, stores, sinceAdmit, overran>>

\* Mutants: SET without NX, and SET NX without PX.
AcquireWithoutNX(r) ==
  /\ At(r, "acquire")
  /\ Reply(r, IF file[r] THEN "upload" ELSE "commit", "failed")
  /\ lock' = [lock EXCEPT ![who[r]] = r]
  /\ lockTtl' = [lockTtl EXCEPT ![who[r]] = LockTtl]
  /\ UNCHANGED <<input, rateTtl, spam, spamTtl, stores, history>>

AcquireWithoutPX(r) ==
  /\ At(r, "acquire")
  /\ IF lock[who[r]] = None
       THEN /\ Reply(r, IF file[r] THEN "upload" ELSE "commit", "failed")
            /\ lock' = [lock EXCEPT ![who[r]] = r]
       ELSE Reply(r, "rejected", "failed") /\ UNCHANGED lock
  /\ UNCHANGED <<input, rateTtl, spam, spamTtl, lockTtl, stores, history>>

\* acquire_lock: SET NX PX under a fresh token.  The call is before the try
\* block, so a lost answer leaves the lock to its lease; a resent SET finds
\* the key taken by its own token.
Acquire(r) ==
  /\ At(r, "acquire")
  /\ IF lock[who[r]] = None
       THEN /\ Reply(r, IF file[r] THEN "upload" ELSE "commit", "failed")
            /\ lock' = [lock EXCEPT ![who[r]] = r]
            /\ lockTtl' = [lockTtl EXCEPT ![who[r]] = LockTtl]
       ELSE /\ Reply(r, "rejected", "failed")
            /\ UNCHANGED <<lock, lockTtl>>
  /\ UNCHANGED <<input, rateTtl, spam, spamTtl, stores, history>>

Upload(r) ==
  /\ At(r, "upload")
  /\ Applied(r, "commit", "unwind")
  /\ objects' = objects \cup {r}
  /\ UNCHANGED <<input, redis, rows, invalidated, published, queued,
                 history>>

\* Mutant: the broadcast goes out before the caches are invalidated.
CommitThenPublish(r) ==
  /\ At(r, "commit")
  /\ Applied(r, "publish", "unwind")
  /\ rows' = Append(rows, r)
  /\ UNCHANGED <<input, redis, objects, invalidated, published, queued, history>>

\* INSERT and COMMIT; the refresh that follows may raise after the commit.
Commit(r) ==
  /\ At(r, "commit")
  /\ Applied(r, "invalidate", "unwind")
  /\ rows' = Append(rows, r)
  /\ UNCHANGED <<input, redis, objects, invalidated, published,
                 queued, history>>

Invalidate(r) ==
  /\ At(r, "invalidate")
  /\ Reply(r, "publish", "unwind")
  /\ invalidated' = invalidated \cup {r}
  /\ UNCHANGED <<input, redis, objects, rows, published, queued,
                 history>>

\* Mutant: the endpoint publishes what it returns as well.
PublishTwice(r) ==
  /\ At(r, "publish")
  /\ Reply(r, "dispatch", "unwind")
  /\ published' = Append(Append(published, r), r)
  /\ UNCHANGED <<input, redis, objects, rows, invalidated, queued,
                 history>>

\* PUBLISH reaches every subscriber again when it is resent.
Publish(r) ==
  /\ At(r, "publish")
  /\ Reply(r, "dispatch", "unwind")
  /\ published' = Append(published, r)
  /\ UNCHANGED <<input, redis, objects, rows, invalidated, queued,
                 history>>

\* process_message.delay: whatever it raises is swallowed.
Dispatch(r) ==
  /\ At(r, "dispatch")
  /\ Goto(r, "release")
  /\ queued' \in {queued, queued \cup {r}}
  /\ UNCHANGED <<input, redis, objects, rows, invalidated,
                 published, history>>

\* Mutants: DEL without the comparison of tokens; and a release that waits
\* until the lock is its own.
ReleaseAnyToken(r) ==
  /\ \/ At(r, "release") /\ Reply(r, "created", "failed")
     \/ At(r, "unwind") /\ Reply(r, "failed", "failed")
  /\ lock' = [lock EXCEPT ![who[r]] = None]
  /\ lockTtl' = [lockTtl EXCEPT ![who[r]] = 0]
  /\ UNCHANGED <<input, rateTtl, spam, spamTtl, stores, history>>

ReleaseOnlyIfHeld(r) ==
  /\ pc[r] \in Finally /\ lock[who[r]] = r
  /\ ReleaseAnyToken(r)

\* The finally block: RELEASE_LOCK_LUA deletes the key only for its own token.
Release(r) ==
  /\ \/ At(r, "release") /\ Reply(r, "created", "failed")
     \/ At(r, "unwind") /\ Reply(r, "failed", "failed")
  /\ lock' = [lock EXCEPT ![who[r]] = IF @ = r THEN None ELSE @]
  /\ lockTtl' = [lockTtl EXCEPT ![who[r]] = IF lock[who[r]] = r THEN 0 ELSE @]
  /\ UNCHANGED <<input, rateTtl, spam, spamTtl, stores, history>>

\* Mutant: an error of invalidate_message_cache is swallowed.
RaiseSwallowed(r) ==
  /\ At(r, "invalidate")
  /\ pc' = [pc EXCEPT ![r] = "publish"]
  /\ Fault
  /\ UNCHANGED <<input, redis, stores, history>>

\* An awaited operation raises without having been applied.
Raise(r) ==
  /\ \/ pc[r] \in Before \cup Finally /\ pc' = [pc EXCEPT ![r] = "failed"]
     \/ pc[r] \in Within \ {"dispatch"} /\ pc' = [pc EXCEPT ![r] = "unwind"]
  /\ Fault
  /\ UNCHANGED <<input, redis, stores, history>>

\* The API process dies: no finally block runs.
Crash(r) ==
  /\ Active(r)
  /\ pc' = [pc EXCEPT ![r] = "crashed"]
  /\ Fault
  /\ UNCHANGED <<input, redis, stores, history>>

\* Mutant: a life that goes on below zero.
LessUnclamped(n) == n - 1

Less(n) == IF n > 0 THEN n - 1 ELSE 0

\* A tick of Redis's clock: keys whose life ends are gone.
Tick ==
  /\ \E u \in Users : rateTtl[u] + spamTtl[u] + lockTtl[u] > 0
  /\ rateTtl' = [u \in Users |-> Less(rateTtl[u])]
  /\ spamTtl' = [u \in Users |-> Less(spamTtl[u])]
  /\ lockTtl' = [u \in Users |-> Less(lockTtl[u])]
  /\ lock' = [u \in Users |-> IF lockTtl[u] = 1 THEN None ELSE lock[u]]
  /\ sinceAdmit' = [u \in Users |-> IF sinceAdmit[u] < RateLimit
                                    THEN sinceAdmit[u] + 1 ELSE RateLimit]
  /\ accepted' = [u \in Users |-> IF spamTtl[u] <= 1 THEN <<>> ELSE accepted[u]]
  /\ overran' = overran \cup {r \in Requests : /\ Inside(r)
                                               /\ lock[who[r]] = r
                                               /\ lockTtl[who[r]] = 1}
  /\ spam' = [u \in Users |-> IF spamTtl[u] <= 1 THEN NoSpam ELSE spam[u]]
  /\ UNCHANGED <<calls, stores>>

\* The steps a running call takes when nothing fails to answer.
Step(r) == \/ Peek(r) \/ CheckRate(r) \/ CheckSpam(r) \/ Acquire(r)
           \/ Upload(r) \/ Commit(r) \/ Invalidate(r) \/ Publish(r)
           \/ Dispatch(r) \/ Release(r)

Next == \/ \E r \in Requests :
             \/ \E u \in Users, b \in Bodies : Submit(r, u, b)
             \/ Invalid(r) \/ Step(r) \/ Raise(r) \/ Crash(r)
        \/ Tick

Spec == Init /\ [][Next]_vars

\* Redis expires keys without being asked, and an awaited operation returns
\* or raises: no call waits for ever.
Fairness == WF_vars(Tick) /\ \A r \in Requests : WF_vars(Step(r))
FairSpec == Spec /\ Fairness

------------------------------------------------------------------------------
(* What must hold *)

Elements(s) == {s[i] : i \in 1 .. Len(s)}

\* The send lock excludes: a call in the block it guards owns its user's lock
\* until its own lease runs out.  No fault, and no late release of a call that
\* has lost its lease, takes the lock from the call that took it over.
LeaseExclusion ==
  \A r \in Requests : Inside(r) /\ r \notin overran => lock[who[r]] = r

\* Whoever blocks a user's sends can be accounted for: the lock runs out, and
\* it belongs to a call of that user that is still running, or that ended
\* without a release because it failed, crashed or was refused its own lock.
HolderAccountable ==
  \A u \in Users : lock[u] # None =>
    /\ lockTtl[u] > 0
    /\ who[lock[u]] = u
    /\ \/ Active(lock[u])
       \/ pc[lock[u]] \in {"failed", "crashed"}
       \/ pc[lock[u]] = "rejected" /\ faults > 0

\* SPAM_LUA under concurrent calls: while the user's spam key lives, no more
\* than MaxSame equal fingerprints pass in a row.
SpamStreak ==
  \A u \in Users : \A i, j \in 1 .. Len(accepted[u]) :
    (i <= j /\ \A k \in i .. j : accepted[u][k] = accepted[u][j])
      => j - i < MaxSame

\* The answer tells the truth: 201 means stored, caches invalidated and
\* broadcast; 4xx means that the call left no row and no object, invalidated and
\* broadcast nothing, and queued no task.  (Its rate limit and its anti-spam count
\* remain.  A call that failed may have left any prefix of its effects.)
AnswerIsHonest ==
  \A r \in Requests :
    /\ pc[r] = "created" => r \in Elements(rows) \cap invalidated \cap Elements(published)
    /\ pc[r] = "rejected" => r \notin Elements(rows) \cup Elements(published)
                                      \cup objects \cup invalidated \cup queued

\* A message that is committed once, with its attachment in the bucket, and whose
\* invalidation of the cached pages has been completed.  (A reader that had queried
\* before the commit may cache its older page afterwards: see PageCache.)
Complete(r) ==
  /\ \E i \in 1 .. Len(rows) : \A j \in 1 .. Len(rows) : rows[j] = r <=> i = j
  /\ r \in invalidated
  /\ file[r] => r \in objects

\* A client that learns of a message from the broadcast can read it.
PublishedIsReadable == \A r \in Elements(published) : Complete(r)

\* As long as leases hold, the lock gives each user's messages to the
\* subscribers in the order in which the database stored them.
SerializedPerUser ==
  \A i, j \in 1 .. Len(rows), k, l \in 1 .. Len(published) :
    LET r == rows[i]
        s == rows[j] IN
    /\ i < j /\ who[r] = who[s] /\ {r, s} \cap overran = {}
    /\ published[k] = r /\ published[l] = s
    => k < l

\* Calls that are ending, or have ended, without the answer of their message;
\* files that no row names; copies of what was published before.
Lost == {r \in Requests : pc[r] \in {"unwind", "failed", "crashed"}}
LeftBehind == {r \in objects \ Elements(rows) : pc[r] # "commit"}
Copies(s) == {j \in 1 .. Len(s) : \E i \in 1 .. j - 1 : s[i] = s[j]}

\* A fault costs no more than one call its answer, whose file may then stay in
\* the bucket without a row, or the subscribers one copy too many.  Without a
\* fault no call fails, no file is left behind and nothing is broadcast twice,
\* whatever leases run out and whoever is refused.
FailuresArePaid ==
  Cardinality(Lost \cup LeftBehind) + Cardinality(Copies(published)) <= faults

\* Two calls of one user pass check_rate_limit at least RateLimit apart, even
\* when they run in different processes.
AdmissionSpacing ==
  [][\A r \in Requests : pc[r] = "rate" /\ pc'[r] = "spam"
       => sinceAdmit[who[r]] = RateLimit]_vars

\* Every call is answered, or dies with its process.
EveryCallEnds ==
  \A r \in Requests : pc[r] # "idle" ~> pc[r] \in Answered

\* The messages of u, in the order of the chat.
PostsOf(u) == LET OfU(r) == who[r] = u
                  mine == SelectSeq(rows, OfU)
              IN [i \in 1 .. Len(mine) |-> body[mine[i]]]

\* SpamDetectedException: "the same message cannot be sent more than two
\* times in a row".  What the script counts is attempts, not messages.
NoLongRunStored ==
  \A u \in Users : \A i \in 1 .. Len(PostsOf(u)) - MaxSame :
    \E k \in i .. i + MaxSame : PostsOf(u)[k] # PostsOf(u)[i]

\* The send lock is a lease lock: the phase of each call's token.
Phase(r) ==
  CASE who[r] # None /\ lock[who[r]] = r -> "held"
    [] pc[r] = "idle" -> "new"
    [] pc[r] \in Before /\ lock[who[r]] # r -> "waiting"
    [] Inside(r) /\ lock[who[r]] # r -> "lost"
    [] OTHER -> "done"

SendLock == INSTANCE LeaseLock WITH Names <- Users, Tokens <- Requests,
              name <- who, phase <- [r \in Requests |-> Phase(r)]
ImplementsLeaseLock == SendLock!Spec
==============================================================================
