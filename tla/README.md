# A verification of p312-chat

p312-chat is a public chat: FastAPI processes serve HTTP and WebSockets, PostgreSQL keeps users and
messages, Redis keeps sessions, rate limits, locks, cached pages, the Pub/Sub channel and the Celery
queue, S3 keeps attachments, and Celery workers make thumbnails, notifications and the hourly cleanup.
Any number of API processes and workers run the same code against the same three stores; almost every
rule of the chat is therefore a protocol between processes that share Redis keys. That protocol is what
these modules model: which keys are written in which order, what expires, what a failure leaves behind.

The TLA+ modules are translated from the code. TLC checks them on small instances; TLAPS proves the
main results for all instances. `PROJECT.json` maps every definition to its source lines and lists the
runs, mutants, findings, hazards and theorems.

    tlc -workers 2 -config Sends.cfg MCSendMessage.tla         # one run
    tlapm SendMessageProofs.tla                                # one module of proofs

## The system

| Part | State | Operations | What makes it correct |
|---|---|---|---|
| Sending (`MessageService.create_message`, `POST /messages`, a WebSocket text frame) | `ratelimit:messages:<u>`, `spam:<u>`, `lock:send:<u>`; rows; objects; what was published and queued | validate, rate limit, anti-spam, lock, upload, commit, invalidate, publish, dispatch, release | one call of a user at a time as long as leases hold; spacing; no long runs of one text; the answer tells what happened; what is broadcast can be read |
| Redis helpers (`app/core/redis.py`) | the same keys | `SET NX PX`, two Lua scripts, `SCAN`/`DEL` loop, `PUBLISH` | a lock has one holder, and a late release never frees the next holder's lock |
| Pages (`get_messages_page`) | `messages:page:<limit>:<before>`, 2 s each (`MESSAGE_CACHE_TTL_SECONDS`) | read through; every writer deletes all pages | a request is served a page of its own; an invalidation misses nothing; staleness ends |
| Sessions (`authenticate`, `validate_session`, `logout`, `logout_all`) | `session:<jti>`, `user_sessions:<id>` | three commands of a login, two of a logout, three of a revocation | the index lists all live sessions; a revocation ends all of them |
| Password reset | `ratelimit:password_reset:<n>`, `reset:<n>`, `reset_attempts:<n>`, `lock:password_reset:<n>`; the password hash | request, confirm | guesses at a code are bounded; a code works once; old passwords are out |
| Registration | table users and its sequence of ids | check, draw an id, insert and commit, refresh | one user per name; who is answered 201 owns the row |
| WebSocket fan-out (`ConnectionManager`, `redis_listener`) | sockets of a process, its subscription | connect, frame, broadcast, disconnect | every open socket hears what is published; a revoked session is out |
| Background tasks (`app/tasks`) | rows, objects, `chat:notifications` (at most 1000) | notify, thumbnail, hourly cleanup | rows and objects agree; a task done twice does no harm |
| Object storage | the bucket | upload, delete in batches, thumbnail | no row without its object |
| Beat bootstrap | `redbeat:bootstrap:v1` and a schedule entry | one check-then-save at each start | the cleanup is scheduled |
| Database sessions, pools | 20 + 10 connections a process; what a session's last failure left | check out, execute, commit, roll back, close; an open WebSocket has one session for all its frames | everyone is answered; a failure ends with what caused it; nothing is leaked |
| Health checks | a session each | `SELECT 1`, and calls to Redis and S3 | they recover when the database does |
| Browser client (`static/index.html`) | token, list of messages, one socket, one timer | load, older, append, reconnect | no message lost or doubled on screen; it reconnects |
| SQLite migration script | the same tables and sequences, while the chat is in use | copy users, copy messages, `setval` | a finished run is complete, also after one that died; the next ids are free |
| Notifications, schemas, settings, Alembic, Kubernetes | none of their own | read, declare | |

How the parts meet:

- Sending and the cleanup write rows and then delete all cached pages; readers fill pages in between.
- A message is published after its commit; every process's listener passes it to its own sockets.
- Sending queues `process_message`, which queues the notification and the thumbnail; a failure to queue
  is swallowed.
- A confirmed reset ends with `logout_all`, which meets logins that are half-way through their three commands.
- Sending and the reset use the same leased lock; the anti-spam count is taken before the lock.
- Requests, WebSockets and health checks of one process share one pool of connections; a WebSocket keeps its
  connection while it waits for its client.
- The migration script writes rows with ids of their own into the tables for which registrations and sends draw
  ids from sequences, and from which the cleanup deletes what is past retention, copied messages too.

What is hard here, and hardly reached by a test: a process that dies or is delayed at an `await` while other
processes use the same keys; a lease that runs out under its holder; a command whose answer is lost, or which
the Redis client sends again (redis-py 6 and later retries by default); keys that depend on each other and
expire on their own; the order commit, invalidate, publish; an outage that outlives a statement but not the
session; a script that dies between its copies and its `setval`. `PROJECT.json` lists these hazards line by
line, with the properties that cover them, or why none does yet.

## The modules

| Module | Models | Correspondence |
|---|---|---|
| `LeaseLock` | what `acquire_lock`/`release_lock` promise, abstractly | one token per attempt: new, waiting, held, lost (the lease ran out under it) or done |
| `SendMessage` | every call of `create_message`, by HTTP or WebSocket | `pc[r]` is the next awaited operation of call r. `Peek`, `CheckRate`, `CheckSpam`, `Acquire`, `Upload`, `Commit`, `Invalidate`, `Publish`, `Dispatch`, `Release` are those operations with the code up to the next one; `Release` at `"unwind"` is the `finally` block after an exception |
| `Broadcast` | what `redis_listener` and `ConnectionManager` promise, abstractly | a log of what the process has heard, and each client's stretch of it. `Fanout` implements it: a client has joined while it is connected and its handler serves it (`JoinedAt`), and is gone when its handler or its connection ends (`Departed`) |
| `Chat` | `SendMessage` and one listening process, of which only `Broadcast` is used | a message is numbered by its place in `published`; the process may hear of it late or never, and its clients come and go |
| `PageCache` | `get_messages_page`, the three writers of rows, and both invalidation loops | readers miss, query, set; writers commit, scan and delete; the database is a log of committed states |
| `Sessions` | login, logout, logout-all and a reset's use of it, for one user | `lpc[l]` and `rpc[v]` are the next Redis commands; a login stands for its jti |
| `PasswordReset` | request and confirmation for one user | `pc[c]` is the next awaited operation of confirmation c; `unanswered` are the codes whose `SET` got no answer and may be sent again (`Resend`), at any time after |
| `Fanout` | the WebSockets of one process and its Pub/Sub listener | `spc[s]` is what the handler of socket s awaits; `active` is `active_websockets`, `todo` the rest of the copy that `broadcast_local` walks, `inbox` what Redis has sent and the listener has not taken. The last `Send` of a broadcast also removes the dead, as the code does without another await |
| `Tasks` | the Celery tasks of `app/tasks/tasks.py`, `StorageService`, and of `create_message` what touches objects, rows and the queue | `sending[m]` is the next step of the call that sends m; `queue` counts the copies of each task the broker holds; `work[w]` is the step worker w is at (`process`, `processed`; `notify`, `push`, `trim`; `thumbnail`, `get`, `put`, `record`; `cleanup`, `delete`, `forget`) with the task's local variables. The broker acknowledges a task when it hands it over (Celery's default), so a worker that dies loses it |
| `DbPool` | the asynchronous engine and the sessions of one process | an actor is one WebSocket, request or health check at a time; `pc[a]` is the statement it awaits (`user`, `query`, `ping`, `commit`, `refresh`) or what it does without one; `conn[a]` is the connection its session holds, `broken` the sessions that wait for a rollback. `Checkout` is SQLAlchemy's, with the pre-ping; `Fail...` are the handlers of a statement's exception; `End` closes the session |
| `Accounts` | `register`, the ids that `create_message` draws, `migrate_data`, and `cleanup_old_messages` as far as it meets them | `rpc[r]` is the next operation of registration r, `spc` that of the script. PostgreSQL makes whoever inserts a name or an id that another open transaction holds wait for it, so a transaction's writes and its COMMIT are one step; the numbers are drawn before, and for good. `Run` starts the script, again if it has ended or died. `Cleanup` deletes any messages: the age of each is left open |
| `MC...` | symmetry and constants for TLC | |
| `...Proofs` | theorems | |

Keys with a TTL carry the ticks they have left; `Tick` is Redis's clock, and any number of steps may fall
between two ticks, so a lease can run out at any point of a call. `Forever` is the life of a key that was
made by `SADD` or `INCR` and has no TTL yet: between that command and the `EXPIRE` that follows it a process can die.

Failures, bounded by `MaxFaults`: `Raise` is an awaited operation that fails without being applied, an
exceptional outcome of the operation's own action is one that was applied with its answer lost, the third
outcome of a Redis command is its being sent again, and `Crash` is the end of the process, after which no
`finally` runs. `PageCache` needs no bound: its failures make no new states. In `DbPool` the failure is an
`Outage`, which cuts every open connection and refuses new ones until `Recover`; errors of a single
statement (a constraint, a deadlock) are not modelled there, and `pool_recycle` only makes an idle connection new.

Left out: message texts (a fingerprint is a value; two texts are equal or not), hashes (a code or a
password is equal or not), the size and type checks of a file (`Invalid`: a call may be refused there),
URLs, and other users where their keys are disjoint. The bucket is configured (`is_available`): without one no file
is accepted and nothing about objects happens.

Bounds in the guards: `MaxFaults`; `Tasks!Beat` queues at most `MaxBeats` cleanups; each call runs once, so
`Requests`, `Confirms`, `Logins`, `Revokers` bound the calls; `DbPool` has at most `MaxOutages` outages, and
`Capacity` stands for the 30 connections; `Accounts` draws no number beyond `MaxNumber`, none beyond `MaxPost`
for a message that is posted, and starts the script at most `MaxRuns` times; `PasswordReset!Request` draws no
more codes than `Codes`; one cleanup in `PageCache`, and one creation for each member of `Ids`.

History variables (declared as such) only record; no guard reads them: `sinceAdmit`, `accepted`,
`overran`, `commitAt`, an entry's `seen` and `after`, `raced`, `due`, `pending`, `compared`, `used`,
`straddled`, `heard`, `since`, `pushed`, `missed`, `doomed`, `deleted`, `late`, `excused`, `synced`,
`expired`.

## What the runs show

| Run | Instance | Shows |
|---|---|---|
| `sends` | 1 user, 2 calls, 2 texts, lock 2 ticks, 1 fault, fairness | `LeaseExclusion`: a call inside the locked block owns the lock until its own lease runs out, whoever releases late. `HolderAccountable`: a lock in the way has a life and a known reason. `SpamStreak`: the script's count holds across processes. `SerializedPerUser`: subscribers get a user's messages in commit order. `AdmissionSpacing`: two calls pass the rate limit a full interval apart. `AnswerIsHonest`: 201 means stored, invalidated and broadcast, 4xx means no row, object, invalidation, broadcast or task (its rate limit and its anti-spam count stay, which finding 1 rests on). `PublishedIsReadable`: what is broadcast is committed once, its file is in the bucket and its invalidation of the cached pages was completed. `ImplementsLeaseLock`: the send lock refines `LeaseLock`. `FailuresArePaid`: each fault costs one call its answer, with a file left behind at most, or the subscribers one copy too many; without a fault nothing is lost, left or doubled. `EveryCallEnds` |
| `send_streak` | violation | `NoLongRunStored`: finding 1 |
| `pages` | 1 reader, 2 ids, 2 creations, a cleanup, thumbnails, fairness | `ServedPagesWereTrue`: a page served for a request is what the database answered to that request at some commit. `NoMissedPage`: an invalidation misses no page cached before it; what is left was set behind its back. `CacheConverges`: once the rows rest, so do the pages, whatever was missed |
| `pages_zero` | violation | `ServedPagesWereTrue` with `before_id=0`: finding 2 |
| `sessions_safe` | 2 logins, 2 revocations, TTL 2, 1 fault | `SessionsListed`: a token that is still valid is listed, also when its logout stopped half-way. `LogoutAllComplete`, `OldPasswordsAreOut`: who is out after a revocation. Each has its exception named (below) |
| `sessions_all` | violation | `AllSessionsRevoked`: finding 3 |
| `resets` | 4 confirmations, 2 codes, limit 2, 1 fault, leases hold | `GuessesBounded`: the limit holds for each life of a code, and only a fault (its `SET` sent again) gives it another. `CodeSingleUse`: a code works once, and once more at most for each fault (a commit whose answer was lost leaves the code in Redis, a resent `SET` brings it back) |
| `fanout` | 2 sockets, 2 messages, 1 fault, fairness | `ImplementsBroadcast`: handlers, listener and broadcasts do what `Broadcast` says: a connected client is given one stretch of what is heard, without a gap, from the moment it joined, and nothing new is taken up before all who stayed have the last. `EveryoneHears`: what has reached the process reaches each of its clients |
| `fanout_revoked` | violation | `RevokedAreOut`: finding 4 |
| `tasks` | an image and a text, 2 workers, list of 1, batch of 1, 1 cleanup, 1 fault, fairness | `RowsHaveObjects`: what a row names is in the bucket, unless a cleanup has read the row. `OnlyLateThumbnailsRemain`: when nothing fails, the files of deleted messages are gone, and their thumbnails unless recorded after the cleanup had read the message. `NotFoundIsDeleted`: no task overtakes its commit. `NewestKept`: the list is that of the newest notifications, too long only by pushes not trimmed yet. `NotifiedOnce`: a message is notified once, and once more at most for each fault. `EachIsNotified` |
| `pool` | 2 WebSockets, 1 request, 1 health check, 2 connections, 1 outage, fairness | `FailuresHaveReasons`: a session fails only for an outage in its own life, or when others really held all connections while it waited: what an outage or earlier tasks left behind reaches no new session. `EveryoneAnswered`: quiet WebSockets may hold the whole pool, and still every request, health check and frame is answered. `HealthReturns`: once the database is back and WebSockets leave room, the health checks succeed again and again |
| `accounts` | 2 registrations, 3 names, old ids 1 and 3, 2 old messages, posts up to number 3, cleanups, 2 runs, 1 fault | `AccountsAreTrue`: a name has one owner, and who was answered 201 owns the row. `CopyComplete`: a finished script has copied everything, also after one that died, and of the messages only what a cleanup has deleted since is missing. `NumbersFresh`: after a `setval` during which nobody registered, no registration fails for its number |

Why the bounds are enough. Two calls of one user are one inside the lock and one that takes it over after the
lease and meets the late release of the first; a third adds an order of the same steps, and the theorems are
for any number. Two is the smallest text alphabet in which a run breaks. One user is enough, since the keys of
two never mix (the theorems are for any users). Two ids and two values of `before_id` make pages of different
content under the same limit. Two logins and two revocations are the smallest instance in which a session
slips out of the index during one revocation and is missed by the next. Four confirmations against a limit of
two are the smallest in which a counter that is not renewed ends within the life of a code: one confirmation
starts it before the code is drawn, three meet the code. Two sockets and two messages are a socket that joins,
leaves or fails while another is still to be sent to, and a broadcast that follows it. Two workers are one
that draws a thumbnail while the other cleans up, or two between `LPUSH` and `LTRIM`; a list and a batch of
one are full with the first message and make two requests of its two objects. Two cleanups at once are beyond
the run, and only the theorems speak of them. Two connections and two WebSockets are a pool that is full
with quiet WebSockets while a request and a health check wait. Two registrations can ask for one
name or for two, the old ids leave a gap that a live account can take, and two runs are one that dies and one
that finishes, or one that overwrites what the other left. TTLs of one or two ticks make every order of
expirations possible.

`resets` has the constraint `InTime`: `GuessesBounded` and `CodeSingleUse` suppose that no confirmation outlived its
lease, so behaviours past that point are cut there. A lease that runs out under its holder is explored for the
send lock, which uses the same two helpers, by `sends`, and the theorems about the reset are
about all behaviours.

`CHECK_DEADLOCK FALSE` everywhere but in `pool`, where a client or a probe can always come next: elsewhere
calls are finite, and when all have ended and all keys have expired nothing is left to do.

The exceptions. `SessionsListed` and `LogoutAllComplete` exempt `raced` logins: those that ran their `SADD`
while some `logout_all` stood between `SMEMBERS` and the `DEL` of the index, and those whose index ran out
between `SADD` and `EXPIRE`. `OldPasswordsAreOut` also exempts `pending` logins: those that had shown the old
password and not yet reached `SADD` when the revocation read the index: such a login opens a session that
outlives the password change, although the code means to "Invalidate all user sessions upon password change".
Finding 3 and this race are the exceptions; the properties show there are no others. In `PasswordReset`,
`straddled` names two: a confirmation whose counter expired between its `INCR` and its `EXPIRE`, and one that
counted its attempt before the code was stored, or stored again, and read it after. In `Tasks`,
`RowsHaveObjects` exempts the messages a cleanup has read (`doomed`): it deletes the objects before it commits,
so for a moment, or until the next cleanup if it fails, their rows name objects that are gone.
`OnlyLateThumbnailsRemain` names the one thing that is left behind without any failure (`late`): a thumbnail
that was recorded after the cleanup had read its message, and so without the thumbnail's key. `AccountsAreTrue`
exempts an account whose number the script also copies: the script overwrites the row, name and password.
`CopyComplete` counts a message as copied when its number is taken by a live one: the script skips the old one
without a word; and it excepts the messages that a cleanup has deleted since this run copied them (`expired`):
the script copies `created_at`, so an old message may be past retention as soon as it is copied. The next run
copies it again. `NoMissedPage` excepts pages that are set after the scan has begun, such as the older page of a
reader that had queried before the commit: `CacheConverges` bounds these. `NumbersFresh` speaks of a `setval`
that met no registration between drawing its number and its COMMIT: `MAX(id)` does not see that one. That a
second run also brings back the old passwords of copied users is not in the model, which has no passwords.

Fairness. `Fanout!Fairness` asks that the listener takes what has arrived and that handlers and sends go on: a
send to a client that does not read is ended by the server's ping timeout. Clients, frames, new connections
and reconnections to Redis are not fair. `Tasks!Fairness` asks that workers take tasks and go through them,
and that a call which has committed gets to its `delay`; new messages, age and Beat are not fair.
`DbPool!Fairness` asks that a statement returns or raises (the wait for a connection ends with `pool_timeout`,
and the pool serves its queue in order), that a request ends, and that the orchestrator goes on probing;
WebSockets may stay quiet for ever, and the database need not come back. `SendMessage!Fairness` and
`PageCache!Fairness` ask for weak fairness of `Tick` (Redis expires keys whatever clients do) and of the steps
of each running call or reader. Upload, commit and, once connected, the commands of the asynchronous Redis client
(`redis.py:45-49` sets no `socket_timeout`) have no time limit in the code; that each await returns or raises is
the one thing taken from outside it, from the sockets' own timeouts. Crashes and errors are never fair, so
nothing relies on one, and new calls are not either. `CacheConverges` needs no fairness of any writer: a
page's own life suffices.

### Findings

1. `send_streak`: the anti-spam script counts attempts. An attempt with another text that is then refused by
   the send lock resets the count, and one equal message more than `MAX_CONSECUTIVE_SAME_MESSAGES` is stored
   in a row. The exception says the same message must not be sent more than twice in a row (`redis.py:104`).
2. `pages_zero`: `before_id or 0` gives `before_id=0` the cache key of the first page, so each of the two is
   served the other's page.
3. `sessions_all`: `logout_all` deletes the whole index. A login that was listed after `SMEMBERS` is issued
   a session that is in no index, and no later `logout_all` ends it ("Revoke all active sessions for the user").
4. `fanout_revoked`: a socket's session is validated when it connects and never again, so a revoked session goes
   on sending and receiving ("Register session in Redis for instant invalidation support", `auth_service.py:68`).

## What is proved

For all values of the constants allowed by the named assumptions (TTLs and limits are positive, `None` is not
a user, call or text, ids and workers are finite):

| Theorem | Says | Argument |
|---|---|---|
| `SendMessageProofs!TypeCorrect` | types | one step per action |
| `...!Exclusion` | `LeaseExclusion` | inductive with the types, because `SET NX` takes a free lock only, `Release` compares tokens and `Tick` records whose lease it ends |
| `...!Accountable` | `HolderAccountable` | `HolderInv`: a lock is held exactly while it has life, by a call of its user that has reached the lock. A call that was refused can only hold it through a resent command, hence `faults > 0` |
| `...!Spacing` | `AdmissionSpacing` | `SpacingInv`: the key's life and the time since the last admission add up to the interval at least |
| `...!Streak` | `SpamStreak` | `StreakInv`: the script's counter is the length of the last run of what it accepted, or the run is over the limit and it accepts no more of it. `AppendRuns` carries it over an append |
| `...!Honest`, `!Readable` | `AnswerIsHonest`, `PublishedIsReadable` | `StageInv`: the step a call is at tells what it has stored, invalidated and broadcast, and nothing is stored twice |
| `...!Serialized` | `SerializedPerUser` | `SerialInv`, with `LeaseExclusion` and `StageInv`: once a later message of the same user is stored, the call of the earlier one is no longer inside, so it publishes no more |
| `...!Paid` | `FailuresArePaid` | `PaidInv`: calls that are failing or have failed, calls that are about to publish again, and copies that were published, are together no more than the faults (`Bill`); `LeftBehindIsLost`: a file without a row belongs to one of those calls |
| `...!WhatIsShownIsReadable` | `Chat!ShownIsReadable`: whoever is shown a message, at once or late, finds it committed once and its file in the bucket, after its invalidation of the cached pages | `Readable`, since whatever is given to a client has been published (`Drawn`) |
| `...!ShownInOrder` | `Chat!ShownInTurn`: every client sees a user's messages in the order of their commits, as far as leases hold | `Serialized` on the senders' side, and `HubInOrder` (`Stretches`: the log rises, and a client has a stretch of it) on the listener's |
| `...!ShownOnlyOnce` | `Chat!ShownOnce`: no client is shown more copies than there were faults | `CopiesShown` injects the copies a client is shown into those that were published, which `PaidInv` bounds |
| `...!Implements` | `Spec => SendLock!Spec` | `PhaseTable` ties each step of a call to the phase of its token; each action maps to a `LeaseLock` action or a stutter, `Tick` to `Lapse` |
| `...!Exclusive` | one holder per lock, of any implementation of `LeaseLock` | inductive with the types |
| `PageCacheProofs!TypeCorrect`, `SessionsProofs!TypeCorrect`, `FanoutProofs!TypeCorrect` | types | one step per action |
| `PageCacheProofs!NothingMissed` | `NoMissedPage` | `ScanInv`: for a scanning writer a page is owed by `SCAN`, or newer than the commit, or set after the scan began |
| `PageCacheProofs!PagesAreTrue` | `ServedPagesWereTrue` when 0 is not a `before_id` | `TrueInv`: every entry, and every page a reader holds, is the query's answer at the logged state; without 0 the cache key determines the request. The log only grows |
| `SessionsProofs!Listed`, `!Complete`, `!OldOut` | the three properties of `sessions_safe` | `Inv`: an index has a life exactly when it is not empty; it outlives what it lists; `seen`, `due` and `pending` tell which sessions a revocation will still delete; a revoked session does not come back |
| `FanoutProofs!Implements` | `Spec => Hub!Spec`, that is `ImplementsBroadcast` | `StepMaps`: taking a message maps to `Hear`, a send to `Deliver`, the rest to `Join`, `Leave` or a stutter. It needs `ListInv` and `SkipInv` (a listed client lacks the message being sent, or nothing), `OrderInv` (what was heard is older than what is in the inbox) and `ClosedInv` (who has left is not listed again) |
| `...!InOrder` | `Hub!GivenInOrder`: no client, connected or gone, was given a message twice or an older one after a newer one | proved of `Broadcast`, and so of whatever implements it |
| `FanoutProofs!Delivered` | `NothingSkipped` | with `FreshInv` (who has not joined has received nothing) and `ListInv`: each listed, connected client is as many messages behind as it has sends outstanding, none or one |
| `FanoutProofs!Listed` | `ListedWhileServed` | `ListInv`: what a broadcast holds for dead is not connected |
| `TasksProofs!TypeCorrect`, `!NotFound` | types, `NotFoundIsDeleted` | `Inv`: `WorkInv` and `QueueInv` say that a task that waits or runs is about a message whose row was committed (`Stored`: it is there or was deleted), and `Stored` only grows |
| `TasksProofs!Attached` | `RowsHaveObjects` | `ObjInv`: also a worker about to record a thumbnail has put it, and what a cleanup is to delete belongs to messages it has read |
| `TasksProofs!Newest` | `NewestKept` | inductive with the types: a push adds its worker to `Trimmers`, and whoever leaves that set has trimmed or failed |
| `TasksProofs!Once` | `NotifiedOnce` | `OnceInv`: for each message, the call that will queue it, the copies of its two tasks, the workers that carry it towards a push and the pushes are together no more than one plus the faults, for only a fault makes a second of any |
| `TasksProofs!LeftBehind` | `OnlyLateThumbnailsRemain`, for any number of cleanups | `LateInv`: without a failure, files without a row are those of a call that has not committed, thumbnails that no row names are about to be recorded or late, and a cleanup has deleted the objects of whatever it is about to forget, late thumbnails excepted |
| `PasswordResetProofs!TypeCorrect`, `!Guesses` | types, `GuessesBounded` | `LeaseInv`: one confirmation is inside. `GuessInv`: from the first guess in a life of a code on, the counter is as high as the guesses of that life and outlives the code, since whoever is compared has renewed it after the code was stored; whoever is about to be compared was counted above all guesses before. `Lives` counts the lives that faults have begun, `Past` the guesses of those that are over, `MaxAttempts` each at most |
| `...!SingleUse` | `CodeSingleUse` | `UseInv`: a code that can still be tried, is about to be used or may be sent again has been used once for each fault at most, unless the one confirmation inside is about to delete it |
| `...!Implements` | `Spec => ResetLock!Spec` | as for the send lock |
| `DbPoolProofs!TypeCorrect`, `!Reasonable` | types, `FailuresHaveReasons` | `Inv`: with `Reasons`, a connection that is cut belongs to an excused session, and while the database is down so does every running one; `FullIsCrowd`: who is refused for want of a connection stands before `Capacity` others |
| `DbPoolProofs!Accounted` | only running tasks hold connections, `Capacity` at most, and live ones only while the database lives | `Bounded`: a step adds one actor to those that hold a connection, and only when there is room |
| `AccountsProofs!TypeCorrect`, `!AnswersTrue`, `!Complete`, `!Fresh` | types, `AccountsAreTrue`, `CopyComplete`, `NumbersFresh`, for any registrations, sources, runs and faults | `OwnRows`: a row inserted for a registration stays its own, or becomes a copy; without `NameClash` an upsert leaves names unique. `CopyInv`: what the script has copied stays, whoever posts or registers, but for what a cleanup has deleted. `HeldInv`: since the quiet `setval` no row and no held number is past the sequence, which then only grows until the next |

Each `Inv` strengthens its property by what an earlier command of the same call has established; the property
alone is not inductive because a session or page is written several steps before it counts.

Only model-checked: liveness (`EveryCallEnds`, `CacheConverges`, `EveryoneHears`,
`EachIsNotified`, `EveryoneAnswered`, `HealthReturns`), which is out of the prover's reach. Only proved: `FanoutProofs!Delivered` and
`!Listed`, which the refinement that `fanout` checks rests on, and the theorems about `Chat`, whose states are
those of `SendMessage` times those of a process. With the constants of `Sends.cfg` and one client TLC finds its
three properties true of all 7,262,243 states, which takes longer than a run here may; the halves it is composed
of are checked by `sends` and `fanout`.

## Order, and what is not modelled

The modules were written in the order of what users rely on most: what a send does (`LeaseLock`,
`SendMessage`), what a reader sees (`PageCache`), who is logged in (`Sessions`, `PasswordReset`), who hears of
it (`Fanout` with `Broadcast`, `Chat`), what is left in the bucket (`Tasks`), and what all of it stands on (`DbPool`, `Accounts`).

Not modelled:

- The browser client: one script in one page that shares nothing with other clients. No document says what its
  list or its reconnection promise. Its two weak points are listed as hazards: a timer that is cleared and not
  reset, and a page that replaces messages which came meanwhile.
- The Beat bootstrap: one check-then-save at start. Processes that race save the same entry under the same name, and a
  flag without its entry needs Redis to lose one key and keep the other.
- The notifications endpoint: one read of the list that `Tasks` writes. The parts of the health check that ask Redis and S3.
- Schemas, formatting, settings other than those that are constants of a module, Docker and Kubernetes
  files (declarations); of Alembic only the tables and the unique index it makes. The layout of the client.
- The synchronous engine of the Celery workers: a worker has one session at a time, so its pool never runs short.
