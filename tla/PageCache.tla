------------------------------ MODULE PageCache ------------------------------
(***************************************************************************)
(* GET /messages: the pages that MessageService.get_messages_page caches   *)
(* in Redis, while create_message, process_file_thumbnail and              *)
(* cleanup_old_messages change the messages under it.                      *)
(*                                                                         *)
(* A message is its id, which the database allocates in order although     *)
(* messages commit in any order; a page is a set of <<id, has a            *)
(* thumbnail>>, its order being that of the ids.  The database is a log of *)
(* committed states, so that a page can be held against an earlier one.    *)
(***************************************************************************)
EXTENDS Integers, Sequences, FiniteSets

CONSTANTS Readers,   \* concurrent GET /messages
          Ids,       \* message ids
          Limits,    \* values of the query parameter limit
          Befores,   \* values of before_id, None when it is absent
          None, Cleanup,
          CacheTtl   \* MESSAGE_CACHE_TTL_SECONDS, in ticks

ASSUME IdsAssumption == Ids \subseteq Nat \ {0} /\ IsFiniteSet(Ids)
ASSUME RequestAssumption == /\ Limits \subseteq Nat \ {0}
                            /\ Befores \subseteq Int \cup {None}
ASSUME PageTtlAssumption == CacheTtl \in Nat \ {0}

VARIABLES
  log,             \* the committed states of the table messages, oldest first
  cache, ttl,      \* messages:page:*: None or an entry; remaining life
  rpc, asked, page,   \* each reader: next step, its request, the page it queried
  wpc,             \* each writer: next step
  todo,            \* each writer: keys that SCAN still owes it
  commitAt         \* history: the place in log of each writer's commit

readers == <<rpc, asked, page>>
writers == <<wpc, todo, commitAt>>
vars == <<log, cache, ttl, readers, writers>>

\* create_message writes under the id of its message.
Writers == Ids \cup {Cleanup}
Requests == [limit : Limits, before : Befores]

\* Mutant: a key that leaves before_id out.
CacheKeyOfLimit(q) == [limit |-> q.limit, before |-> 0]

\* f"messages:page:{limit}:{before_id or 0}"
CacheKey(q) == [limit |-> q.limit, before |-> IF q.before = None THEN 0 ELSE q.before]
Keys == {CacheKey(q) : q \in Requests}

\* SELECT ... WHERE id < before_id ORDER BY id DESC LIMIT limit
Query(db, q) ==
  LET below == {m \in db.rows : q.before # None => m < q.before}
      newest == {m \in below : Cardinality({n \in below : n > m}) < q.limit}
  IN {<<m, m \in db.thumbs>> : m \in newest}

Now == log[Len(log)]
Pages == SUBSET (Ids \X BOOLEAN)

\* An entry: the page, and as history the state it was queried from and the
\* writers that were already invalidating when it was SET.
Entries == [page : Pages, seen : Nat, after : SUBSET Writers]

TypeOK ==
  /\ log \in Seq([rows : SUBSET Ids, thumbs : SUBSET Ids]) /\ Len(log) > 0
  /\ cache \in [Keys -> Entries \cup {None}]
  /\ ttl \in [Keys -> 0 .. CacheTtl]
  /\ rpc \in [Readers -> {"idle", "query", "set"}]
  /\ asked \in [Readers -> Requests \cup {None}]
  /\ page \in [Readers -> [page : Pages, seen : Nat] \cup {None}]
  /\ wpc \in [Writers -> {"idle", "start", "scan", "done", "failed"}]
  /\ todo \in [Writers -> SUBSET Keys]
  /\ commitAt \in [Writers -> Nat]

Init ==
  /\ log = <<[rows |-> {}, thumbs |-> {}]>>
  /\ cache = [k \in Keys |-> None]
  /\ ttl = [k \in Keys |-> 0]
  /\ rpc = [r \in Readers |-> "idle"]
  /\ asked = [r \in Readers |-> None]
  /\ page = [r \in Readers |-> None]
  /\ wpc = [w \in Writers |-> "idle"]
  /\ todo = [w \in Writers |-> {}]
  /\ commitAt = [w \in Writers |-> 0]

------------------------------------------------------------------------------
(* get_messages_page *)

\* GET finds no page.  (A hit is answered at once and changes nothing.)
Miss(r, q) ==
  /\ rpc[r] = "idle"
  /\ cache[CacheKey(q)] = None
  /\ rpc' = [rpc EXCEPT ![r] = "query"]
  /\ asked' = [asked EXCEPT ![r] = q]
  /\ UNCHANGED <<log, cache, ttl, page, writers>>

ReadRows(r) ==
  /\ rpc[r] = "query"
  /\ rpc' = [rpc EXCEPT ![r] = "set"]
  /\ page' = [page EXCEPT ![r] = [page |-> Query(Now, asked[r]), seen |-> Len(log)]]
  /\ UNCHANGED <<log, cache, ttl, asked, writers>>

Cached == {k \in Keys : cache[k] # None}

\* Keys go; no SCAN owes them any longer.
Drop(keys) ==
  /\ cache' = [k \in Keys |-> IF k \in keys THEN None ELSE cache[k]]
  /\ todo' = [w \in Writers |-> todo[w] \ keys]

Forget(r) ==
  /\ rpc' = [rpc EXCEPT ![r] = "idle"]
  /\ asked' = [asked EXCEPT ![r] = None]
  /\ page' = [page EXCEPT ![r] = None]

Invalidating == {w \in Writers : wpc[w] \in {"scan", "done"}}

\* Mutant: SET without EX.
SetForever(r) ==
  /\ rpc[r] = "set"
  /\ cache' = [cache EXCEPT ![CacheKey(asked[r])] =
                 [page |-> page[r].page, seen |-> page[r].seen, after |-> Invalidating]]
  /\ Forget(r)
  /\ UNCHANGED <<log, ttl, writers>>

\* SET EX, whatever was cached or invalidated since ReadRows.
Set(r) ==
  /\ rpc[r] = "set"
  /\ cache' = [cache EXCEPT ![CacheKey(asked[r])] =
                 [page |-> page[r].page, seen |-> page[r].seen, after |-> Invalidating]]
  /\ ttl' = [ttl EXCEPT ![CacheKey(asked[r])] = CacheTtl]
  /\ Forget(r)
  /\ UNCHANGED <<log, writers>>

\* An error or a crash ends the request; nothing has to be undone.
FailRead(r) ==
  /\ rpc[r] # "idle"
  /\ Forget(r)
  /\ UNCHANGED <<log, cache, ttl, writers>>

------------------------------------------------------------------------------
(* The writers *)

CommitAs(w, db) ==
  /\ wpc[w] = "idle"
  /\ log' = Append(log, db)
  /\ commitAt' = [commitAt EXCEPT ![w] = Len(log) + 1]
  /\ wpc' = [wpc EXCEPT ![w] = "start"]
  /\ UNCHANGED <<cache, ttl, readers, todo>>

\* create_message commits message m.
Create(m) == CommitAs(m, [Now EXCEPT !.rows = @ \cup {m}])

\* cleanup_old_messages deletes what is older than the retention time.
DeleteOld ==
  \E last \in Now.rows :
    CommitAs(Cleanup, [rows |-> {m \in Now.rows : m > last},
                       thumbs |-> {m \in Now.thumbs : m > last}])

\* process_file_thumbnail updates a row and leaves the cached pages alone.
AddThumbnail ==
  /\ \E m \in Now.rows \ Now.thumbs :
       log' = Append(log, [Now EXCEPT !.thumbs = @ \cup {m}])
  /\ UNCHANGED <<cache, ttl, readers, writers>>

\* Mutant: one SCAN call, whatever its cursor.
ScanOnce(w) ==
  /\ wpc[w] = "start"
  /\ wpc' = [wpc EXCEPT ![w] = "scan"]
  /\ UNCHANGED <<log, cache, ttl, readers, todo, commitAt>>

\* invalidate_message_cache: SCAN returns, over all its calls, every key that
\* is there from the first call to the last.
StartScan(w) ==
  /\ wpc[w] = "start"
  /\ wpc' = [wpc EXCEPT ![w] = "scan"]
  /\ todo' = [todo EXCEPT ![w] = Cached]
  /\ UNCHANGED <<log, cache, ttl, readers, commitAt>>

\* SCAN and the DEL of what it returned: no step of another process between
\* the two makes a difference.  The loop ends with cursor 0.
ScanAndDelete(w) ==
  /\ wpc[w] = "scan"
  /\ \E keys \in SUBSET Cached :
       /\ Drop(keys)
       /\ ttl' = [k \in Keys |-> IF k \in keys THEN 0 ELSE ttl[k]]
  /\ \/ UNCHANGED wpc
     \/ todo'[w] = {} /\ wpc' = [wpc EXCEPT ![w] = "done"]
  /\ UNCHANGED <<log, readers, commitAt>>

\* An error or a crash after the commit: the other pages stay as they are.
FailInvalidate(w) ==
  /\ wpc[w] \in {"start", "scan"}
  /\ wpc' = [wpc EXCEPT ![w] = "failed"]
  /\ todo' = [todo EXCEPT ![w] = {}]
  /\ UNCHANGED <<log, cache, ttl, readers, commitAt>>

\* Mutant: a life that goes on below zero.
TickUnclamped ==
  /\ Cached # {}
  /\ ttl' = [k \in Keys |-> ttl[k] - 1]
  /\ Drop({k \in Keys : ttl[k] = 1})
  /\ UNCHANGED <<log, readers, wpc, commitAt>>

Tick ==
  /\ Cached # {}
  /\ ttl' = [k \in Keys |-> IF ttl[k] > 0 THEN ttl[k] - 1 ELSE 0]
  /\ Drop({k \in Keys : ttl[k] = 1})
  /\ UNCHANGED <<log, readers, wpc, commitAt>>

Read(r) == ReadRows(r) \/ Set(r)
Invalidate(w) == StartScan(w) \/ ScanAndDelete(w)

Next == \/ \E r \in Readers : \/ \E q \in Requests : Miss(r, q)
                              \/ Read(r) \/ FailRead(r)
        \/ \E m \in Ids : Create(m)
        \/ DeleteOld \/ AddThumbnail
        \/ \E w \in Writers : Invalidate(w) \/ FailInvalidate(w)
        \/ Tick

Spec == Init /\ [][Next]_vars

\* Redis expires keys, and an awaited operation returns or raises.
Fairness == WF_vars(Tick) /\ \A r \in Readers : WF_vars(Read(r))
FairSpec == Spec /\ Fairness

------------------------------------------------------------------------------
(* What must hold *)

\* What a request would be served from the cache is what the database would
\* have answered to that very request when the page was queried: no request is
\* served a page of another one.
ServedPagesWereTrue ==
  \A q \in Requests :
    LET hit == cache[CacheKey(q)] IN
    hit # None => hit.page = Query(log[hit.seen], q)

\* A completed invalidation misses nothing: a page from before the commit that
\* is cached after it was SET behind the invalidation's back, by a reader that
\* had queried before the commit.
NoMissedPage ==
  \A w \in Writers, k \in Keys : wpc[w] = "done" /\ cache[k] # None =>
    cache[k].seen >= commitAt[w] \/ w \in cache[k].after

\* Whatever was cached behind an invalidation's back, or survived a failed one,
\* or lacks a thumbnail: in the end the cached pages are those of the database.
CacheConverges ==
  <>[](\A k \in Keys : cache[k] # None => cache[k].seen = Len(log))
==============================================================================
