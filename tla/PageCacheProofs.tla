--------------------------- MODULE PageCacheProofs ---------------------------
(***************************************************************************)
(* What TLAPS proves of PageCache, for any readers, messages, limits and   *)
(* cache life.                                                             *)
(***************************************************************************)
EXTENDS PageCache, TLAPS

\* A request being served has its parameters, and its page once it was queried.
ReadersInv ==
  \A r \in Readers : /\ rpc[r] # "idle" => asked[r] \in Requests
                     /\ rpc[r] = "set" => page[r] \in [page : Pages, seen : Nat]

\* A query returns a page.
LEMMA QueryType ==
  ASSUME NEW db, db.rows \subseteq Ids, NEW q
  PROVE  Query(db, q) \in Pages
<1>1. ASSUME NEW m \in Ids PROVE <<m, m \in db.thumbs>> \in Ids \X BOOLEAN
  <2>1. ASSUME NEW b \in BOOLEAN PROVE <<m, b>> \in Ids \X BOOLEAN
    OBVIOUS
  <2>2. (m \in db.thumbs) \in BOOLEAN
    OBVIOUS
  <2> QED BY <2>1, <2>2
<1> QED BY <1>1 DEF Query, Pages

\* What a log holds.
LEMMA LogEntry ==
  ASSUME NEW S, NEW s \in Seq(S), NEW i \in 1 .. Len(s)
  PROVE  s[i] \in S
  OBVIOUS

\* The database is at one of the logged states.
LEMMA NowType ==
  ASSUME TypeOK
  PROVE  /\ Now \in [rows : SUBSET Ids, thumbs : SUBSET Ids]
         /\ Len(log) \in Nat \ {0}
<1>1. log \in Seq([rows : SUBSET Ids, thumbs : SUBSET Ids]) /\ Len(log) > 0
  BY DEF TypeOK
<1>2. Len(log) \in Nat /\ Len(log) \in 1 .. Len(log)
  BY <1>1
<1>3. log[Len(log)] \in [rows : SUBSET Ids, thumbs : SUBSET Ids]
  BY <1>1, <1>2, LogEntry
<1> QED BY <1>1, <1>2, <1>3 DEF Now

\* A commit extends the log.
LEMMA AppendType ==
  ASSUME TypeOK, NEW db \in [rows : SUBSET Ids, thumbs : SUBSET Ids],
         log' = Append(log, db)
  PROVE  log' \in Seq([rows : SUBSET Ids, thumbs : SUBSET Ids]) /\ Len(log') > 0
  BY DEF TypeOK

\* Every request has a key.
LEMMA KeyOf ==
  ASSUME NEW q \in Requests
  PROVE  CacheKey(q) \in Keys
  BY DEF Keys

\* Every step keeps every variable's type.
LEMMA TypeNext == TypeOK /\ ReadersInv /\ [Next]_vars => TypeOK' /\ ReadersInv'
<1> SUFFICES ASSUME TypeOK, ReadersInv, [Next]_vars PROVE TypeOK' /\ ReadersInv'
  OBVIOUS
<1> USE IdsAssumption, PageTtlAssumption
<1>1. ASSUME NEW r \in Readers, NEW q \in Requests, Miss(r, q)
      PROVE TypeOK' /\ ReadersInv'
  BY <1>1 DEF Miss, TypeOK, ReadersInv, writers
<1>2. ASSUME NEW r \in Readers, ReadRows(r) PROVE TypeOK' /\ ReadersInv'
  <2>1. [page |-> Query(Now, asked[r]), seen |-> Len(log)] \in [page : Pages, seen : Nat]
    BY NowType, QueryType
  <2>2. page' \in [Readers -> [page : Pages, seen : Nat] \cup {None}]
    BY <1>2, <2>1 DEF ReadRows, TypeOK
  <2>3. TypeOK'
    BY <1>2, <2>2 DEF ReadRows, TypeOK, writers
  <2>4. page'[r] \in [page : Pages, seen : Nat]
    BY <1>2, <2>1 DEF ReadRows, TypeOK
  <2> QED BY <1>2, <2>3, <2>4 DEF ReadRows, TypeOK, ReadersInv, writers
<1>3. ASSUME NEW r \in Readers, Set(r) PROVE TypeOK' /\ ReadersInv'
  <2>1. rpc[r] = "set" /\ asked[r] \in Requests /\ page[r] \in [page : Pages, seen : Nat]
    BY <1>3 DEF Set, ReadersInv, TypeOK
  <2>2. CacheKey(asked[r]) \in Keys
    BY <2>1, KeyOf
  <2>3. [page |-> page[r].page, seen |-> page[r].seen, after |-> Invalidating] \in Entries
    BY <2>1 DEF Entries, Invalidating
  <2>4. cache' \in [Keys -> Entries \cup {None}] /\ ttl' \in [Keys -> 0 .. CacheTtl]
    BY <1>3, <2>2, <2>3 DEF Set, TypeOK
  <2>5. /\ rpc' \in [Readers -> {"idle", "query", "set"}]
        /\ asked' \in [Readers -> Requests \cup {None}]
        /\ page' \in [Readers -> [page : Pages, seen : Nat] \cup {None}]
        /\ ReadersInv'
    BY <1>3 DEF Set, Forget, TypeOK, ReadersInv
  <2> QED BY <1>3, <2>4, <2>5 DEF Set, TypeOK, writers
<1>4. ASSUME NEW r \in Readers, FailRead(r) PROVE TypeOK' /\ ReadersInv'
  BY <1>4 DEF FailRead, Forget, TypeOK, ReadersInv, writers
<1>5. ASSUME NEW w \in Writers, NEW db \in [rows : SUBSET Ids, thumbs : SUBSET Ids],
             CommitAs(w, db)
      PROVE TypeOK' /\ ReadersInv'
  <2>1. log' \in Seq([rows : SUBSET Ids, thumbs : SUBSET Ids]) /\ Len(log') > 0
    BY <1>5, AppendType DEF CommitAs
  <2>2. Len(log) + 1 \in Nat
    BY NowType
  <2> QED BY <1>5, <2>1, <2>2 DEF CommitAs, TypeOK, ReadersInv, readers
<1>6. ASSUME NEW m \in Ids, Create(m) PROVE TypeOK' /\ ReadersInv'
  <2>1. [Now EXCEPT !.rows = @ \cup {m}] \in [rows : SUBSET Ids, thumbs : SUBSET Ids]
    BY NowType
  <2> QED BY <1>5, <1>6, <2>1 DEF Create, Writers
<1>7. CASE DeleteOld
  <2>1. PICK last \in Now.rows :
          CommitAs(Cleanup, [rows |-> {m \in Now.rows : m > last},
                             thumbs |-> {m \in Now.thumbs : m > last}])
    BY <1>7 DEF DeleteOld
  <2>2. [rows |-> {m \in Now.rows : m > last}, thumbs |-> {m \in Now.thumbs : m > last}]
          \in [rows : SUBSET Ids, thumbs : SUBSET Ids]
    BY NowType
  <2> QED BY <1>5, <2>1, <2>2 DEF Writers
<1>8. CASE AddThumbnail
  <2>1. PICK m \in Now.rows \ Now.thumbs :
          log' = Append(log, [Now EXCEPT !.thumbs = @ \cup {m}])
    BY <1>8 DEF AddThumbnail
  <2>2. [Now EXCEPT !.thumbs = @ \cup {m}] \in [rows : SUBSET Ids, thumbs : SUBSET Ids]
    BY NowType
  <2>3. log' \in Seq([rows : SUBSET Ids, thumbs : SUBSET Ids]) /\ Len(log') > 0
    BY <2>1, <2>2, AppendType
  <2> QED BY <1>8, <2>3 DEF AddThumbnail, TypeOK, ReadersInv, readers, writers
<1>9. ASSUME NEW w \in Writers, StartScan(w) \/ FailInvalidate(w)
      PROVE TypeOK' /\ ReadersInv'
  <2>1. todo' \in [Writers -> SUBSET Keys] /\ wpc' \in [Writers -> {"idle", "start", "scan", "done", "failed"}]
    BY <1>9 DEF StartScan, FailInvalidate, Cached, TypeOK
  <2> QED BY <1>9, <2>1 DEF StartScan, FailInvalidate, TypeOK, ReadersInv, readers
<1>10. ASSUME NEW w \in Writers, ScanAndDelete(w) PROVE TypeOK' /\ ReadersInv'
  <2>1. PICK keys \in SUBSET Cached :
          /\ Drop(keys)
          /\ ttl' = [k \in Keys |-> IF k \in keys THEN 0 ELSE ttl[k]]
    BY <1>10 DEF ScanAndDelete
  <2>2. cache' \in [Keys -> Entries \cup {None}] /\ todo' \in [Writers -> SUBSET Keys]
    BY <2>1 DEF Drop, TypeOK
  <2>3. ttl' \in [Keys -> 0 .. CacheTtl]
    BY <2>1 DEF TypeOK
  <2>4. wpc' \in [Writers -> {"idle", "start", "scan", "done", "failed"}]
    BY <1>10 DEF ScanAndDelete, TypeOK
  <2> QED BY <1>10, <2>2, <2>3, <2>4 DEF ScanAndDelete, TypeOK, ReadersInv, readers
<1>11. CASE Tick
  BY <1>11 DEF Tick, Drop, TypeOK, ReadersInv, readers
<1>12. CASE UNCHANGED vars
  BY <1>12 DEF vars, readers, writers, TypeOK, ReadersInv
<1> QED
  BY <1>1, <1>2, <1>3, <1>4, <1>6, <1>7, <1>8, <1>9, <1>10, <1>11, <1>12
     DEF Next, Read, Invalidate

\* Every variable keeps its type.
THEOREM TypeCorrect == Spec => [](TypeOK /\ ReadersInv)
<1>1. Init => TypeOK /\ ReadersInv
  BY PageTtlAssumption DEF Init, TypeOK, ReadersInv
<1> QED BY <1>1, TypeNext, PTL DEF Spec

------------------------------------------------------------------------------
\* A page from before the commit of an invalidation that is under way is on the
\* list that SCAN still owes it, or was SET after the scan began.
ScanInv ==
  \A w \in Writers, k \in Keys :
    wpc[w] \in {"scan", "done"} /\ cache[k] # None =>
      \/ cache[k].seen >= commitAt[w]
      \/ w \in cache[k].after
      \/ wpc[w] = "scan" /\ k \in todo[w]

\* What a step may do to an entry without a SET: nothing, or drop it together
\* with the obligation to drop it.
LEMMA ScanKept ==
  ASSUME ScanInv, commitAt' = commitAt, wpc' = wpc,
         \A k \in Keys : cache'[k] \in {cache[k], None},
         \A w \in Writers, k \in Keys : k \in todo[w] => k \in todo'[w] \/ cache'[k] = None
  PROVE  ScanInv'
  BY DEF ScanInv

\* Every step keeps the scan's account.
LEMMA ScanNext == TypeOK /\ ReadersInv /\ ScanInv /\ [Next]_vars => ScanInv'
<1> SUFFICES ASSUME TypeOK, ReadersInv, ScanInv, [Next]_vars PROVE ScanInv'
  OBVIOUS
<1>1. ASSUME NEW r \in Readers,
             (\E q \in Requests : Miss(r, q)) \/ ReadRows(r) \/ FailRead(r)
      PROVE ScanInv'
  BY <1>1 DEF Miss, ReadRows, FailRead, writers, ScanInv
<1>2. ASSUME NEW r \in Readers, Set(r) PROVE ScanInv'
  <2>1. UNCHANGED <<log, writers>>
    BY <1>2 DEF Set
  <2>2. \A k \in Keys : cache'[k] = cache[k] \/ cache'[k].after = Invalidating
    BY <1>2 DEF Set, TypeOK
  <2>3. \A w \in Writers : wpc[w] \in {"scan", "done"} => w \in Invalidating
    BY DEF Invalidating
  <2> QED BY <2>1, <2>2, <2>3 DEF ScanInv, writers
<1>3. ASSUME NEW w \in Writers, NEW db, CommitAs(w, db) PROVE ScanInv'
  <2>1. wpc'[w] = "start"
    BY <1>3 DEF CommitAs, TypeOK
  <2>2. \A x \in Writers \ {w} : wpc'[x] = wpc[x] /\ commitAt'[x] = commitAt[x]
    BY <1>3 DEF CommitAs, TypeOK
  <2> QED BY <1>3, <2>1, <2>2 DEF CommitAs, ScanInv
<1>4. ASSUME NEW w \in Writers, StartScan(w) PROVE ScanInv'
  <2>1. wpc'[w] = "scan" /\ todo'[w] = Cached
    BY <1>4 DEF StartScan, TypeOK
  <2>2. \A x \in Writers \ {w} : wpc'[x] = wpc[x] /\ todo'[x] = todo[x]
    BY <1>4 DEF StartScan, TypeOK
  <2> QED BY <1>4, <2>1, <2>2 DEF StartScan, Cached, ScanInv
<1>5. ASSUME NEW w \in Writers, ScanAndDelete(w) PROVE ScanInv'
  <2>1. PICK keys \in SUBSET Cached : Drop(keys)
    BY <1>5 DEF ScanAndDelete
  <2>2. \A k \in Keys : cache'[k] = IF k \in keys THEN None ELSE cache[k]
    BY <2>1 DEF Drop
  <2>3. \A x \in Writers : todo'[x] = todo[x] \ keys
    BY <2>1 DEF Drop
  <2>4. \/ wpc' = wpc
        \/ todo'[w] = {} /\ wpc' = [wpc EXCEPT ![w] = "done"] /\ wpc[w] = "scan"
    BY <1>5 DEF ScanAndDelete
  <2>5. \A x \in Writers : wpc'[x] = wpc[x] \/ (wpc[x] = "scan" /\ wpc'[x] = "done" /\ todo'[x] = {})
    BY <2>4 DEF TypeOK
  <2> QED BY <1>5, <2>2, <2>3, <2>5 DEF ScanAndDelete, ScanInv
<1>6. ASSUME NEW w \in Writers, FailInvalidate(w) PROVE ScanInv'
  <2>1. wpc'[w] = "failed"
    BY <1>6 DEF FailInvalidate, TypeOK
  <2>2. \A x \in Writers \ {w} : wpc'[x] = wpc[x] /\ todo'[x] = todo[x]
    BY <1>6 DEF FailInvalidate, TypeOK
  <2> QED BY <1>6, <2>1, <2>2 DEF FailInvalidate, ScanInv
<1>7. CASE AddThumbnail \/ UNCHANGED vars
  BY <1>7 DEF AddThumbnail, vars, writers, ScanInv
<1>8. CASE Tick
  BY <1>8, ScanKept DEF Tick, Drop, TypeOK
<1> QED
  BY <1>1, <1>2, <1>3, <1>4, <1>5, <1>6, <1>7, <1>8
     DEF Next, Read, Invalidate, Create, DeleteOld, Writers

\* invalidate_message_cache misses no page that was cached when it began, though
\* pages are cached and dropped while it scans.
THEOREM NothingMissed == Spec => []NoMissedPage
<1>1. Init => ScanInv
  BY DEF Init, ScanInv
<1>2. ScanInv => NoMissedPage
  BY DEF ScanInv, NoMissedPage
<1> QED BY <1>1, <1>2, ScanNext, TypeCorrect, PTL DEF Spec

------------------------------------------------------------------------------
\* A page that was queried, and one that is cached, are true of the state of the
\* database they were read from.
TruePage(p, q) == /\ p.seen \in 1 .. Len(log)
                  /\ p.page = Query(log[p.seen], q)

TrueInv == /\ \A r \in Readers : rpc[r] = "set" => TruePage(page[r], asked[r])
           /\ \A q \in Requests : cache[CacheKey(q)] # None
                                    => TruePage(cache[CacheKey(q)], q)

\* A page stays true as the log grows.
LEMMA TrueKept ==
  ASSUME TypeOK, log' = log \/ \E db : log' = Append(log, db),
         NEW p, NEW q, TruePage(p, q)
  PROVE  p.seen \in 1 .. Len(log') /\ p.page = Query(log'[p.seen], q)
<1>1. CASE log' = log
  BY <1>1 DEF TruePage
<1>2. CASE \E db : log' = Append(log, db)
  <2>1. PICK db : log' = Append(log, db)
    BY <1>2
  <2>2. log \in Seq([rows : SUBSET Ids, thumbs : SUBSET Ids])
    BY DEF TypeOK
  <2>3. Len(log') = Len(log) + 1 /\ \A i \in 1 .. Len(log) : log'[i] = log[i]
    BY <2>1, <2>2
  <2>4. Len(log) \in Nat
    BY <2>2
  <2> QED BY <2>3, <2>4 DEF TruePage
<1> QED BY <1>1, <1>2

\* Without before_id=0 no two requests share a key.
LEMMA KeysDiffer ==
  ASSUME 0 \notin Befores, NEW q \in Requests, NEW s \in Requests,
         CacheKey(q) = CacheKey(s)
  PROVE  q = s
<1>1. q.limit = s.limit
  BY DEF CacheKey
<1>2. (IF q.before = None THEN 0 ELSE q.before) = (IF s.before = None THEN 0 ELSE s.before)
  BY DEF CacheKey
<1>3. q.before = s.before
  BY <1>2 DEF Requests
<1> QED BY <1>1, <1>3 DEF Requests

\* A step that adds no page, and forgets some perhaps.
LEMMA TruePages ==
  ASSUME TypeOK, TrueInv, log' = log \/ \E db : log' = Append(log, db),
         \A r \in Readers : rpc'[r] = "set" =>
           rpc[r] = "set" /\ page'[r] = page[r] /\ asked'[r] = asked[r],
         \A k \in Keys : cache'[k] \in {cache[k], None}
  PROVE  TrueInv'
<1>1. ASSUME NEW r \in Readers, rpc'[r] = "set" PROVE TruePage(page[r], asked[r])'
  <2>1. TruePage(page[r], asked[r]) /\ page'[r] = page[r] /\ asked'[r] = asked[r]
    BY <1>1 DEF TrueInv
  <2>2. /\ page[r].seen \in 1 .. Len(log')
        /\ page[r].page = Query(log'[page[r].seen], asked[r])
    BY <2>1, TrueKept
  <2>3. /\ page'[r].seen \in 1 .. Len(log')
        /\ page'[r].page = Query(log'[page'[r].seen], asked'[r])
    BY <2>1, <2>2
  <2> QED BY <2>3 DEF TruePage
<1>2. ASSUME NEW q \in Requests, cache'[CacheKey(q)] # None
      PROVE  TruePage(cache[CacheKey(q)], q)'
  <2>1. cache'[CacheKey(q)] = cache[CacheKey(q)]
    BY <1>2, KeyOf
  <2>2. TruePage(cache[CacheKey(q)], q)
    BY <1>2, <2>1 DEF TrueInv
  <2>3. /\ cache[CacheKey(q)].seen \in 1 .. Len(log')
        /\ cache[CacheKey(q)].page = Query(log'[cache[CacheKey(q)].seen], q)
    BY <2>2, TrueKept
  <2> QED BY <2>1, <2>3 DEF TruePage, Query, CacheKey
<1> QED BY <1>1, <1>2 DEF TrueInv, CacheKey

\* Every step keeps pages true, when no two requests share a key.
LEMMA TrueNext ==
  ASSUME 0 \notin Befores, TypeOK, ReadersInv, TrueInv, [Next]_vars
  PROVE  TrueInv'
<1>1. ASSUME NEW r \in Readers, ReadRows(r) PROVE TrueInv'
  <2>1. page'[r] = [page |-> Query(Now, asked[r]), seen |-> Len(log)]
    BY <1>1 DEF ReadRows, TypeOK
  <2>2. Len(log) \in 1 .. Len(log) /\ Now = log[Len(log)]
    BY NowType DEF Now
  <2>3. /\ page'[r].seen \in 1 .. Len(log')
        /\ page'[r].page = Query(log'[page'[r].seen], asked'[r])
    BY <1>1, <2>1, <2>2 DEF ReadRows
  <2>4. \A s \in Readers \ {r} : rpc'[s] = rpc[s] /\ page'[s] = page[s]
    BY <1>1 DEF ReadRows, TypeOK
  <2>5. UNCHANGED <<log, cache, asked>>
    BY <1>1 DEF ReadRows
  <2>6. ASSUME NEW s \in Readers, rpc'[s] = "set" PROVE TruePage(page[s], asked[s])'
    BY <2>3, <2>4, <2>5, <2>6 DEF TrueInv, TruePage
  <2>7. ASSUME NEW q \in Requests, cache'[CacheKey(q)] # None
        PROVE  TruePage(cache[CacheKey(q)], q)'
    BY <2>5, <2>7 DEF TrueInv, TruePage
  <2> QED BY <2>6, <2>7 DEF TrueInv
<1>2. ASSUME NEW r \in Readers, Set(r) PROVE TrueInv'
  <2>1. /\ rpc[r] = "set" /\ asked[r] \in Requests
        /\ TruePage(page[r], asked[r])
    BY <1>2 DEF Set, ReadersInv, TrueInv
  <2>2. UNCHANGED <<log, writers>>
    BY <1>2 DEF Set
  <2>3. \A s \in Readers : rpc'[s] = "set" =>
          rpc[s] = "set" /\ page'[s] = page[s] /\ asked'[s] = asked[s]
    BY <1>2 DEF Set, Forget, TypeOK
  <2>4. ASSUME NEW s \in Readers, rpc'[s] = "set" PROVE TruePage(page[s], asked[s])'
    BY <2>2, <2>3, <2>4 DEF TrueInv, TruePage
  <2>5. ASSUME NEW q \in Requests, cache'[CacheKey(q)] # None
        PROVE  TruePage(cache[CacheKey(q)], q)'
    <3>1. CASE CacheKey(q) = CacheKey(asked[r])
      <4>1. q = asked[r]
        BY <2>1, <3>1, KeysDiffer
      <4>2. /\ cache'[CacheKey(q)].page = page[r].page
            /\ cache'[CacheKey(q)].seen = page[r].seen
        BY <1>2, <2>1, <3>1, KeyOf DEF Set, TypeOK
      <4> QED BY <2>1, <2>2, <4>1, <4>2 DEF TruePage
    <3>2. CASE CacheKey(q) # CacheKey(asked[r])
      <4>1. cache'[CacheKey(q)] = cache[CacheKey(q)]
        BY <1>2, <3>2, KeyOf DEF Set, TypeOK
      <4>2. TruePage(cache[CacheKey(q)], q)
        BY <2>5, <4>1 DEF TrueInv
      <4> QED BY <2>2, <4>1, <4>2 DEF TruePage
    <3> QED BY <3>1, <3>2
  <2> QED BY <2>4, <2>5 DEF TrueInv
<1>3. ASSUME NEW r \in Readers, (\E q \in Requests : Miss(r, q)) \/ FailRead(r)
      PROVE TrueInv'
  BY <1>3, TruePages DEF Miss, FailRead, Forget, TypeOK
<1>4. ASSUME NEW w \in Writers, NEW db, CommitAs(w, db) PROVE TrueInv'
  BY <1>4, TruePages DEF CommitAs, readers
<1>5. CASE AddThumbnail
  BY <1>5, TruePages DEF AddThumbnail, readers
<1>6. ASSUME NEW w \in Writers, StartScan(w) \/ FailInvalidate(w) PROVE TrueInv'
  BY <1>6, TruePages DEF StartScan, FailInvalidate, readers
<1>7. ASSUME NEW w \in Writers, ScanAndDelete(w) PROVE TrueInv'
  BY <1>7, TruePages DEF ScanAndDelete, Drop, readers
<1>8. CASE Tick
  BY <1>8, TruePages DEF Tick, Drop, readers
<1>9. CASE UNCHANGED vars
  BY <1>9, TruePages DEF vars, readers
<1> QED
  BY <1>1, <1>2, <1>3, <1>4, <1>5, <1>6, <1>7, <1>8, <1>9
     DEF Next, Read, Invalidate, Create, DeleteOld, Writers

\* As long as nobody asks for before_id=0, a request is served the page of that
\* request, as the database had it when the page was queried.
THEOREM PagesAreTrue ==
  ASSUME 0 \notin Befores
  PROVE  Spec => []ServedPagesWereTrue
<1>1. Init => TrueInv
  BY DEF Init, TrueInv, Keys
<1>2. TypeOK /\ TrueInv => ServedPagesWereTrue
  BY DEF TrueInv, TruePage, ServedPagesWereTrue
<1>3. TypeOK /\ ReadersInv /\ TrueInv /\ [Next]_vars => TrueInv'
  BY TrueNext
<1> QED BY <1>1, <1>2, <1>3, TypeCorrect, PTL DEF Spec
==============================================================================
