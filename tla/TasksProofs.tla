----------------------------- MODULE TasksProofs -----------------------------
(***************************************************************************)
(* What TLAPS proves of Tasks, for any messages, workers, cleanups and     *)
(* faults.                                                                 *)
(***************************************************************************)
EXTENDS Tasks, FiniteSetTheorems, TLAPS

Stored == rows \cup deleted

\* A worker at a message is at one that was stored, and draws images only.
WorkInv ==
  \A w \in Workers :
    /\ work[w].step \in OfMessage => work[w].msg \in Stored
    /\ work[w].step \in {"get", "put", "record"} => work[w].msg \in Images

\* What is queued is about messages that were stored.
QueueInv == \A m \in Messages :
  /\ sending[m] = "dispatch" => m \in Stored
  /\ \A j \in Jobs : j.msg = m /\ queue[j] > 0 => m \in Stored

Inv == TypeOK /\ WorkInv /\ QueueInv

------------------------------------------------------------------------------
(* The helpers *)

\* Goto changes the step of one worker.
LEMMA GotoMoves ==
  ASSUME TypeOK, NEW w \in Workers, NEW step \in {"idle"} \cup OfMessage \cup OfCleanup,
         Goto(w, step)
  PROVE  /\ work' \in [Workers -> Works]
         /\ work'[w] = [work[w] EXCEPT !.step = step]
         /\ \A v \in Workers \ {w} : work'[v] = work[v]
  BY DEF TypeOK, Goto, Works

\* End leaves one worker without a task.
LEMMA EndIdles ==
  ASSUME TypeOK, NEW w \in Workers, End(w)
  PROVE  /\ work' \in [Workers -> Works]
         /\ work'[w] = Idle
         /\ \A v \in Workers \ {w} : work'[v] = work[v]
  BY DEF TypeOK, End, Works, Idle, Working

\* A fault is counted, and the bounds stay.
LEMMA FaultType == ASSUME TypeOK, Fault \/ UNCHANGED bounds
                   PROVE  beats' \in 0 .. MaxBeats /\ faults' \in 0 .. MaxFaults
  BY LimitsAssumption DEF TypeOK, Fault, bounds

\* Enqueue adds copies of one job, and nothing else.
LEMMA EnqueueAdds ==
  ASSUME TypeOK, NEW j \in Jobs, Enqueue(j)
  PROVE  /\ queue' \in [Jobs -> Nat]
         /\ \A i \in Jobs \ {j} : queue'[i] = queue[i]
         /\ Fault \/ UNCHANGED bounds
<1>1. queue \in [Jobs -> Nat]
  BY DEF TypeOK
<1>2. PICK n \in {1, 2} : queue' = [queue EXCEPT ![j] = @ + n]
  BY DEF Enqueue
<1>3. queue[j] + n \in Nat
  BY <1>1
<1>4. Fault \/ UNCHANGED bounds
  BY DEF Enqueue
<1> HIDE DEF Jobs
<1> QED
  BY <1>1, <1>2, <1>3, <1>4

\* A message's jobs and objects are what their names say.
LEMMA JobFacts ==
  ASSUME NEW m \in Messages
  PROVE  /\ Process(m) \in Jobs /\ Notify(m) \in Jobs /\ MakeThumbnail(m) \in Jobs
         /\ Process(m).msg = m /\ Notify(m).msg = m /\ MakeThumbnail(m).msg = m
  BY DEF Process, Notify, MakeThumbnail, Jobs

LEMMA CleanupFacts == Cleanup \in Jobs /\ Cleanup.msg = None
  BY DEF Cleanup, Jobs
------------------------------------------------------------------------------
(* Types, and what workers and queue are about *)

LEMMA InitInv == Init => Inv
<1> SUFFICES ASSUME Init PROVE Inv
  OBVIOUS
<1>1. TypeOK
  <2>1. Idle \in Works
    BY DEF Idle, Working, Works
  <2>2. <<>> \in Seq(Messages)
    OBVIOUS
  <2> QED BY <2>1, <2>2, LimitsAssumption DEF Init, TypeOK
<1>2. WorkInv /\ QueueInv
  BY DEF Init, WorkInv, QueueInv, Idle, Working, OfMessage
<1> QED BY <1>1, <1>2 DEF Inv

\* What a worker's step leaves in its variables: no task, or the same message
\* one step on.
WorkStep(w) ==
  /\ work' \in [Workers -> Works]
  /\ \A v \in Workers \ {w} : work'[v] = work[v]
  /\ work'[w].step \in OfMessage => /\ work[w].step \in OfMessage
                                    /\ work'[w].msg = work[w].msg
  /\ work'[w].step \in {"get", "put", "record"} => work'[w].msg \in Images

LEMMA EndStep ==
  ASSUME TypeOK, NEW w \in Workers, End(w)
  PROVE  WorkStep(w)
  BY EndIdles DEF WorkStep, Idle, Working, OfMessage

LEMMA GotoStep ==
  ASSUME TypeOK, NEW w \in Workers, NEW step \in OfMessage, Goto(w, step),
         work[w].step \in OfMessage,
         step \in {"get", "put", "record"} => work[w].msg \in Images
  PROVE  WorkStep(w)
<1>1. work[w] \in Works
  BY DEF TypeOK
<1>2. /\ work' \in [Workers -> Works]
      /\ work'[w] = [work[w] EXCEPT !.step = step]
      /\ \A v \in Workers \ {w} : work'[v] = work[v]
  BY GotoMoves
<1>3. work'[w].step = step /\ work'[w].msg = work[w].msg
  BY <1>1, <1>2 DEF Works
<1> QED
  BY <1>2, <1>3 DEF WorkStep

\* The cleanup's steps, which are about no message.
LEMMA CleanupStep ==
  ASSUME TypeOK, NEW w \in Workers, NEW found \in SUBSET Messages, NEW keys \in SUBSET Objects,
         work' = [work EXCEPT ![w] = Cleaning(found, keys)]
  PROVE  WorkStep(w) /\ work'[w] = Cleaning(found, keys)
<1>1. work \in [Workers -> Works]
  BY DEF TypeOK
<1>2. Cleaning(found, keys) \in Works
  BY DEF Cleaning, Works, OfCleanup
<1>3. work'[w] = Cleaning(found, keys)
  BY <1>1
<1>4. Cleaning(found, keys).step \in {"delete", "forget"}
  BY DEF Cleaning
<1> HIDE DEF Works
<1> QED BY <1>1, <1>2, <1>3, <1>4 DEF WorkStep, OfMessage

LEMMA Drawn == ASSUME Inv, NEW w \in Workers, work[w].step \in {"get", "put", "record"}
               PROVE  work[w].msg \in Images
  BY DEF Inv, WorkInv
\* A step of a task is a WorkStep.
LEMMA StepsWork ==
  ASSUME Inv, NEW w \in Workers, Step(w) \/ FailTask(w)
  PROVE  WorkStep(w)
<1>1. TypeOK /\ work[w] \in Works
  BY DEF Inv, TypeOK
<1>2. CASE QueueNotify(w)
  <2>1. CASE End(w)
    BY <1>1, <2>1, EndStep
  <2>2. CASE Goto(w, "processed")
    BY <1>1, <1>2, <2>2, GotoStep DEF QueueNotify, At, OfMessage
  <2> QED BY <1>2, <2>1, <2>2 DEF QueueNotify
<1>3. CASE ReadNotified(w)
  <2>1. CASE End(w)
    BY <1>1, <2>1, EndStep
  <2>2. CASE Goto(w, "push")
    BY <1>1, <1>3, <2>2, GotoStep DEF ReadNotified, At, OfMessage
  <2> QED BY <1>3, <2>1, <2>2 DEF ReadNotified
<1>4. CASE Push(w)
  <2>1. CASE End(w)
    BY <1>1, <2>1, EndStep
  <2>2. CASE Goto(w, "trim")
    BY <1>1, <1>4, <2>2, GotoStep DEF Push, At, OfMessage
  <2>3. CASE UNCHANGED work
    BY <1>1, <1>4, <2>3 DEF Push, At, WorkStep, TypeOK
  <2> QED BY <1>4, <2>1, <2>2, <2>3 DEF Push, Applied
<1>5. CASE ReadPictured(w)
  <2>1. CASE End(w)
    BY <1>1, <2>1, EndStep
  <2>2. CASE Goto(w, "get") /\ work[w].msg \in Images
    BY <1>1, <1>5, <2>2, GotoStep DEF ReadPictured, At, OfMessage
  <2> QED BY <1>5, <2>1, <2>2 DEF ReadPictured
<1>6. CASE GetFile(w)
  <2>1. CASE End(w)
    BY <1>1, <2>1, EndStep
  <2>2. CASE Goto(w, "put")
    BY <1>1, <1>6, <2>2, GotoStep, Drawn DEF GetFile, At, OfMessage
  <2> QED BY <1>6, <2>1, <2>2 DEF GetFile
<1>7. CASE PutThumbnail(w)
  <2>1. CASE End(w)
    BY <1>1, <2>1, EndStep
  <2>2. CASE Goto(w, "record")
    BY <1>1, <1>7, <2>2, GotoStep, Drawn DEF PutThumbnail, At, OfMessage
  <2> QED BY <1>7, <2>1, <2>2 DEF PutThumbnail, Applied
<1>8. CASE ReadOld(w)
  <2>1. CASE End(w)
    BY <1>1, <2>1, EndStep
  <2>2. CASE ~End(w)
    <3>1. rows \cap old \in SUBSET Messages
      BY <1>1 DEF TypeOK
    <3>2. {File(m) : m \in (rows \cap old) \cap WithFile}
            \cup {Thumbnail(m) : m \in (rows \cap old) \cap thumbs} \in SUBSET Objects
      BY <1>1 DEF TypeOK, Objects
    <3>3. work' = [work EXCEPT ![w] =
            Cleaning(rows \cap old, {File(m) : m \in (rows \cap old) \cap WithFile}
                                      \cup {Thumbnail(m) : m \in (rows \cap old) \cap thumbs})]
      BY <1>8, <2>2 DEF ReadOld, End
    <3> QED BY <1>1, <3>1, <3>2, <3>3, CleanupStep
  <2> QED BY <2>1, <2>2
<1>9. ASSUME NEW keys \in SUBSET work[w].keys, Clean(w, keys) PROVE WorkStep(w)
  <2>1. work[w].found \in SUBSET Messages /\ keys \in SUBSET Objects
    BY <1>1 DEF Works
  <2> QED BY <1>1, <1>9, <2>1, CleanupStep DEF Clean
<1>10. CASE DeleteBatch(w)
  <2>1. PICK keys \in SUBSET work[w].keys : Clean(w, keys)
    BY <1>10 DEF DeleteBatch
  <2> QED BY <1>9, <2>1
<1>11. CASE FailTask(w)
  <2>1. CASE End(w)
    BY <1>1, <2>1, EndStep
  <2>2. CASE Clean(w, {})
    BY <1>9, <2>2
  <2> QED BY <1>11, <2>1, <2>2 DEF FailTask
<1>12. CASE QueueThumbnail(w) \/ Trim(w) \/ RecordThumbnail(w) \/ ForgetRows(w)
  BY <1>1, <1>12, EndStep DEF QueueThumbnail, Trim, RecordThumbnail, ForgetRows
<1> QED
  BY <1>2, <1>3, <1>4, <1>5, <1>6, <1>7, <1>8, <1>10, <1>11, <1>12 DEF Step

\* Every step keeps every variable's type.
LEMMA TypeNext == Inv /\ [Next]_vars => TypeOK'
<1> SUFFICES ASSUME Inv, [Next]_vars PROVE TypeOK'
  OBVIOUS
<1>1. TypeOK
  BY DEF Inv
<1>2. ASSUME NEW m \in Messages, Send(m) \/ FailSend(m) PROVE TypeOK'
  <2>1. /\ UNCHANGED <<thumbs, old, work, list, history>>
        /\ rows \subseteq rows' /\ rows' \subseteq rows \cup {m}
        /\ objects' \subseteq Objects
        /\ sending' \in [Messages -> {"upload", "commit", "dispatch", "ended"}]
    BY <1>1, <1>2 DEF Send, Upload, Commit, Dispatch, FailSend, SendApplied, database, TypeOK
  <2>2. queue' \in [Jobs -> Nat] /\ beats' \in 0 .. MaxBeats /\ faults' \in 0 .. MaxFaults
    <3>1. CASE Dispatch(m)
      BY <1>1, <3>1, EnqueueAdds, FaultType, JobFacts DEF Dispatch
    <3>2. CASE UNCHANGED queue /\ (Fault \/ UNCHANGED bounds)
      BY <1>1, <3>2, FaultType DEF TypeOK
    <3> QED BY <1>2, <3>1, <3>2 DEF Send, Upload, Commit, FailSend, SendApplied
  <2> QED BY <1>1, <2>1, <2>2 DEF TypeOK, history
<1>3. ASSUME NEW w \in Workers, Take(w) PROVE TypeOK'
  <2>1. PICK j \in Jobs : /\ queue[j] > 0
                          /\ queue' = [queue EXCEPT ![j] = @ - 1]
                          /\ work' = [work EXCEPT ![w] = Working(j.task, j.msg)]
    BY <1>3 DEF Take
  <2>2. Working(j.task, j.msg) \in Works
    <3>1. j.task \in OfMessage \cup OfCleanup /\ j.msg \in Messages \cup {None}
      BY DEF Jobs, Cleanup, OfMessage, OfCleanup
    <3> QED BY <3>1 DEF Working, Works
  <2>3. queue' \in [Jobs -> Nat]
    <3>1. queue \in [Jobs -> Nat] /\ queue[j] - 1 \in Nat
      BY <1>1, <2>1 DEF TypeOK
    <3> HIDE DEF Jobs
    <3> QED BY <2>1, <3>1
  <2>4. work' \in [Workers -> Works]
    <3>1. work \in [Workers -> Works]
      BY <1>1 DEF TypeOK
    <3> QED BY <2>1, <2>2, <3>1
  <2> QED BY <1>1, <1>3, <2>3, <2>4 DEF TypeOK, Take, database, bounds, history
<1>4. ASSUME NEW w \in Workers, Step(w) \/ FailTask(w) PROVE TypeOK'
  <2>1. work' \in [Workers -> Works]
    BY <1>4, StepsWork DEF WorkStep
  <2>2. work[w] \in Works /\ (work[w].step \in OfMessage => work[w].msg \in Messages)
    BY <1>1 DEF Inv, WorkInv, Stored, TypeOK
  <2>3. beats' \in 0 .. MaxBeats /\ faults' \in 0 .. MaxFaults
    <3>1. Fault \/ UNCHANGED bounds
      BY <1>4 DEF Step, QueueNotify, QueueThumbnail, ReadNotified, Push, Trim, ReadPictured,
                  GetFile, PutThumbnail, RecordThumbnail, ReadOld, DeleteBatch, ForgetRows,
                  FailTask, Applied, Enqueue
    <3> QED BY <1>1, <3>1, FaultType
  <2>4. queue' \in [Jobs -> Nat]
    <3>1. CASE UNCHANGED queue
      BY <1>1, <3>1 DEF TypeOK
    <3>2. CASE QueueNotify(w) \/ QueueThumbnail(w)
      <4>1. work[w].msg \in Messages
        BY <2>2, <3>2 DEF QueueNotify, QueueThumbnail, At, OfMessage
      <4>2. ASSUME NEW j \in Jobs, queue' = [queue EXCEPT ![j] = @ + 1] PROVE queue' \in [Jobs -> Nat]
        <5>1. queue \in [Jobs -> Nat]
          BY <1>1 DEF TypeOK
        <5> HIDE DEF Jobs
        <5> QED BY <4>2, <5>1
      <4> QED BY <1>1, <3>2, <4>1, <4>2, JobFacts, EnqueueAdds DEF QueueNotify, QueueThumbnail
    <3> QED BY <1>4, <3>1, <3>2 DEF Step, ReadNotified, Push, Trim, ReadPictured, GetFile,
                  PutThumbnail, RecordThumbnail, ReadOld, DeleteBatch, ForgetRows, FailTask
  <2>5. list' \in Seq(Messages) /\ pushed' \in Seq(Messages)
    <3>1. CASE UNCHANGED <<list, pushed>>
      BY <1>1, <3>1 DEF TypeOK
    <3>2. CASE Push(w)
      <4>1. work[w].msg \in Messages
        BY <2>2, <3>2 DEF Push, At, OfMessage
      <4> QED BY <1>1, <3>2, <4>1 DEF Push, TypeOK
    <3>3. CASE Trim(w)
      <4>1. list \in Seq(Messages) /\ pushed \in Seq(Messages) /\ MaxList \in Nat \ {0}
        BY <1>1, LimitsAssumption DEF TypeOK
      <4> QED BY <3>3, <4>1 DEF Trim, history
    <3> QED BY <1>4, <3>1, <3>2, <3>3 DEF Step, QueueNotify, QueueThumbnail, ReadNotified,
                  ReadPictured, GetFile, PutThumbnail, RecordThumbnail, ReadOld, DeleteBatch,
                  ForgetRows, FailTask, history
  <2>6. /\ rows' \subseteq Messages /\ thumbs' \subseteq rows' \cap Images
        /\ old' \subseteq Messages
    <3>1. CASE UNCHANGED database
      BY <1>1, <3>1 DEF TypeOK, database
    <3>2. CASE RecordThumbnail(w)
      BY <1>1, <3>2, Drawn DEF RecordThumbnail, TypeOK, At
    <3>3. CASE ForgetRows(w)
      BY <1>1, <3>3 DEF ForgetRows, TypeOK
    <3> QED BY <1>4, <3>1, <3>2, <3>3 DEF Step, QueueNotify, QueueThumbnail, ReadNotified,
                  Push, Trim, ReadPictured, GetFile, PutThumbnail, ReadOld, DeleteBatch,
                  FailTask
  <2>7. objects' \subseteq Objects
    <3>1. CASE objects' \subseteq objects
      BY <1>1, <3>1 DEF TypeOK
    <3>2. CASE PutThumbnail(w)
      <4>1. work[w].msg \in Images
        BY <3>2, Drawn DEF PutThumbnail, At
      <4> QED BY <1>1, <3>2, <4>1 DEF PutThumbnail, TypeOK, Objects
    <3> QED BY <1>4, <3>1, <3>2 DEF Step, QueueNotify, QueueThumbnail, ReadNotified,
                  Push, Trim, ReadPictured, GetFile, RecordThumbnail, ReadOld, DeleteBatch,
                  ForgetRows, FailTask
  <2>8. missed' \cup doomed' \cup deleted' \cup late' \subseteq Messages
    <3>1. CASE UNCHANGED <<missed, doomed, deleted, late>>
      BY <1>1, <3>1 DEF TypeOK
    <3>4. CASE RecordThumbnail(w)
      BY <1>1, <3>4 DEF RecordThumbnail, TypeOK
    <3>2. CASE ReadNotified(w)
      BY <1>1, <2>2, <3>2 DEF ReadNotified, TypeOK, At, OfMessage
    <3>3. CASE ReadOld(w) \/ ForgetRows(w)
      BY <1>1, <3>3 DEF ReadOld, ForgetRows, TypeOK
    <3> QED BY <1>4, <3>1, <3>2, <3>3, <3>4 DEF Step, QueueNotify, QueueThumbnail,
                  Push, Trim, ReadPictured, GetFile, PutThumbnail, DeleteBatch,
                  FailTask, history
  <2>9. UNCHANGED sending
    BY <1>4 DEF Step, QueueNotify, QueueThumbnail, ReadNotified, Push, Trim, ReadPictured,
                GetFile, PutThumbnail, RecordThumbnail, ReadOld, DeleteBatch, ForgetRows, FailTask
  <2> QED BY <1>1, <2>1, <2>3, <2>4, <2>5, <2>6, <2>7, <2>8, <2>9 DEF TypeOK
<1>5. CASE Beat
  <2>1. queue' \in [Jobs -> Nat]
    <3>1. queue \in [Jobs -> Nat] /\ queue' = [queue EXCEPT ![Cleanup] = @ + 1]
      BY <1>1, <1>5 DEF TypeOK, Beat
    <3> HIDE DEF Jobs, Cleanup
    <3> QED BY <3>1, CleanupFacts
  <2>2. beats' \in 0 .. MaxBeats
    BY <1>1, <1>5, LimitsAssumption DEF TypeOK, Beat
  <2> QED BY <1>1, <1>5, <2>1, <2>2 DEF TypeOK, Beat, database, history
<1>6. CASE Age
  BY <1>1, <1>6 DEF TypeOK, Age, bounds, history
<1>7. CASE UNCHANGED vars
  BY <1>1, <1>7 DEF TypeOK, vars, database, bounds, history
<1> QED
  BY <1>2, <1>3, <1>4, <1>5, <1>6, <1>7 DEF Next

\* What was stored is not forgotten.
LEMMA StoredGrows == Inv /\ [Next]_vars => Stored \subseteq Stored'
<1> SUFFICES ASSUME Inv, [Next]_vars PROVE Stored \subseteq Stored'
  OBVIOUS
<1>1. TypeOK
  BY DEF Inv
<1>2. CASE rows \subseteq rows' /\ UNCHANGED deleted
  BY <1>2 DEF Stored
<1>3. ASSUME NEW w \in Workers, ForgetRows(w) PROVE Stored \subseteq Stored'
  BY <1>3 DEF ForgetRows, Stored
<1> QED
  BY <1>2, <1>3 DEF Next, Send, Step, Upload, Commit, Dispatch, FailSend, Take, QueueNotify,
     QueueThumbnail, ReadNotified, Push, Trim, ReadPictured, GetFile, PutThumbnail,
     RecordThumbnail, ReadOld, DeleteBatch, FailTask, Beat, Age, vars, database, history

\* Workers and queue go on to be about stored messages.
LEMMA InvNext == Inv /\ [Next]_vars => Inv'
<1> SUFFICES ASSUME Inv, [Next]_vars PROVE WorkInv' /\ QueueInv'
  BY TypeNext DEF Inv
<1>1. TypeOK /\ Stored \subseteq Stored'
  BY StoredGrows DEF Inv
<1>2. CASE UNCHANGED <<work, queue, sending>>
  BY <1>1, <1>2 DEF Inv, WorkInv, QueueInv
<1>3. ASSUME NEW m \in Messages, Send(m) \/ FailSend(m) PROVE WorkInv' /\ QueueInv'
  <2>1. WorkInv'
    BY <1>1, <1>3 DEF Inv, WorkInv, Send, Upload, Commit, Dispatch, FailSend
  <2>2. \A n \in Messages : sending'[n] = "dispatch" => n \in Stored'
    BY <1>1, <1>3 DEF Inv, QueueInv, Stored, TypeOK, Send, Upload, Commit, Dispatch, FailSend,
                      SendApplied
  <2>3. \A n \in Messages, j \in Jobs : j.msg = n /\ queue'[j] > 0 => n \in Stored'
    <3>1. CASE UNCHANGED queue
      BY <1>1, <3>1 DEF Inv, QueueInv
    <3>2. CASE Dispatch(m)
      <4>1. m \in Stored
        BY <3>2 DEF Inv, QueueInv, Dispatch
      <4>2. \A i \in Jobs \ {Process(m)} : queue'[i] = queue[i]
        BY <1>1, <3>2, EnqueueAdds, JobFacts DEF Dispatch
      <4> QED BY <1>1, <4>1, <4>2, JobFacts DEF Inv, QueueInv
    <3> QED BY <1>3, <3>1, <3>2 DEF Send, Upload, Commit, FailSend
  <2> QED BY <2>1, <2>2, <2>3 DEF QueueInv
<1>4. ASSUME NEW w \in Workers, Take(w) PROVE WorkInv' /\ QueueInv'
  <2>1. PICK j \in Jobs : /\ queue[j] > 0
                          /\ queue' = [queue EXCEPT ![j] = @ - 1]
                          /\ work' = [work EXCEPT ![w] = Working(j.task, j.msg)]
    BY <1>4 DEF Take
  <2>2. j.task \in OfMessage => j.msg \in Stored
    <3>1. j \in [task : {"process", "notify", "thumbnail"}, msg : Messages] \/ j = Cleanup
      BY DEF Jobs
    <3> QED BY <2>1, <3>1 DEF Inv, QueueInv, Cleanup, OfMessage
  <2>3. j.task \notin {"get", "put", "record"}
    BY DEF Jobs, Cleanup
  <2>4. /\ work'[w].step = j.task /\ work'[w].msg = j.msg
        /\ \A v \in Workers \ {w} : work'[v] = work[v]
    BY <1>1, <2>1 DEF TypeOK, Working
  <2>5. WorkInv'
    BY <1>1, <2>2, <2>3, <2>4 DEF Inv, WorkInv
  <2>6. \A i \in Jobs : queue'[i] > 0 => queue[i] > 0
    <3>1. queue \in [Jobs -> Nat]
      BY <1>1 DEF TypeOK
    <3> HIDE DEF Jobs
    <3> QED BY <2>1, <3>1
  <2> QED BY <1>1, <1>4, <2>5, <2>6 DEF Take, Inv, QueueInv
<1>5. ASSUME NEW w \in Workers, Step(w) \/ FailTask(w) PROVE WorkInv' /\ QueueInv'
  <2>1. WorkInv'
    BY <1>1, <1>5, StepsWork DEF Inv, WorkInv, WorkStep
  <2>2. UNCHANGED sending
    BY <1>5 DEF Step, QueueNotify, QueueThumbnail, ReadNotified, Push, Trim, ReadPictured,
                GetFile, PutThumbnail, RecordThumbnail, ReadOld, DeleteBatch, ForgetRows, FailTask
  <2>3. CASE UNCHANGED queue
    BY <1>1, <2>1, <2>2, <2>3 DEF Inv, QueueInv
  <2>4. CASE QueueNotify(w) \/ QueueThumbnail(w)
    <3>1. work[w].msg \in Stored /\ work[w].msg \in Messages
      BY <1>1, <2>4 DEF Inv, WorkInv, QueueNotify, QueueThumbnail, At, OfMessage, Stored, TypeOK
    <3>2. \E j \in Jobs : j.msg = work[w].msg /\ \A i \in Jobs \ {j} : queue'[i] = queue[i]
      <4>1. CASE Enqueue(Notify(work[w].msg)) \/ Enqueue(MakeThumbnail(work[w].msg))
        BY <1>1, <3>1, <4>1, EnqueueAdds, JobFacts
      <4>2. CASE queue' = [queue EXCEPT ![Notify(work[w].msg)] = @ + 1]
        <5>1. queue \in [Jobs -> Nat]
          BY <1>1 DEF TypeOK
        <5> HIDE DEF Jobs
        <5> QED BY <3>1, <4>2, <5>1, JobFacts
      <4> QED BY <2>4, <4>1, <4>2 DEF QueueNotify, QueueThumbnail
    <3> QED BY <1>1, <2>1, <2>2, <3>1, <3>2 DEF Inv, QueueInv
  <2> QED BY <1>5, <2>3, <2>4 DEF Step, ReadNotified, Push, Trim, ReadPictured,
             GetFile, PutThumbnail, RecordThumbnail, ReadOld, DeleteBatch, ForgetRows, FailTask
<1>6. CASE Beat
  <2>1. \A i \in Jobs : i.msg \in Messages => queue'[i] = queue[i]
    <3>1. queue \in [Jobs -> Nat] /\ queue' = [queue EXCEPT ![Cleanup] = @ + 1]
      BY <1>1, <1>6 DEF TypeOK, Beat
    <3> HIDE DEF Jobs, Cleanup
    <3> QED BY <3>1, CleanupFacts, NoneAssumption
  <2> QED BY <1>1, <1>6, <2>1 DEF Beat, Inv, WorkInv, QueueInv
<1> QED
  BY <1>2, <1>3, <1>4, <1>5, <1>6 DEF Next, Age, vars

LEMMA Invariance == Spec => []Inv
  BY InitInv, InvNext, PTL DEF Spec

\* Every variable keeps its type; only rows that exist have a thumbnail.
THEOREM TypeCorrect == Spec => []TypeOK
<1>1. Inv => TypeOK
  BY DEF Inv
<1> QED BY <1>1, Invariance, PTL

------------------------------------------------------------------------------
(* not_found *)

\* notify_message does not find a message only when a cleanup has deleted it:
\* whatever is queued or under way is about a message that was stored.
THEOREM NotFound == Spec => []NotFoundIsDeleted
<1>1. Init => NotFoundIsDeleted
  BY DEF Init, NotFoundIsDeleted
<1>2. Inv /\ NotFoundIsDeleted /\ [Next]_vars => NotFoundIsDeleted'
  <2> SUFFICES ASSUME Inv, NotFoundIsDeleted, [Next]_vars PROVE NotFoundIsDeleted'
    OBVIOUS
  <2>1. CASE UNCHANGED missed /\ deleted \subseteq deleted'
    BY <2>1 DEF NotFoundIsDeleted
  <2>2. ASSUME NEW w \in Workers, ReadNotified(w) PROVE NotFoundIsDeleted'
    BY <2>2 DEF ReadNotified, At, Inv, WorkInv, Stored, OfMessage, NotFoundIsDeleted
  <2> QED
    BY <2>1, <2>2 DEF Next, Send, Step, Upload, Commit, Dispatch, FailSend, Take, QueueNotify,
       QueueThumbnail, Push, Trim, ReadPictured, GetFile, PutThumbnail, RecordThumbnail,
       ReadOld, DeleteBatch, ForgetRows, FailTask, Beat, Age, vars, history
<1> QED BY <1>1, <1>2, Invariance, PTL DEF Spec
------------------------------------------------------------------------------
(* Rows and objects *)

Kept(o) == o.msg \in doomed \/ o \in objects

\* What is in the bucket before a row says so, and what a cleanup may delete.
ObjInv ==
  /\ RowsHaveObjects
  /\ \A m \in WithFile : sending[m] = "commit" => Kept(File(m))
  /\ \A w \in Workers :
       /\ At(w, "record") => Kept(Thumbnail(work[w].msg))
       /\ \A o \in work[w].keys : o.msg \in doomed

LEMMA ObjectFacts ==
  \A m : /\ File(m).msg = m /\ Thumbnail(m).msg = m
         /\ File(m).kind = "file" /\ Thumbnail(m).kind = "thumbnail"
  BY DEF File, Thumbnail

\* What any step may do to the objects.
LEMMA KeptStays ==
  ASSUME Inv, ObjInv, [Next]_vars
  PROVE  \A o \in Objects : Kept(o) => Kept(o)'
<1>1. CASE objects \subseteq objects' /\ doomed \subseteq doomed'
  BY <1>1 DEF Kept
<1>2. ASSUME NEW w \in Workers, DeleteBatch(w) PROVE \A o \in Objects : Kept(o) => Kept(o)'
  <2>1. \A o \in objects \ objects' : o \in work[w].keys
    BY <1>2 DEF DeleteBatch
  <2>2. UNCHANGED doomed
    BY <1>2 DEF DeleteBatch, history
  <2> QED BY <2>1, <2>2 DEF ObjInv, Kept
<1> QED
  BY <1>1, <1>2 DEF Next, Send, Step, Upload, Commit, Dispatch, FailSend, Take, QueueNotify,
     QueueThumbnail, ReadNotified, Push, Trim, ReadPictured, GetFile, PutThumbnail,
     RecordThumbnail, ReadOld, ForgetRows, FailTask, Beat, Age, vars, history

\* How rows come to name objects.
LEMMA NamedGrows ==
  ASSUME Inv, ObjInv, [Next]_vars
  PROVE  \A o \in Named' : o \in Named \/ Kept(o)'
<1>0. TypeOK
  BY DEF Inv
<1>1. CASE rows' \subseteq rows /\ thumbs' \subseteq thumbs
  BY <1>1 DEF Named
<1>2. ASSUME NEW m \in Messages, Commit(m) PROVE \A o \in Named' : o \in Named \/ Kept(o)'
  <2>1. m \in WithFile => Kept(File(m))
    BY <1>2 DEF ObjInv, Commit
  <2>2. m \in WithFile => Kept(File(m))'
    BY <1>2, <2>1 DEF Commit, Kept, history
  <2> QED BY <1>2, <2>2 DEF Named, Commit
<1>3. ASSUME NEW w \in Workers, RecordThumbnail(w) PROVE \A o \in Named' : o \in Named \/ Kept(o)'
  <2>1. PICK m : m = work[w].msg
    OBVIOUS
  <2>2. Kept(Thumbnail(m))
    BY <1>3, <2>1 DEF ObjInv, RecordThumbnail
  <2>3. Kept(Thumbnail(m))'
    BY <1>3, <2>2 DEF RecordThumbnail, Kept, history
  <2> QED BY <1>3, <2>1, <2>3 DEF Named, RecordThumbnail
<1> QED
  BY <1>1, <1>2, <1>3 DEF Next, Send, Step, Upload, Dispatch, FailSend, Take, QueueNotify,
     QueueThumbnail, ReadNotified, Push, Trim, ReadPictured, GetFile, PutThumbnail,
     ReadOld, DeleteBatch, ForgetRows, FailTask, Beat, Age, vars, database
LEMMA ObjInvNext == Inv /\ ObjInv /\ [Next]_vars => ObjInv'
<1> SUFFICES ASSUME Inv, ObjInv, [Next]_vars PROVE ObjInv'
  OBVIOUS
<1>1. TypeOK /\ TypeOK'
  BY InvNext DEF Inv
<1>2. \A o \in Objects : Kept(o) => Kept(o)'
  BY KeptStays
<1>3. RowsHaveObjects'
  <2>1. \A o \in Named' : o \in Named \/ Kept(o)'
    BY NamedGrows
  <2>2. \A o \in Named : o \in Objects /\ Kept(o)
    BY <1>1 DEF Named, Objects, TypeOK, ObjInv, RowsHaveObjects, Kept
  <2> QED BY <1>2, <2>1, <2>2 DEF RowsHaveObjects, Kept
<1>4. \A m \in WithFile : sending'[m] = "commit" => Kept(File(m))'
  <2> SUFFICES ASSUME NEW m \in WithFile, sending'[m] = "commit" PROVE Kept(File(m))'
    OBVIOUS
  <2>0. m \in Messages /\ File(m) \in Objects
    BY MessagesAssumption DEF Objects
  <2>1. CASE sending[m] = "commit"
    BY <1>2, <2>0, <2>1 DEF ObjInv
  <2>2. CASE sending[m] # "commit"
    <3>1. Upload(m)
      BY <1>1, <2>0, <2>2 DEF TypeOK, Next, Send, Step, Upload, Commit, Dispatch, FailSend,
         SendApplied, Take, QueueNotify, QueueThumbnail, ReadNotified, Push, Trim, ReadPictured,
         GetFile, PutThumbnail, RecordThumbnail, ReadOld, DeleteBatch, ForgetRows, FailTask,
         Beat, Age, vars
    <3> QED BY <2>0, <3>1 DEF Upload, Kept
  <2> QED BY <2>1, <2>2
<1>5. ASSUME NEW v \in Workers, work'[v] = work[v]
      PROVE  /\ At(v, "record")' => Kept(Thumbnail(work[v].msg))'
             /\ \A o \in work'[v].keys : o.msg \in doomed'
  <2>1. doomed \subseteq doomed'
    BY DEF Next, Send, Step, Upload, Commit, Dispatch, FailSend,
         Take, QueueNotify, QueueThumbnail, ReadNotified, Push, Trim, ReadPictured,
         GetFile, PutThumbnail, RecordThumbnail, ReadOld, DeleteBatch, ForgetRows, FailTask,
         Beat, Age, vars, history
  <2>2. At(v, "record") => Thumbnail(work[v].msg) \in Objects
    BY Drawn DEF At, Objects
  <2>3. PICK o : o = Thumbnail(work[v].msg)
    OBVIOUS
  <2>4. At(v, "record") => Kept(o)'
    BY <1>2, <2>2, <2>3 DEF ObjInv
  <2>5. Thumbnail(work[v].msg)' = o
    BY <1>5, <2>3 DEF Thumbnail
  <2>6. At(v, "record")' => Kept(Thumbnail(work[v].msg))'
    BY <1>5, <2>4, <2>5 DEF At, Kept
  <2> QED BY <1>5, <2>1, <2>6 DEF ObjInv
<1>6. ASSUME NEW w \in Workers, Take(w) \/ Step(w) \/ FailTask(w)
      PROVE  /\ At(w, "record")' => Kept(Thumbnail(work[w].msg))'
             /\ \A o \in work'[w].keys : o.msg \in doomed'
  <2>0. work[w] \in Works /\ work \in [Workers -> Works]
    BY <1>1 DEF TypeOK
  <2>1. CASE End(w)
    BY <1>1, <2>1, EndIdles DEF Idle, Working, At
  <2>2. CASE Take(w)
    <3>1. PICK j \in Jobs : work' = [work EXCEPT ![w] = Working(j.task, j.msg)]
      BY <2>2 DEF Take
    <3>2. work'[w].step = j.task /\ work'[w].keys = {}
      BY <2>0, <3>1 DEF Working
    <3>3. j.task # "record"
      BY DEF Jobs, Cleanup
    <3> QED BY <3>2, <3>3 DEF At
  <2>3. ASSUME NEW step \in OfMessage \ {"record"}, Goto(w, step)
        PROVE  ~At(w, "record")' /\ work'[w].keys = work[w].keys
    <3>1. work'[w] = [work[w] EXCEPT !.step = step]
      BY <1>1, <2>3, GotoMoves
    <3> QED BY <2>0, <3>1 DEF At, Works
  <2>4. CASE UNCHANGED work
    BY <1>5, <2>4
  <2>5. CASE UNCHANGED doomed /\ \E step \in OfMessage \ {"record"} : Goto(w, step)
    BY <2>3, <2>5 DEF ObjInv
  <2>6. CASE PutThumbnail(w) /\ Goto(w, "record")
    <3>1. work'[w] = [work[w] EXCEPT !.step = "record"]
      BY <1>1, <2>6, GotoMoves DEF OfMessage
    <3>2. work'[w].msg = work[w].msg /\ work'[w].keys = work[w].keys
      BY <2>0, <3>1 DEF Works
    <3>3. Thumbnail(work[w].msg) \in objects' \/ End(w)
      BY <2>6 DEF PutThumbnail
    <3>4. CASE Thumbnail(work[w].msg) \in objects'
      <4>1. Thumbnail(work'[w].msg) \in objects'
        BY <3>2, <3>4
      <4>2. Kept(Thumbnail(work[w].msg))'
        BY <4>1 DEF Kept
      <4> QED BY <2>6, <3>2, <4>2 DEF PutThumbnail, history, ObjInv
    <3> QED BY <2>1, <3>3, <3>4
  <2>7. CASE ReadOld(w) /\ ~End(w)
    <3>1. rows \cap old \in SUBSET Messages
      BY <1>1 DEF TypeOK
    <3> DEFINE keys == {File(m) : m \in (rows \cap old) \cap WithFile}
                         \cup {Thumbnail(m) : m \in (rows \cap old) \cap thumbs}
    <3>2. keys \in SUBSET Objects
      BY <1>1 DEF TypeOK, Objects
    <3>3. work' = [work EXCEPT ![w] = Cleaning(rows \cap old, keys)]
      BY <2>7 DEF ReadOld, End
    <3>4. work'[w] = Cleaning(rows \cap old, keys)
      BY <1>1, <3>1, <3>2, <3>3, CleanupStep
    <3>5. \A o \in keys : o.msg \in rows \cap old
      BY ObjectFacts
    <3>6. doomed' = doomed \cup (rows \cap old)
      BY <2>7 DEF ReadOld
    <3> QED BY <3>4, <3>5, <3>6 DEF Cleaning, At
  <2>8. CASE UNCHANGED doomed /\ \E keys \in SUBSET work[w].keys : Clean(w, keys)
    <3>1. PICK keys \in SUBSET work[w].keys : Clean(w, keys)
      BY <2>8
    <3>2. work[w].found \in SUBSET Messages /\ keys \in SUBSET Objects
      BY <2>0 DEF Works
    <3>3. work'[w] = Cleaning(work[w].found, keys)
      BY <1>1, <3>1, <3>2, CleanupStep DEF Clean
    <3> QED BY <2>8, <3>3 DEF Cleaning, At, ObjInv
  <2>9. CASE DeleteBatch(w) \/ FailTask(w)
    BY <2>1, <2>8, <2>9 DEF DeleteBatch, FailTask, history
  <2>10. CASE ReadOld(w)
    BY <2>1, <2>7, <2>10
  <2>11. CASE PutThumbnail(w)
    BY <2>1, <2>6, <2>11 DEF PutThumbnail, Applied
  <2>12. CASE QueueNotify(w) \/ ReadNotified(w) \/ Push(w) \/ ReadPictured(w) \/ GetFile(w)
    BY <2>1, <2>4, <2>5, <2>12 DEF QueueNotify, ReadNotified, Push, Applied, ReadPictured, GetFile,
       history, OfMessage
  <2>13. CASE QueueThumbnail(w) \/ Trim(w) \/ RecordThumbnail(w) \/ ForgetRows(w)
    BY <2>1, <2>13 DEF QueueThumbnail, Trim, RecordThumbnail, ForgetRows
  <2> QED BY <1>6, <2>2, <2>9, <2>10, <2>11, <2>12, <2>13 DEF Step
<1>7. ASSUME NEW v \in Workers
      PROVE  /\ At(v, "record")' => Kept(Thumbnail(work[v].msg))'
             /\ \A o \in work'[v].keys : o.msg \in doomed'
  <2>1. CASE UNCHANGED work
    BY <1>5, <2>1
  <2>2. ASSUME NEW w \in Workers, Take(w) \/ Step(w) \/ FailTask(w), v # w
        PROVE  work'[v] = work[v]
    <3>1. CASE Take(w)
      BY <1>1, <2>2, <3>1 DEF Take, TypeOK
    <3>2. CASE Step(w) \/ FailTask(w)
      BY <2>2, <3>2, StepsWork DEF WorkStep
    <3> QED BY <2>2, <3>1, <3>2
  <2>3. CASE \E w \in Workers : Take(w) \/ Step(w) \/ FailTask(w)
    BY <1>5, <1>6, <2>2, <2>3
  <2> QED BY <2>1, <2>3 DEF Next, Send, Upload, Commit, Dispatch, FailSend, Beat, Age, vars
<1> QED BY <1>3, <1>4, <1>7 DEF ObjInv

\* Whatever workers and cleanups do at the same time, what a row names is in the
\* bucket until a cleanup has read the message.
THEOREM Attached == Spec => []RowsHaveObjects
<1>1. Init => ObjInv
  <2> SUFFICES ASSUME Init PROVE ObjInv
    OBVIOUS
  <2>1. RowsHaveObjects /\ \A m \in WithFile : sending[m] # "commit"
    BY MessagesAssumption DEF Init, RowsHaveObjects, Named
  <2>2. \A w \in Workers : work[w].step = "idle" /\ work[w].keys = {}
    BY DEF Init, Idle, Working
  <2> QED BY <2>1, <2>2 DEF ObjInv, At
<1>2. ObjInv => RowsHaveObjects
  BY DEF ObjInv
<1> QED BY <1>1, <1>2, ObjInvNext, Invariance, PTL DEF Spec
------------------------------------------------------------------------------
(* What is left behind *)

\* A stored message is not uploaded again.
SendInv == \A m \in Messages : m \in Stored => sending[m] \in {"dispatch", "ended"}

FilesInv == \A m \in WithFile : File(m) \in objects => m \in rows \/ sending[m] = "commit"

Recording(m) == \E w \in Workers : At(w, "record") /\ work[w].msg = m

ThumbnailsInv ==
  \A m \in Images : Thumbnail(m) \in objects => m \in thumbs \cup late \/ Recording(m)

\* A cleanup still has to delete the objects of what it has found, but for the
\* thumbnails that it did not find.
CleanOf(w) ==
  work[w].step \in {"delete", "forget"} =>
    /\ work[w].found \subseteq Stored \cap doomed
    /\ \A m \in work[w].found \cap WithFile : File(m) \in objects => File(m) \in work[w].keys
    /\ \A m \in work[w].found \cap Images :
         Thumbnail(m) \in objects =>
           Thumbnail(m) \in work[w].keys \/ m \in late \/ Recording(m)
    /\ At(w, "forget") => work[w].keys = {}

CleanInv == \A w \in Workers : CleanOf(w)

\* A message is read by a cleanup before it is deleted.
DoomedInv == deleted \subseteq doomed

LateInv == faults = 0 => FilesInv /\ ThumbnailsInv /\ CleanInv /\ DoomedInv

LEMMA SendInvNext == Inv /\ SendInv /\ [Next]_vars => SendInv'
<1> SUFFICES ASSUME Inv, SendInv, [Next]_vars PROVE SendInv'
  OBVIOUS
<1>1. TypeOK
  BY DEF Inv
<1>2. ASSUME NEW m \in Messages, Commit(m) PROVE SendInv'
  BY <1>1, <1>2 DEF Commit, SendApplied, SendInv, Stored, history, TypeOK
<1>3. ASSUME NEW m \in Messages, Upload(m) \/ Dispatch(m) \/ FailSend(m) PROVE SendInv'
  BY <1>1, <1>3 DEF Upload, Dispatch, FailSend, SendApplied, SendInv, Stored, database, history,
                    TypeOK
<1>4. CASE UNCHANGED sending /\ Stored' \subseteq Stored
  BY <1>4 DEF SendInv
<1>5. ASSUME NEW w \in Workers, ForgetRows(w) PROVE SendInv'
  BY <1>4, <1>5 DEF ForgetRows, Stored
<1>6. CASE UNCHANGED <<sending, rows, deleted>>
  BY <1>4, <1>6 DEF Stored
<1> QED
  BY <1>2, <1>3, <1>5, <1>6 DEF Next, Send, Step, Take, QueueNotify,
     QueueThumbnail, ReadNotified, Push, Trim, ReadPictured, GetFile, PutThumbnail,
     RecordThumbnail, ReadOld, DeleteBatch, FailTask, Beat, Age, vars, database, history

\* The steps that a behaviour without failures takes.
LEMMA NoFault ==
  ASSUME Inv, [Next]_vars, faults' = 0
  PROVE  /\ faults = 0
         /\ ~Fault
         /\ \A m \in Messages : ~FailSend(m)
         /\ \A w \in Workers : ~FailTask(w)
<1>1. faults \in Nat
  BY LimitsAssumption DEF Inv, TypeOK
<1>2. ~Fault
  BY <1>1 DEF Fault
<1>3. Fault \/ UNCHANGED faults
  BY DEF Next, Send, Upload, Commit, Dispatch, FailSend, SendApplied, Take, Step, QueueNotify,
         QueueThumbnail, ReadNotified, Push, Trim, ReadPictured, GetFile, PutThumbnail,
         RecordThumbnail, ReadOld, DeleteBatch, ForgetRows, FailTask, Applied, Enqueue, Beat, Age,
         vars, bounds
<1> QED BY <1>2, <1>3 DEF FailSend, FailTask

LEMMA FilesNext ==
  ASSUME Inv, SendInv, FilesInv, CleanInv, [Next]_vars, faults' = 0
  PROVE  FilesInv'
<1>1. TypeOK
  BY DEF Inv
<1>2. CASE objects' \subseteq objects \cup {Thumbnail(m) : m \in Images} /\ rows \subseteq rows'
           /\ UNCHANGED sending
  <2>1. \A m \in WithFile, n \in Images : File(m) # Thumbnail(n)
    BY ObjectFacts
  <2> QED BY <1>2, <2>1 DEF FilesInv
<1>3. ASSUME NEW m \in Messages, Upload(m) PROVE FilesInv'
  <2>1. sending' = [sending EXCEPT ![m] = "commit"] /\ objects' \subseteq objects \cup {File(m)}
    BY <1>3, NoFault DEF Upload, SendApplied
  <2>2. \A n \in WithFile : File(n) = File(m) => n = m
    BY ObjectFacts
  <2>3. UNCHANGED rows /\ sending'[m] = "commit" /\ \A n \in Messages \ {m} : sending'[n] = sending[n]
    BY <1>1, <1>3, <2>1 DEF Upload, database, TypeOK
  <2> QED BY <2>1, <2>2, <2>3, MessagesAssumption DEF FilesInv
<1>4. ASSUME NEW m \in Messages, Commit(m) \/ Dispatch(m) PROVE FilesInv'
  <2>1. /\ UNCHANGED objects /\ rows \subseteq rows'
        /\ sending[m] = "commit" => m \in rows'
        /\ \A n \in Messages \ {m} : sending'[n] = sending[n]
    BY <1>1, <1>4 DEF Commit, Dispatch, SendApplied, database, TypeOK
  <2> QED BY <2>1, MessagesAssumption DEF FilesInv
<1>5. ASSUME NEW w \in Workers, ForgetRows(w) PROVE FilesInv'
  <2>1. \A m \in work[w].found \cap WithFile : File(m) \notin objects
    BY <1>5 DEF ForgetRows, CleanInv, CleanOf, At
  <2> QED BY <1>5, <2>1 DEF ForgetRows, FilesInv
<1>6. ASSUME NEW w \in Workers, PutThumbnail(w) PROVE FilesInv'
  <2>1. work[w].msg \in Images
    BY <1>6, Drawn DEF PutThumbnail, At
  <2> QED BY <1>2, <1>6, <2>1 DEF PutThumbnail, database
<1> QED
  BY <1>2, <1>3, <1>4, <1>5, <1>6, NoFault DEF Next, Send, Step, Take, QueueNotify,
     QueueThumbnail, ReadNotified, Push, Trim, ReadPictured, GetFile,
     RecordThumbnail, ReadOld, DeleteBatch, Beat, Age, vars, database

\* A worker that is recording stays at it or has recorded: in time, or late.
LEMMA RecordingNext ==
  ASSUME Inv, DoomedInv, [Next]_vars, faults' = 0, NEW m \in Images, Recording(m)
  PROVE  /\ m \in thumbs' \cup late' \/ Recording(m)'
         /\ m \in doomed => m \in late' \/ Recording(m)'
<1>1. TypeOK /\ work \in [Workers -> Works]
  BY DEF Inv, TypeOK
<1>2. PICK w \in Workers : work[w].step = "record" /\ work[w].msg = m
  BY DEF Recording, At
<1>3. CASE RecordThumbnail(w)
  <2>1. m \in rows \cup deleted
    BY <1>2 DEF Inv, WorkInv, Stored, OfMessage
  <2> QED BY <1>2, <1>3, <2>1 DEF RecordThumbnail, DoomedInv
<1>4. CASE work'[w] = work[w]
  BY <1>2, <1>4 DEF Recording, At
<1>5. ASSUME NEW v \in Workers \ {w}, Take(v) \/ Step(v) PROVE work'[w] = work[w]
  <2>1. CASE Take(v)
    BY <1>1, <1>5, <2>1 DEF Take
  <2>2. CASE Step(v)
    BY <1>5, <2>2, StepsWork DEF WorkStep
  <2> QED BY <1>5, <2>1, <2>2
<1>6. ~Take(w) /\ (Step(w) => RecordThumbnail(w))
  BY <1>2 DEF Take, Step, QueueNotify, QueueThumbnail, ReadNotified, Push, Trim, ReadPictured,
              GetFile, PutThumbnail, ReadOld, DeleteBatch, ForgetRows, At
<1>7. CASE UNCHANGED work
  BY <1>4, <1>7
<1>8. CASE \E v \in Workers : Take(v) \/ Step(v)
  BY <1>3, <1>4, <1>5, <1>6, <1>8
<1> QED
  BY <1>7, <1>8, NoFault DEF Next, Send, Upload, Commit, Dispatch, Beat, Age, vars

\* A thumbnail that comes into the bucket is about to be recorded.
LEMMA ThumbnailComes ==
  ASSUME Inv, [Next]_vars, faults' = 0, NEW m \in Images,
         Thumbnail(m) \in objects', Thumbnail(m) \notin objects
  PROVE  Recording(m)'
<1>1. TypeOK /\ work \in [Workers -> Works]
  BY DEF Inv, TypeOK
<1>2. \A n \in Messages : Thumbnail(m) # File(n)
  BY ObjectFacts
<1>3. PICK w \in Workers : PutThumbnail(w)
  BY <1>2, NoFault DEF Next, Send, Upload, Commit, Dispatch, Step, Take, QueueNotify,
     QueueThumbnail, ReadNotified, Push, Trim, ReadPictured, GetFile,
     RecordThumbnail, ReadOld, DeleteBatch, ForgetRows, Beat, Age, vars
<1>4. Goto(w, "record") /\ Thumbnail(m) = Thumbnail(work[w].msg)
  BY <1>3, NoFault DEF PutThumbnail, Applied
<1>5. m = work[w].msg
  BY <1>4, ObjectFacts
<1>6. work'[w] = [work[w] EXCEPT !.step = "record"]
  BY <1>1, <1>4, GotoMoves DEF OfMessage
<1>7. work'[w].step = "record" /\ work'[w].msg = m
  BY <1>1, <1>5, <1>6 DEF Works
<1> QED
  BY <1>7 DEF Recording, At

LEMMA LateGrows == ASSUME [Next]_vars PROVE late \subseteq late' /\ doomed \subseteq doomed'
  BY DEF Next, Send, Upload, Commit, Dispatch, FailSend, Step, Take, QueueNotify,
     QueueThumbnail, ReadNotified, Push, Trim, ReadPictured, GetFile, PutThumbnail,
     RecordThumbnail, ReadOld, DeleteBatch, ForgetRows, FailTask, Beat, Age, vars, history

LEMMA DoomedNext ==
  ASSUME CleanInv, DoomedInv, [Next]_vars
  PROVE  DoomedInv'
<1>1. ASSUME NEW w \in Workers, ForgetRows(w) PROVE DoomedInv'
  BY <1>1 DEF ForgetRows, CleanInv, CleanOf, DoomedInv, At
<1>2. CASE UNCHANGED deleted
  BY <1>2, LateGrows DEF DoomedInv
<1> QED
  BY <1>1, <1>2 DEF Next, Send, Upload, Commit, Dispatch, FailSend, Step, Take, QueueNotify,
     QueueThumbnail, ReadNotified, Push, Trim, ReadPictured, GetFile, PutThumbnail,
     RecordThumbnail, ReadOld, DeleteBatch, FailTask, Beat, Age, vars, history

LEMMA ThumbnailsNext ==
  ASSUME Inv, ThumbnailsInv, CleanInv, DoomedInv, [Next]_vars, faults' = 0
  PROVE  ThumbnailsInv'
<1>1. SUFFICES ASSUME NEW m \in Images, Thumbnail(m) \in objects'
               PROVE  m \in thumbs' \cup late' \/ Recording(m)'
  BY DEF ThumbnailsInv
<1>2. CASE Thumbnail(m) \notin objects
  BY <1>1, <1>2, ThumbnailComes
<1>3. CASE m \in late
  BY <1>3, LateGrows
<1>4. CASE Recording(m)
  BY <1>4, RecordingNext
<1>5. CASE Thumbnail(m) \in objects /\ m \in thumbs /\ m \notin late /\ ~Recording(m)
  <2>1. ASSUME NEW w \in Workers, ForgetRows(w) PROVE m \in thumbs'
    BY <1>5, <2>1 DEF ForgetRows, CleanInv, CleanOf, At
  <2>2. CASE thumbs \subseteq thumbs'
    BY <1>5, <2>2
  <2> QED BY <2>1, <2>2 DEF Next, Send, Upload, Commit, Dispatch, FailSend, Step, Take,
       QueueNotify, QueueThumbnail, ReadNotified, Push, Trim, ReadPictured, GetFile,
       PutThumbnail, RecordThumbnail, ReadOld, DeleteBatch, FailTask, Beat, Age, vars, database
<1> QED
  BY <1>2, <1>3, <1>4, <1>5 DEF ThumbnailsInv

\* No file comes back into the bucket.
LEMMA FilesShrink ==
  ASSUME Inv, SendInv, [Next]_vars
  PROVE  \A m \in WithFile : m \in Stored /\ File(m) \in objects' => File(m) \in objects
<1> SUFFICES ASSUME NEW m \in WithFile, m \in Stored, File(m) \in objects'
             PROVE  File(m) \in objects
  OBVIOUS
<1>1. CASE objects' \subseteq objects
  BY <1>1
<1>2. ASSUME NEW n \in Messages, Upload(n) PROVE File(m) \in objects
  <2>1. n \notin Stored
    BY <1>2 DEF Upload, SendInv
  <2>2. File(n) # File(m)
    BY <2>1, ObjectFacts
  <2> QED BY <1>2, <2>2 DEF Upload
<1>3. ASSUME NEW w \in Workers, PutThumbnail(w) PROVE File(m) \in objects
  BY <1>3, ObjectFacts DEF PutThumbnail
<1> QED
  BY <1>1, <1>2, <1>3 DEF Next, Send, Commit, Dispatch, FailSend, Step, Take, QueueNotify,
     QueueThumbnail, ReadNotified, Push, Trim, ReadPictured, GetFile, RecordThumbnail, ReadOld,
     DeleteBatch, ForgetRows, FailTask, Beat, Age, vars

\* What a cleanup has found and not deleted stays found.
LEMMA ThumbnailsFound ==
  ASSUME Inv, DoomedInv, [Next]_vars, faults' = 0, NEW m \in Images, NEW keys, m \in doomed,
         Thumbnail(m) \in objects => Thumbnail(m) \in keys \/ m \in late \/ Recording(m),
         Thumbnail(m) \in objects'
  PROVE  Thumbnail(m) \in keys \/ m \in late' \/ Recording(m)'
  BY ThumbnailComes, RecordingNext, LateGrows

LEMMA CleanNext ==
  ASSUME Inv, SendInv, ThumbnailsInv, CleanInv, DoomedInv, [Next]_vars, faults' = 0
  PROVE  CleanInv'
<1>1. /\ TypeOK /\ work \in [Workers -> Works] /\ Stored \subseteq Stored'
      /\ doomed \subseteq doomed' /\ late \subseteq late'
  BY StoredGrows, LateGrows DEF Inv, TypeOK
<1>2. ASSUME NEW v \in Workers, work'[v] = work[v] PROVE CleanOf(v)'
  <2> SUFFICES ASSUME work[v].step \in {"delete", "forget"} PROVE CleanOf(v)'
    BY <1>2 DEF CleanOf
  <2>1. /\ work[v].found \subseteq Stored \cap doomed
        /\ \A m \in work[v].found \cap WithFile : File(m) \in objects => File(m) \in work[v].keys
        /\ \A m \in work[v].found \cap Images :
             Thumbnail(m) \in objects =>
               Thumbnail(m) \in work[v].keys \/ m \in late \/ Recording(m)
        /\ At(v, "forget") => work[v].keys = {}
    BY DEF CleanInv, CleanOf
  <2>2. \A m \in work[v].found \cap WithFile : File(m) \in objects' => File(m) \in work[v].keys
    BY <2>1, FilesShrink
  <2>3. \A m \in work[v].found \cap Images :
          Thumbnail(m) \in objects' =>
            Thumbnail(m) \in work[v].keys \/ m \in late' \/ Recording(m)'
    BY <2>1, ThumbnailsFound
  <2> QED BY <1>1, <1>2, <2>1, <2>2, <2>3 DEF CleanOf, At
<1>3. ASSUME NEW w \in Workers, work'[w].step \notin {"delete", "forget"} PROVE CleanOf(w)'
  BY <1>3 DEF CleanOf
<1>4. ASSUME NEW w \in Workers, NEW step \in OfMessage, Goto(w, step) PROVE CleanOf(w)'
  <2>1. work'[w] = [work[w] EXCEPT !.step = step]
    BY <1>1, <1>4, GotoMoves
  <2>2. work'[w].step = step
    BY <1>1, <2>1 DEF Works
  <2> QED BY <1>3, <2>2 DEF OfMessage
<1>5. ASSUME NEW w \in Workers, End(w) PROVE CleanOf(w)'
  BY <1>1, <1>3, <1>5, EndIdles DEF Idle, Working
<1>6. ASSUME NEW w \in Workers, Take(w) PROVE CleanOf(w)'
  <2>1. PICK j \in Jobs : work' = [work EXCEPT ![w] = Working(j.task, j.msg)]
    BY <1>6 DEF Take
  <2>2. work'[w].step = j.task
    BY <1>1, <2>1 DEF Working
  <2>3. j.task \notin {"delete", "forget"}
    BY DEF Jobs, Cleanup
  <2> QED BY <1>3, <2>2, <2>3
<1>7. ASSUME NEW w \in Workers, ReadOld(w) PROVE CleanOf(w)'
  <2>1. CASE End(w)
    BY <1>5, <2>1
  <2>2. CASE ~End(w)
    <3>1. rows \cap old \in SUBSET Messages
      BY <1>1 DEF TypeOK
    <3> DEFINE keys == {File(m) : m \in (rows \cap old) \cap WithFile}
                         \cup {Thumbnail(m) : m \in (rows \cap old) \cap thumbs}
    <3>2. keys \in SUBSET Objects
      BY <1>1 DEF TypeOK, Objects
    <3>3. work' = [work EXCEPT ![w] = Cleaning(rows \cap old, keys)]
      BY <1>7, <2>2 DEF ReadOld, End
    <3>4. work'[w] = Cleaning(rows \cap old, keys)
      BY <1>1, <3>1, <3>2, <3>3, CleanupStep
    <3>5. rows \cap old \subseteq Stored' \cap doomed'
      BY <1>1, <1>7 DEF Stored, ReadOld
    <3>6. \A m \in (rows \cap old) \cap WithFile : File(m) \in keys
      OBVIOUS
    <3>7. \A m \in (rows \cap old) \cap Images :
            Thumbnail(m) \in objects => Thumbnail(m) \in keys \/ m \in late \/ Recording(m)
      BY DEF ThumbnailsInv
    <3>8. \A m \in Images : Recording(m) => m \in late' \/ Recording(m)'
      <4>1. ASSUME NEW m \in Images, Recording(m) PROVE Recording(m)'
        <5>1. PICK v \in Workers : work[v].step = "record" /\ work[v].msg = m
          BY <4>1 DEF Recording, At
        <5>2. v # w
          BY <1>7, <5>1 DEF ReadOld, At
        <5>3. work'[v] = work[v]
          BY <1>1, <3>3, <5>2
        <5> QED BY <5>1, <5>3 DEF Recording, At
      <4> QED BY <4>1
    <3>9. UNCHANGED objects
      BY <1>7 DEF ReadOld
    <3> HIDE DEF keys
    <3>10. /\ work'[w].found = rows \cap old /\ work'[w].keys = keys
           /\ work'[w].step = IF keys = {} THEN "forget" ELSE "delete"
      BY <3>4 DEF Cleaning
    <3>11. \A m \in (rows \cap old) \cap Images :
             Thumbnail(m) \in objects' => Thumbnail(m) \in keys \/ m \in late' \/ Recording(m)'
      BY <1>1, <3>7, <3>8, <3>9
    <3> QED BY <3>5, <3>6, <3>10, <3>11 DEF CleanOf, At
  <2> QED BY <2>1, <2>2
<1>8. ASSUME NEW w \in Workers, DeleteBatch(w) PROVE CleanOf(w)'
  <2>1. PICK chunk \in SUBSET work[w].keys :
          objects' = objects \ chunk /\ Clean(w, work[w].keys \ chunk)
    BY <1>8, NoFault DEF DeleteBatch
  <2>2. work[w].found \in SUBSET Messages /\ work[w].keys \ chunk \in SUBSET Objects
    BY <1>1 DEF Works
  <2>3. work'[w] = Cleaning(work[w].found, work[w].keys \ chunk)
    BY <1>1, <2>1, <2>2, CleanupStep DEF Clean
  <2>4. /\ work[w].found \subseteq Stored \cap doomed
        /\ work[w].found \subseteq Stored' \cap doomed'
        /\ \A m \in work[w].found \cap WithFile : File(m) \in objects => File(m) \in work[w].keys
        /\ \A m \in work[w].found \cap Images :
             Thumbnail(m) \in objects =>
               Thumbnail(m) \in work[w].keys \/ m \in late \/ Recording(m)
    BY <1>1, <1>8 DEF DeleteBatch, At, CleanInv, CleanOf
  <2>5. \A m \in work[w].found \cap Images :
          Thumbnail(m) \in objects' =>
            Thumbnail(m) \in work[w].keys \ chunk \/ m \in late' \/ Recording(m)'
    <3>1. \A m \in work[w].found \cap Images :
            Thumbnail(m) \in objects' =>
              Thumbnail(m) \in work[w].keys \/ m \in late' \/ Recording(m)'
      BY <2>4, ThumbnailsFound
    <3> QED BY <2>1, <3>1
  <2>6. \A m \in work[w].found \cap WithFile : File(m) \in objects' => File(m) \in work[w].keys \ chunk
    BY <2>1, <2>4
  <2>7. /\ work'[w].found = work[w].found /\ work'[w].keys = work[w].keys \ chunk
        /\ work'[w].step = IF work[w].keys \ chunk = {} THEN "forget" ELSE "delete"
    BY <2>3 DEF Cleaning
  <2> QED BY <2>4, <2>5, <2>6, <2>7 DEF CleanOf, At
<1>9. ASSUME NEW w \in Workers, Step(w) PROVE CleanOf(w)'
  <2>1. CASE QueueNotify(w) \/ ReadNotified(w) \/ Push(w) \/ ReadPictured(w) \/ GetFile(w)
             \/ PutThumbnail(w)
    BY <1>4, <1>5, <2>1, NoFault DEF QueueNotify, ReadNotified, Push, Applied, ReadPictured, GetFile,
       PutThumbnail, OfMessage
  <2>2. CASE QueueThumbnail(w) \/ Trim(w) \/ RecordThumbnail(w) \/ ForgetRows(w)
    BY <1>5, <2>2 DEF QueueThumbnail, Trim, RecordThumbnail, ForgetRows
  <2> QED BY <1>7, <1>8, <1>9, <2>1, <2>2 DEF Step
<1>10. ASSUME NEW v \in Workers PROVE CleanOf(v)'
  <2>1. ASSUME NEW w \in Workers, Take(w) \/ Step(w), v # w PROVE work'[v] = work[v]
    <3>1. CASE Take(w)
      BY <1>1, <2>1, <3>1 DEF Take
    <3>2. CASE Step(w)
      BY <2>1, <3>2, StepsWork DEF WorkStep
    <3> QED BY <2>1, <3>1, <3>2
  <2>2. CASE UNCHANGED work
    BY <1>2, <2>2
  <2>3. CASE \E w \in Workers : Take(w) \/ Step(w)
    BY <1>2, <1>6, <1>9, <2>1, <2>3
  <2> QED BY <2>2, <2>3, NoFault DEF Next, Send, Upload, Commit, Dispatch, Beat, Age, vars
<1> QED BY <1>10 DEF CleanInv

LEMMA LateNext == Inv /\ SendInv /\ LateInv /\ [Next]_vars => LateInv'
<1> SUFFICES ASSUME Inv, SendInv, LateInv, [Next]_vars, faults' = 0
             PROVE  FilesInv' /\ ThumbnailsInv' /\ CleanInv' /\ DoomedInv'
  BY DEF LateInv
<1>1. FilesInv /\ ThumbnailsInv /\ CleanInv /\ DoomedInv
  BY NoFault DEF LateInv
<1> QED BY <1>1, FilesNext, ThumbnailsNext, CleanNext, DoomedNext

\* When nothing fails, only a thumbnail that was recorded after a cleanup had read
\* its message can be left in the bucket without a row; a cleanup takes all others.
THEOREM LeftBehind == Spec => []OnlyLateThumbnailsRemain
<1>1. Init => SendInv /\ LateInv
  <2> SUFFICES ASSUME Init PROVE SendInv /\ LateInv
    OBVIOUS
  <2>1. Stored = {} /\ objects = {}
    BY DEF Init, Stored
  <2>2. \A w \in Workers : work[w].step = "idle"
    BY DEF Init, Idle, Working
  <2>3. deleted = {}
    BY DEF Init
  <2> QED BY <2>1, <2>2, <2>3
          DEF SendInv, LateInv, FilesInv, ThumbnailsInv, CleanInv, CleanOf, DoomedInv
<1>2. Inv /\ LateInv => OnlyLateThumbnailsRemain
  <2> SUFFICES ASSUME Inv, faults = 0, FilesInv, ThumbnailsInv, NEW o \in objects \ Named
               PROVE  \/ o.kind = "thumbnail" /\ o.msg \in late
                      \/ o.kind = "file" /\ sending[o.msg] = "commit"
                      \/ /\ o.kind = "thumbnail"
                         /\ \E w \in Workers : At(w, "record") /\ work[w].msg = o.msg
    BY DEF LateInv, OnlyLateThumbnailsRemain
  <2>1. o \in Objects
    BY DEF Inv, TypeOK
  <2>2. ASSUME NEW m \in WithFile, o = File(m) PROVE o.kind = "file" /\ sending[o.msg] = "commit"
    <3>1. m \notin rows
      BY <2>2 DEF Named
    <3> QED BY <2>2, <3>1, ObjectFacts DEF FilesInv
  <2>3. ASSUME NEW m \in Images, o = Thumbnail(m)
        PROVE  /\ o.kind = "thumbnail"
               /\ \/ o.msg \in late
                  \/ \E w \in Workers : At(w, "record") /\ work[w].msg = o.msg
    <3>1. m \notin thumbs
      BY <2>3 DEF Named
    <3>2. o.msg = m /\ o.kind = "thumbnail"
      BY <2>3, ObjectFacts
    <3> QED BY <2>3, <3>1, <3>2 DEF ThumbnailsInv, Recording
  <2> QED BY <2>1, <2>2, <2>3 DEF Objects
<1> QED BY <1>1, <1>2, SendInvNext, LateNext, Invariance, PTL DEF Spec

------------------------------------------------------------------------------
(* The notification list *)

\* How many messages the list may hold above its limit.
Excess == Cardinality(Trimmers) + faults

LEMMA TrimmersFinite == IsFiniteSet(Trimmers) /\ Cardinality(Trimmers) \in Nat
  BY WorkersAssumption, FS_Subset, FS_CardinalityType DEF Trimmers

\* A front of a sequence stays a front when the same element is put before both.
LEMMA PushedFront ==
  ASSUME NEW S, NEW p \in Seq(S), NEW l \in Seq(S), NEW x \in S,
         Len(l) <= Len(p), l = SubSeq(p, 1, Len(l))
  PROVE  /\ <<x>> \o l \in Seq(S) /\ Len(<<x>> \o l) = Len(l) + 1
         /\ <<x>> \o l = SubSeq(<<x>> \o p, 1, Len(l) + 1)
<1>1. \A i \in 1 .. Len(l) : l[i] = p[i]
  OBVIOUS
<1>2. /\ Len(<<x>> \o l) = Len(l) + 1 /\ Len(<<x>> \o p) = Len(p) + 1
      /\ <<x>> \o l \in Seq(S) /\ <<x>> \o p \in Seq(S)
  OBVIOUS
<1>3. Len(SubSeq(<<x>> \o p, 1, Len(l) + 1)) = Len(l) + 1
  BY <1>2
<1>4. \A i \in 1 .. Len(l) + 1 : (<<x>> \o l)[i] = (<<x>> \o p)[i]
  BY <1>1
<1>5. \A i \in 1 .. Len(l) + 1 : SubSeq(<<x>> \o p, 1, Len(l) + 1)[i] = (<<x>> \o p)[i]
  BY <1>2
<1> QED
  BY <1>2, <1>3, <1>4, <1>5

\* And so does a front of that front.
LEMMA FrontOfFront ==
  ASSUME NEW S, NEW p \in Seq(S), NEW l \in Seq(S), Len(l) <= Len(p),
         l = SubSeq(p, 1, Len(l)), NEW n \in 0 .. Len(l)
  PROVE  /\ SubSeq(l, 1, n) = SubSeq(p, 1, n) /\ Len(SubSeq(l, 1, n)) = n
<1>1. \A i \in 1 .. Len(l) : l[i] = p[i]
  OBVIOUS
<1> QED
  BY <1>1

\* How far the list may exceed its limit after a step of worker w.
LEMMA ExcessMoves ==
  ASSUME TypeOK, TypeOK', NEW w \in Workers, \A v \in Workers \ {w} : work'[v] = work[v]
  PROVE  Excess' = Excess + (faults' - faults)
                     + (IF At(w, "trim")' THEN 1 ELSE 0) - (IF At(w, "trim") THEN 1 ELSE 0)
<1>1. Trimmers \ {w} = Trimmers' \ {w}
  BY DEF Trimmers, At
<1>2. Cardinality(Trimmers \ {w}) = Cardinality(Trimmers) - (IF At(w, "trim") THEN 1 ELSE 0)
  BY TrimmersFinite, FS_RemoveElement DEF Trimmers
<1>3. IsFiniteSet(Trimmers')
  BY WorkersAssumption, FS_Subset DEF Trimmers
<1>4. Cardinality(Trimmers' \ {w}) = Cardinality(Trimmers') - (IF At(w, "trim")' THEN 1 ELSE 0)
  <2>1. w \in Trimmers' <=> At(w, "trim")'
    BY DEF Trimmers
  <2> QED BY <1>3, <2>1, FS_RemoveElement, FS_CardinalityType
<1>5. Cardinality(Trimmers) \in Nat /\ Cardinality(Trimmers') \in Nat
  BY <1>3, TrimmersFinite, FS_CardinalityType
<1>6. faults \in Nat /\ faults' \in Nat
  BY LimitsAssumption DEF TypeOK
<1> QED
  BY <1>1, <1>2, <1>4, <1>5, <1>6 DEF Excess

\* No step makes room for another push but one that ends in an excess.
LEMMA ListNext == Inv /\ NewestKept /\ [Next]_vars => NewestKept'
<1> SUFFICES ASSUME Inv, NewestKept, [Next]_vars PROVE NewestKept'
  OBVIOUS
<1>1. TypeOK /\ TypeOK'
  BY TypeNext DEF Inv
<1>2. /\ list \in Seq(Messages) /\ pushed \in Seq(Messages) /\ MaxList \in Nat \ {0}
      /\ Len(list) <= Len(pushed) /\ list = SubSeq(pushed, 1, Len(list))
      /\ Len(list) >= IF Len(pushed) < MaxList THEN Len(pushed) ELSE MaxList
      /\ Len(list) <= MaxList + Excess
  BY <1>1, TrimmersFinite, LimitsAssumption DEF NewestKept, TypeOK, Excess
<1>3. Excess \in Nat /\ faults \in Nat /\ faults' \in Nat
  BY <1>1, LimitsAssumption, TrimmersFinite DEF TypeOK, Excess
<1>4. Cardinality(Trimmers') \in Nat /\ Excess' \in Nat
  <2>1. IsFiniteSet(Trimmers')
    BY WorkersAssumption, FS_Subset DEF Trimmers
  <2> QED BY <1>3, <2>1, FS_CardinalityType DEF Excess
<1>5. CASE UNCHANGED <<list, pushed>> /\ Excess' >= Excess
  BY <1>2, <1>3, <1>4, <1>5 DEF NewestKept, Excess
<1>6. CASE UNCHANGED <<list, pushed, work>> /\ faults' >= faults
  <2>1. Trimmers' = Trimmers
    BY <1>6 DEF Trimmers, At
  <2>2. Excess' >= Excess
    BY <1>3, <1>6, <2>1, TrimmersFinite DEF Excess
  <2> QED BY <1>5, <1>6, <2>2
<1>7. ASSUME NEW w \in Workers, UNCHANGED <<list, pushed>>, ~At(w, "trim"), faults' >= faults,
             \A v \in Workers \ {w} : work'[v] = work[v]
      PROVE  NewestKept'
  BY <1>1, <1>3, <1>5, <1>7, ExcessMoves
<1>8. ASSUME NEW w \in Workers, Push(w) PROVE NewestKept'
  <2>1. PICK x \in Messages : list' = <<x>> \o list /\ pushed' = <<x>> \o pushed
    BY <1>1, <1>8 DEF Inv, WorkInv, Push, At, OfMessage, Stored, TypeOK
  <2>2. /\ list' = SubSeq(pushed', 1, Len(list')) /\ Len(list') = Len(list) + 1
        /\ Len(pushed') = Len(pushed) + 1
    BY <1>2, <2>1, PushedFront
  <2>3. \A v \in Workers \ {w} : work'[v] = work[v]
    BY <1>1, <1>8 DEF Push, Applied, Goto, End, TypeOK
  <2>4. /\ ~At(w, "trim")
        /\ \/ At(w, "trim")' /\ faults' = faults
           \/ faults' = faults + 1
    BY <1>1, <1>8 DEF Push, Applied, Goto, Fault, At, TypeOK, Works, bounds
  <2>5. Excess' >= Excess + 1
    BY <1>1, <1>3, <2>3, <2>4, ExcessMoves
  <2> QED BY <1>2, <1>3, <1>4, <2>2, <2>5 DEF NewestKept, Excess
<1>9. ASSUME NEW w \in Workers, Trim(w) PROVE NewestKept'
  <2> DEFINE n == IF Len(list) < MaxList THEN Len(list) ELSE MaxList
  <2>1. list' = SubSeq(list, 1, n) /\ pushed' = pushed /\ n \in 0 .. Len(list)
    BY <1>2, <1>9 DEF Trim, history
  <2>2. list' = SubSeq(pushed', 1, n) /\ Len(list') = n
    BY <1>2, <2>1, FrontOfFront
  <2> QED BY <1>2, <1>3, <1>4, <2>1, <2>2 DEF NewestKept
<1>10. ASSUME NEW w \in Workers, FailTask(w) PROVE NewestKept'
  <2>1. UNCHANGED <<list, pushed>> /\ faults' = faults + 1
    BY <1>10 DEF FailTask, Fault, history
  <2>2. \A v \in Workers \ {w} : work'[v] = work[v]
    BY <1>1, <1>10 DEF FailTask, End, Clean, TypeOK
  <2>3. Excess' >= Excess
    BY <1>1, <1>3, <2>1, <2>2, ExcessMoves
  <2> QED BY <1>5, <2>1, <2>3
<1>11. ASSUME NEW w \in Workers, Take(w) PROVE NewestKept'
  <2>1. UNCHANGED <<list, pushed, faults>> /\ ~At(w, "trim")
    BY <1>11 DEF Take, At, bounds, history
  <2>2. \A v \in Workers \ {w} : work'[v] = work[v]
    BY <1>1, <1>11 DEF Take, TypeOK
  <2> QED BY <1>3, <1>7, <2>1, <2>2
<1>12. ASSUME NEW w \in Workers,
              \/ QueueNotify(w) \/ QueueThumbnail(w) \/ ReadNotified(w) \/ ReadPictured(w)
              \/ GetFile(w) \/ PutThumbnail(w) \/ RecordThumbnail(w) \/ ReadOld(w)
              \/ DeleteBatch(w) \/ ForgetRows(w)
       PROVE  NewestKept'
  <2>1. UNCHANGED <<list, pushed>> /\ ~At(w, "trim")
    BY <1>12 DEF QueueNotify, QueueThumbnail, ReadNotified, ReadPictured, GetFile, PutThumbnail,
                 RecordThumbnail, ReadOld, DeleteBatch, ForgetRows, At, history
  <2>2. faults' >= faults
    <3>1. Fault \/ UNCHANGED bounds
      BY <1>12 DEF QueueNotify, QueueThumbnail, ReadNotified, ReadPictured, GetFile,
                   PutThumbnail, RecordThumbnail, ReadOld, DeleteBatch, ForgetRows, Applied,
                   Enqueue
    <3> QED BY <1>3, <3>1 DEF Fault, bounds
  <2>3. \A v \in Workers \ {w} : work'[v] = work[v]
    BY <1>12, StepsWork DEF WorkStep, Step
  <2> QED BY <1>7, <2>1, <2>2, <2>3
<1>13. ASSUME NEW m \in Messages, Send(m) \/ FailSend(m) PROVE NewestKept'
  <2>1. UNCHANGED <<list, pushed, work>>
    BY <1>13 DEF Send, Upload, Commit, Dispatch, FailSend, history
  <2>2. faults' >= faults
    BY <1>3, <1>13 DEF Send, Upload, Commit, Dispatch, FailSend, SendApplied, Enqueue, Fault, bounds
  <2> QED BY <1>6, <2>1, <2>2
<1>14. CASE Beat \/ Age \/ UNCHANGED vars
  BY <1>3, <1>6, <1>14 DEF Beat, Age, vars, bounds, history
<1> QED
  BY <1>8, <1>9, <1>10, <1>11, <1>12, <1>13, <1>14 DEF Next, Step

\* Workers that push and trim at once, fail or die keep the newest notifications, and the
\* list near its limit.
THEOREM Newest == Spec => []NewestKept
<1>1. Init => NewestKept
  BY LimitsAssumption, TrimmersFinite DEF Init, NewestKept, Trimmers
<1> QED
  BY <1>1, ListNext, Invariance, PTL DEF Spec

------------------------------------------------------------------------------
(* Notified once *)

Carrying == {"process", "notify", "push"}

\* The workers that may still notify of m, or queue its notification; what may
\* still come of m: its call, its two kinds of task, and these workers.
Carriers(m) == {w \in Workers : work[w].step \in Carrying /\ work[w].msg = m}
Underway(m) == (IF sending[m] = "ended" THEN 0 ELSE 1)
                 + queue[Process(m)] + queue[Notify(m)] + Cardinality(Carriers(m))

\* What notified of m, or may still do so, is one, and one more for each fault.
OnceInv == \A m \in Messages : Underway(m) + Cardinality(Pushes(m)) <= 1 + faults

\* An element more adds one at most.
LEMMA OneMore ==
  ASSUME NEW S, IsFiniteSet(S), NEW x
  PROVE  IsFiniteSet(S \cup {x}) /\ Cardinality(S \cup {x}) <= Cardinality(S) + 1
<1>1. Cardinality(S) \in Nat
  BY FS_CardinalityType
<1>2. CASE x \in S
  <2>1. S \cup {x} = S
    BY <1>2
  <2>2. Cardinality(S \cup {x}) = Cardinality(S) /\ IsFiniteSet(S \cup {x})
    BY <2>1
  <2> QED BY <1>1, <2>2
<1>3. CASE x \notin S
  <2>1. IsFiniteSet(S \cup {x}) /\ Cardinality(S \cup {x}) = Cardinality(S) + 1
    BY <1>3, FS_AddElement
  <2> QED BY <1>1, <2>1
<1> QED BY <1>2, <1>3

LEMMA CountsAreNat ==
  ASSUME TypeOK, NEW m \in Messages
  PROVE  /\ IsFiniteSet(Carriers(m)) /\ Cardinality(Carriers(m)) \in Nat
         /\ IsFiniteSet(Pushes(m)) /\ Cardinality(Pushes(m)) \in Nat
         /\ queue[Process(m)] \in Nat /\ queue[Notify(m)] \in Nat
         /\ faults \in Nat
<1>1. IsFiniteSet(Carriers(m))
  BY WorkersAssumption, FS_Subset DEF Carriers
<1>2. IsFiniteSet(Pushes(m))
  <2>1. Len(pushed) \in Nat /\ Pushes(m) \in SUBSET (1 .. Len(pushed))
    BY DEF TypeOK, Pushes
  <2>2. IsFiniteSet(1 .. Len(pushed))
    BY <2>1, FS_Interval
  <2> QED BY <2>1, <2>2, FS_Subset
<1>3. queue[Process(m)] \in Nat /\ queue[Notify(m)] \in Nat
  <2>1. queue \in [Jobs -> Nat]
    BY DEF TypeOK
  <2> HIDE DEF Jobs
  <2> QED BY <2>1, JobFacts
<1>4. faults \in Nat
  BY LimitsAssumption DEF TypeOK
<1> QED BY <1>1, <1>2, <1>3, <1>4, FS_CardinalityType

LEMMA NextCountsAreNat ==
  ASSUME TypeOK', NEW m \in Messages
  PROVE  Cardinality(Carriers(m)') \in Nat /\ Cardinality(Pushes(m)') \in Nat
<1>1. IsFiniteSet(Carriers(m)')
  BY WorkersAssumption, FS_Subset DEF Carriers
<1>2. IsFiniteSet(Pushes(m)')
  <2>1. Len(pushed') \in Nat /\ Pushes(m)' \in SUBSET (1 .. Len(pushed'))
    BY DEF TypeOK, Pushes
  <2>2. IsFiniteSet(1 .. Len(pushed'))
    BY <2>1, FS_Interval
  <2> QED BY <2>1, <2>2, FS_Subset
<1> QED BY <1>1, <1>2, FS_CardinalityType

\* LPUSH of n shifts the notifications by one, and adds one of n.
LEMMA PushesOfPush ==
  ASSUME NEW m \in Messages, NEW n \in Messages, pushed \in Seq(Messages),
         pushed' = <<n>> \o pushed, IsFiniteSet(Pushes(m)), Cardinality(Pushes(m)) \in Nat
  PROVE  Cardinality(Pushes(m)') <= Cardinality(Pushes(m)) + (IF n = m THEN 1 ELSE 0)
<1> DEFINE shifted == {i \in DOMAIN pushed' : i > 1 /\ pushed'[i] = m}
           f == [i \in Pushes(m) |-> i + 1]
<1>1. /\ Len(pushed') = Len(pushed) + 1 /\ Len(pushed) \in Nat
      /\ DOMAIN pushed' = 1 .. Len(pushed) + 1
      /\ pushed'[1] = n
      /\ \A i \in 1 .. Len(pushed) : pushed'[i + 1] = pushed[i]
  OBVIOUS
<1>2. \A i \in Pushes(m) : i \in 1 .. Len(pushed) /\ pushed[i] = m
  BY DEF Pushes
<1>3. f \in [Pushes(m) -> shifted]
  BY <1>1, <1>2
<1>4. \A j \in shifted : \E i \in Pushes(m) : f[i] = j
  <2> TAKE j \in shifted
  <2>1. j - 1 \in 1 .. Len(pushed) /\ pushed[j - 1] = m
    BY <1>1
  <2>2. j - 1 \in Pushes(m)
    BY <1>1, <2>1 DEF Pushes
  <2> QED BY <1>1, <2>2
<1>5. f \in Surjection(Pushes(m), shifted)
  BY <1>3, <1>4 DEF Surjection
<1>6. IsFiniteSet(shifted) /\ Cardinality(shifted) <= Cardinality(Pushes(m))
  BY <1>5, FS_Surjection
<1>7. Cardinality(shifted) \in Nat
  BY <1>6, FS_CardinalityType
<1>8. CASE n = m
  <2>1. Pushes(m)' = shifted \cup {1}
    BY <1>1, <1>8 DEF Pushes
  <2> HIDE DEF shifted
  <2>2. Cardinality(shifted \cup {1}) <= Cardinality(shifted) + 1
    BY <1>6, OneMore
  <2>3. Cardinality(Pushes(m)') <= Cardinality(shifted) + 1 /\ Cardinality(Pushes(m)') \in Nat
    BY <1>6, <2>1, <2>2, OneMore, FS_CardinalityType
  <2> QED BY <1>6, <1>7, <1>8, <2>3
<1>9. CASE n # m
  <2>1. Pushes(m)' = shifted
    BY <1>1, <1>9 DEF Pushes
  <2> HIDE DEF shifted
  <2> QED BY <1>6, <1>7, <1>9, <2>1
<1> QED BY <1>8, <1>9

\* A worker comes to carry a message with Take only; with QueueNotify it lays it down.
LEMMA CarriersShrink ==
  ASSUME Inv, NEW w \in Workers, Step(w) \/ FailTask(w), NEW m \in Messages
  PROVE  /\ Carriers(m)' \subseteq Carriers(m)
         /\ QueueNotify(w) => Carriers(m)' \subseteq Carriers(m) \ {w}
<1>1. TypeOK /\ work[w] \in Works
  BY DEF Inv, TypeOK
<1>2. WorkStep(w)
  BY StepsWork
<1>3. work'[w].step \in Carrying => work[w].step \in Carrying /\ ~QueueNotify(w)
  <2>1. CASE End(w)
    BY <1>1, <2>1, EndIdles DEF Idle, Working, Carrying
  <2>2. ASSUME NEW step \in OfMessage, Goto(w, step) PROVE work'[w].step = step
    <3>1. work'[w] = [work[w] EXCEPT !.step = step]
      BY <1>1, <2>2, GotoMoves
    <3> QED BY <1>1, <3>1 DEF Works
  <2>3. ASSUME NEW keys \in SUBSET work[w].keys, Clean(w, keys) PROVE work'[w].step \notin Carrying
    <3>1. work[w].found \in SUBSET Messages /\ keys \in SUBSET Objects
      BY <1>1 DEF Works
    <3>2. work'[w] = Cleaning(work[w].found, keys)
      BY <1>1, <2>3, <3>1, CleanupStep DEF Clean
    <3> QED BY <3>2 DEF Cleaning, Carrying
  <2>4. CASE QueueNotify(w)
    BY <2>1, <2>2, <2>4 DEF QueueNotify, OfMessage, Carrying
  <2>5. CASE ReadNotified(w) \/ Push(w)
    BY <2>1, <2>5 DEF ReadNotified, Push, At, Carrying, QueueNotify
  <2>6. CASE ReadPictured(w) \/ GetFile(w) \/ PutThumbnail(w)
    BY <2>1, <2>2, <2>6 DEF ReadPictured, GetFile, PutThumbnail, Applied, OfMessage, Carrying
  <2>7. CASE ReadOld(w)
    <3>1. ASSUME ~End(w) PROVE At(w, "cleanup") /\ work'[w].step \notin Carrying
      <4>1. At(w, "cleanup") /\ work'[w].step \in {"delete", "forget"}
        BY <1>1, <2>7, <3>1 DEF ReadOld, End, Cleaning, TypeOK
      <4> QED BY <4>1 DEF Carrying
    <3> QED BY <2>1, <3>1
  <2>8. CASE DeleteBatch(w) \/ FailTask(w)
    BY <2>1, <2>3, <2>8 DEF DeleteBatch, FailTask
  <2>9. CASE QueueThumbnail(w) \/ Trim(w) \/ RecordThumbnail(w) \/ ForgetRows(w)
    BY <2>1, <2>9 DEF QueueThumbnail, Trim, RecordThumbnail, ForgetRows
  <2> QED BY <2>4, <2>5, <2>6, <2>7, <2>8, <2>9 DEF Step
<1> QED BY <1>2, <1>3 DEF WorkStep, Carriers, Carrying, OfMessage

\* Steps that add no copy of a task about m, and push nothing.
LEMMA OnceStays ==
  ASSUME TypeOK, TypeOK', OnceInv, NEW m \in Messages,
         sending[m] = "ended" => sending'[m] = "ended",
         queue'[Process(m)] = queue[Process(m)], queue'[Notify(m)] = queue[Notify(m)],
         Carriers(m)' \subseteq Carriers(m), UNCHANGED pushed, faults' >= faults
  PROVE  (Underway(m) + Cardinality(Pushes(m)) <= 1 + faults)'
<1>1. /\ Cardinality(Carriers(m)) \in Nat /\ Cardinality(Carriers(m)') \in Nat
      /\ Cardinality(Pushes(m)) \in Nat
      /\ queue[Process(m)] \in Nat /\ queue[Notify(m)] \in Nat
      /\ faults \in Nat /\ faults' \in Nat
  <2>1. faults' \in Nat
    BY LimitsAssumption DEF TypeOK
  <2> QED BY <2>1, CountsAreNat, NextCountsAreNat
<1>2. Cardinality(Carriers(m)') <= Cardinality(Carriers(m))
  BY CountsAreNat, FS_Subset
<1>3. Pushes(m)' = Pushes(m)
  BY DEF Pushes
<1>4. Process(m)' = Process(m) /\ Notify(m)' = Notify(m)
  BY DEF Process, Notify
<1>5. Underway(m) + Cardinality(Pushes(m)) <= 1 + faults
  BY DEF OnceInv
<1> HIDE DEF Pushes, Carriers
<1> QED BY <1>1, <1>2, <1>3, <1>4, <1>5 DEF Underway

LEMMA OnceNext == Inv /\ OnceInv /\ [Next]_vars => OnceInv'
<1> SUFFICES ASSUME Inv, OnceInv, [Next]_vars, NEW m \in Messages
             PROVE  (Underway(m) + Cardinality(Pushes(m)) <= 1 + faults)'
  BY DEF OnceInv
<1>1. TypeOK /\ TypeOK'
  BY InvNext DEF Inv
<1>2. /\ IsFiniteSet(Carriers(m)) /\ Cardinality(Carriers(m)) \in Nat
      /\ Cardinality(Carriers(m)') \in Nat
      /\ IsFiniteSet(Pushes(m)) /\ Cardinality(Pushes(m)) \in Nat
      /\ Cardinality(Pushes(m)') \in Nat
      /\ queue[Process(m)] \in Nat /\ queue[Notify(m)] \in Nat
      /\ faults \in Nat
  BY <1>1, CountsAreNat, NextCountsAreNat
<1>3. Underway(m) + Cardinality(Pushes(m)) <= 1 + faults
  BY DEF OnceInv
<1>4. Process(m) \in Jobs /\ Notify(m) \in Jobs /\ Process(m) # Notify(m)
  BY JobFacts DEF Process, Notify
<1>5. \A n \in Messages : n # m => Process(n) \notin {Process(m), Notify(m)}
                                    /\ Notify(n) \notin {Process(m), Notify(m)}
  BY DEF Process, Notify
<1>6. \A n \in Messages : MakeThumbnail(n) \notin {Process(m), Notify(m)}
  BY DEF Process, Notify, MakeThumbnail
<1>7. Cleanup \notin {Process(m), Notify(m)}
  BY DEF Process, Notify, Cleanup
<1>8. faults' = faults \/ (Fault /\ faults' = faults + 1)
  BY DEF Next, Send, Upload, Commit, Dispatch, FailSend, SendApplied, Take, Step, QueueNotify,
         QueueThumbnail, ReadNotified, Push, Trim, ReadPictured, GetFile, PutThumbnail,
         RecordThumbnail, ReadOld, DeleteBatch, ForgetRows, FailTask, Applied, Enqueue, Beat, Age,
         vars, bounds, Fault
<1>9. CASE UNCHANGED <<work, queue, pushed>> /\ (sending[m] = "ended" => sending'[m] = "ended")
  <2>1. Carriers(m)' = Carriers(m)
    BY <1>9 DEF Carriers
  <2> QED BY <1>1, <1>2, <1>8, <1>9, <2>1, OnceStays
<1>10. ASSUME NEW n \in Messages, Upload(n) \/ Commit(n) \/ FailSend(n)
       PROVE  (Underway(m) + Cardinality(Pushes(m)) <= 1 + faults)'
  <2>1. sending[m] = "ended" => sending'[m] = "ended"
    BY <1>1, <1>10 DEF Upload, Commit, FailSend, SendApplied, TypeOK
  <2> QED BY <1>9, <1>10, <2>1 DEF Upload, Commit, FailSend, history
<1>11. ASSUME NEW n \in Messages, Dispatch(n)
       PROVE  (Underway(m) + Cardinality(Pushes(m)) <= 1 + faults)'
  <2>1. UNCHANGED <<work, pushed>> /\ sending[n] = "dispatch" /\ Enqueue(Process(n))
        /\ sending' = [sending EXCEPT ![n] = "ended"]
    BY <1>11 DEF Dispatch, history
  <2>2. Carriers(m)' = Carriers(m) /\ Pushes(m)' = Pushes(m)
    BY <2>1 DEF Carriers, Pushes
  <2>3. CASE n # m
    <3>1. queue'[Process(m)] = queue[Process(m)] /\ queue'[Notify(m)] = queue[Notify(m)]
      BY <1>1, <1>4, <1>5, <2>1, <2>3, EnqueueAdds, JobFacts
    <3>2. sending'[m] = sending[m]
      BY <1>1, <2>1, <2>3 DEF TypeOK
    <3> QED BY <1>1, <1>2, <1>8, <2>1, <2>2, <3>1, <3>2, OnceStays
  <2>4. CASE n = m
    <3>1. sending[m] # "ended" /\ sending'[m] = "ended"
      BY <1>1, <2>1, <2>4 DEF TypeOK
    <3>2. queue'[Notify(m)] = queue[Notify(m)]
      BY <1>1, <1>4, <2>1, <2>4, EnqueueAdds
    <3>3. \/ queue'[Process(m)] = queue[Process(m)] + 1 /\ faults' = faults
          \/ queue'[Process(m)] = queue[Process(m)] + 2 /\ faults' = faults + 1
      <4>1. queue \in [Jobs -> Nat]
        BY <1>1 DEF TypeOK
      <4> HIDE DEF Jobs
      <4> QED BY <1>4, <2>1, <2>4, <4>1 DEF Enqueue, Fault, bounds
    <3>4. Process(m)' = Process(m) /\ Notify(m)' = Notify(m)
      BY DEF Process, Notify
    <3> HIDE DEF Pushes, Carriers
    <3> QED BY <1>2, <1>3, <2>2, <3>1, <3>2, <3>3, <3>4 DEF Underway
  <2> QED BY <2>3, <2>4
<1>12. ASSUME NEW w \in Workers, Take(w)
       PROVE  (Underway(m) + Cardinality(Pushes(m)) <= 1 + faults)'
  <2>1. PICK j \in Jobs : /\ queue[j] > 0
                          /\ queue' = [queue EXCEPT ![j] = @ - 1]
                          /\ work' = [work EXCEPT ![w] = Working(j.task, j.msg)]
    BY <1>12 DEF Take
  <2>2. UNCHANGED <<sending, pushed, faults>> /\ work[w].step = "idle"
    BY <1>12 DEF Take, At, bounds, history
  <2>3. Pushes(m)' = Pushes(m)
    BY <2>2 DEF Pushes
  <2>4. /\ work'[w].step = j.task /\ work'[w].msg = j.msg
        /\ \A v \in Workers \ {w} : work'[v] = work[v]
    BY <1>1, <2>1 DEF TypeOK, Working
  <2>5. \A i \in Jobs : queue'[i] = IF i = j THEN queue[i] - 1 ELSE queue[i]
    <3>1. queue \in [Jobs -> Nat]
      BY <1>1 DEF TypeOK
    <3> HIDE DEF Jobs
    <3> QED BY <2>1, <3>1
  <2>6. CASE j \in {Process(m), Notify(m)}
    <3>1. Carriers(m)' \subseteq Carriers(m) \cup {w}
      BY <2>4 DEF Carriers
    <3>2. Cardinality(Carriers(m)') <= Cardinality(Carriers(m)) + 1
      <4>1. IsFiniteSet(Carriers(m) \cup {w})
            /\ Cardinality(Carriers(m) \cup {w}) <= Cardinality(Carriers(m)) + 1
        BY <1>2, OneMore
      <4>2. Cardinality(Carriers(m)') <= Cardinality(Carriers(m) \cup {w})
        BY <3>1, <4>1, FS_Subset
      <4>3. Cardinality(Carriers(m) \cup {w}) \in Nat
        BY <4>1, FS_CardinalityType
      <4> HIDE DEF Carriers
      <4> QED BY <1>2, <4>1, <4>2, <4>3
    <3>3. queue'[Process(m)] + queue'[Notify(m)] = queue[Process(m)] + queue[Notify(m)] - 1
      BY <1>2, <1>4, <2>5, <2>6
    <3>4. queue'[Process(m)] \in Nat /\ queue'[Notify(m)] \in Nat
      BY <1>1, <1>2, <1>4, <2>1, <2>5, <2>6
    <3>5. Process(m)' = Process(m) /\ Notify(m)' = Notify(m)
      BY DEF Process, Notify
    <3> HIDE DEF Pushes, Carriers
    <3> QED BY <1>2, <1>3, <2>2, <2>3, <3>2, <3>3, <3>4, <3>5 DEF Underway
  <2>7. CASE j \notin {Process(m), Notify(m)}
    <3>1. j.task \in Carrying => j.msg # m
      <4>1. j \in [task : {"process", "notify", "thumbnail"}, msg : Messages] \/ j = Cleanup
        BY DEF Jobs
      <4>2. Cleanup.task \notin Carrying
        BY DEF Cleanup, Carrying
      <4>3. ASSUME j \in [task : {"process", "notify", "thumbnail"}, msg : Messages],
                   j.task \in Carrying, j.msg = m
            PROVE  FALSE
        BY <2>7, <4>3 DEF Carrying, Process, Notify
      <4> QED BY <4>1, <4>2, <4>3
    <3>2. Carriers(m)' \subseteq Carriers(m)
      BY <2>4, <3>1 DEF Carriers
    <3> QED BY <1>1, <1>2, <1>4, <2>2, <2>5, <2>7, <3>2, OnceStays
  <2> QED BY <2>6, <2>7
<1>13. ASSUME NEW w \in Workers, QueueNotify(w)
       PROVE  (Underway(m) + Cardinality(Pushes(m)) <= 1 + faults)'
  <2>1. PICK n \in Messages : n = work[w].msg
    BY <1>1, <1>13 DEF Inv, WorkInv, Stored, TypeOK, QueueNotify, At, OfMessage
  <2>2. UNCHANGED <<sending, pushed>> /\ work[w].step = "process"
    BY <1>13 DEF QueueNotify, At, history
  <2>3. Pushes(m)' = Pushes(m)
    BY <2>2 DEF Pushes
  <2>4. Carriers(m)' \subseteq Carriers(m) \ {w}
    BY <1>13, CarriersShrink DEF Step
  <2>5. \/ queue' = [queue EXCEPT ![Notify(n)] = @ + 1]
        \/ queue' = [queue EXCEPT ![Notify(n)] = @ + 2] /\ faults' = faults + 1
    BY <1>13, <2>1 DEF QueueNotify, Enqueue, Fault
  <2>6. CASE n # m
    <3>1. queue'[Process(m)] = queue[Process(m)] /\ queue'[Notify(m)] = queue[Notify(m)]
      <4>1. queue \in [Jobs -> Nat]
        BY <1>1 DEF TypeOK
      <4> HIDE DEF Jobs
      <4> QED BY <1>4, <1>5, <2>1, <2>5, <2>6, <4>1, JobFacts
    <3> QED BY <1>1, <1>2, <1>8, <2>2, <2>4, <3>1, OnceStays
  <2>7. CASE n = m
    <3>1. Cardinality(Carriers(m)') <= Cardinality(Carriers(m)) - 1
      <4>1. w \in Carriers(m)
        BY <2>1, <2>2, <2>7 DEF Carriers, Carrying
      <4>2. IsFiniteSet(Carriers(m) \ {w})
            /\ Cardinality(Carriers(m) \ {w}) = Cardinality(Carriers(m)) - 1
        BY <1>2, <4>1, FS_RemoveElement
      <4>3. Cardinality(Carriers(m)') <= Cardinality(Carriers(m) \ {w})
        BY <2>4, <4>2, FS_Subset
      <4> QED BY <4>2, <4>3
    <3>2. queue'[Process(m)] = queue[Process(m)]
          /\ \/ queue'[Notify(m)] = queue[Notify(m)] + 1
             \/ queue'[Notify(m)] = queue[Notify(m)] + 2 /\ faults' = faults + 1
      <4>1. queue \in [Jobs -> Nat]
        BY <1>1 DEF TypeOK
      <4> HIDE DEF Jobs
      <4> QED BY <1>4, <2>5, <2>7, <4>1
    <3>3. Process(m)' = Process(m) /\ Notify(m)' = Notify(m)
      BY DEF Process, Notify
    <3> HIDE DEF Pushes, Carriers
    <3> QED BY <1>2, <1>3, <1>8, <2>2, <2>3, <3>1, <3>2, <3>3 DEF Underway
  <2> QED BY <2>6, <2>7
<1>14. ASSUME NEW w \in Workers, QueueThumbnail(w)
       PROVE  (Underway(m) + Cardinality(Pushes(m)) <= 1 + faults)'
  <2>1. PICK n \in Messages : n = work[w].msg
    BY <1>1, <1>14 DEF Inv, WorkInv, Stored, TypeOK, QueueThumbnail, At, OfMessage
  <2>2. queue'[Process(m)] = queue[Process(m)] /\ queue'[Notify(m)] = queue[Notify(m)]
    BY <1>1, <1>4, <1>6, <1>14, <2>1, EnqueueAdds, JobFacts DEF QueueThumbnail
  <2>3. Carriers(m)' \subseteq Carriers(m)
    BY <1>14, CarriersShrink DEF Step
  <2> QED BY <1>1, <1>2, <1>8, <1>14, <2>2, <2>3, OnceStays DEF QueueThumbnail, history
<1>15. ASSUME NEW w \in Workers, Push(w)
       PROVE  (Underway(m) + Cardinality(Pushes(m)) <= 1 + faults)'
  <2>1. PICK n \in Messages : n = work[w].msg
    BY <1>1, <1>15 DEF Inv, WorkInv, Stored, TypeOK, Push, At, OfMessage
  <2>2. UNCHANGED <<sending, queue>> /\ work[w].step = "push" /\ pushed' = <<n>> \o pushed
    BY <1>15, <2>1 DEF Push, At
  <2>3. Cardinality(Pushes(m)') <= Cardinality(Pushes(m)) + (IF n = m THEN 1 ELSE 0)
    BY <1>1, <1>2, <2>2, PushesOfPush DEF TypeOK
  <2>4. Carriers(m)' \subseteq Carriers(m)
    BY <1>15, CarriersShrink DEF Step
  <2>5. Cardinality(Carriers(m)') <= Cardinality(Carriers(m))
    BY <1>2, <2>4, FS_Subset
  <2>6. Process(m)' = Process(m) /\ Notify(m)' = Notify(m)
    BY DEF Process, Notify
  <2>7. faults' = faults + 1 \/ (n = m => Cardinality(Carriers(m)') <= Cardinality(Carriers(m)) - 1)
    <3> SUFFICES ASSUME Goto(w, "trim"), n = m
                 PROVE  Cardinality(Carriers(m)') <= Cardinality(Carriers(m)) - 1
      BY <1>15 DEF Push, Applied, Fault
    <3>1. w \in Carriers(m)
      BY <2>1, <2>2 DEF Carriers, Carrying
    <3>2. work'[w] = [work[w] EXCEPT !.step = "trim"]
      BY <1>1, GotoMoves DEF OfMessage
    <3>3. work'[w].step = "trim"
      BY <1>1, <3>2 DEF TypeOK, Works
    <3>4. Carriers(m)' \subseteq Carriers(m) \ {w}
      BY <2>4, <3>3 DEF Carriers, Carrying
    <3>5. IsFiniteSet(Carriers(m) \ {w})
          /\ Cardinality(Carriers(m) \ {w}) = Cardinality(Carriers(m)) - 1
      BY <1>2, <3>1, FS_RemoveElement
    <3>6. Cardinality(Carriers(m)') <= Cardinality(Carriers(m) \ {w})
      BY <3>4, <3>5, FS_Subset
    <3> QED BY <3>5, <3>6
  <2>8. Cardinality(Carriers(m)') + Cardinality(Pushes(m)')
          <= Cardinality(Carriers(m)) + Cardinality(Pushes(m)) + (faults' - faults)
    <3> HIDE DEF Pushes, Carriers
    <3>1. CASE n = m
      BY <1>2, <1>8, <2>3, <2>5, <2>7, <3>1
    <3>2. CASE n # m
      BY <1>2, <1>8, <2>3, <2>5, <3>2
    <3> QED BY <3>1, <3>2
  <2>9. /\ sending'[m] = sending[m]
        /\ queue'[Process(m)'] = queue[Process(m)] /\ queue'[Notify(m)'] = queue[Notify(m)]
    BY <2>2, <2>6
  <2> HIDE DEF Pushes, Carriers
  <2> QED BY <1>2, <1>3, <1>8, <2>8, <2>9 DEF Underway
<1>16. ASSUME NEW w \in Workers, Step(w) \/ FailTask(w), UNCHANGED <<sending, queue, pushed>>
       PROVE  (Underway(m) + Cardinality(Pushes(m)) <= 1 + faults)'
  BY <1>1, <1>2, <1>8, <1>16, CarriersShrink, OnceStays
<1>17. CASE Beat
  <2>1. queue \in [Jobs -> Nat] /\ queue' = [queue EXCEPT ![Cleanup] = @ + 1]
    BY <1>1, <1>17 DEF TypeOK, Beat
  <2>2. queue'[Process(m)] = queue[Process(m)] /\ queue'[Notify(m)] = queue[Notify(m)]
    <3> HIDE DEF Jobs, Cleanup
    <3> QED BY <1>4, <1>7, <2>1
  <2>3. Carriers(m)' = Carriers(m)
    BY <1>17 DEF Beat, Carriers
  <2> QED BY <1>1, <1>2, <1>8, <1>17, <2>2, <2>3, OnceStays DEF Beat, history
<1>18. CASE Age \/ UNCHANGED vars
  BY <1>9, <1>18 DEF Age, vars, history
<1>19. ASSUME NEW w \in Workers,
              \/ ReadNotified(w) \/ Trim(w) \/ ReadPictured(w) \/ GetFile(w) \/ PutThumbnail(w)
              \/ RecordThumbnail(w) \/ ReadOld(w) \/ DeleteBatch(w) \/ ForgetRows(w)
              \/ FailTask(w)
       PROVE  (Underway(m) + Cardinality(Pushes(m)) <= 1 + faults)'
  <2>1. UNCHANGED <<sending, queue, pushed>>
    BY <1>19 DEF ReadNotified, Trim, ReadPictured, GetFile, PutThumbnail, RecordThumbnail,
                 ReadOld, DeleteBatch, ForgetRows, FailTask, history
  <2> QED BY <1>16, <1>19, <2>1 DEF Step
<1> QED
  BY <1>10, <1>11, <1>12, <1>13, <1>14, <1>15, <1>17, <1>18, <1>19 DEF Next, Send, Step

\* However often hand-overs are repeated, tasks fail and pushes are sent again, no message
\* is notified more than once and once more for each fault.
THEOREM Once == Spec => []NotifiedOnce
<1>1. Init => OnceInv
  <2> SUFFICES ASSUME Init, NEW m \in Messages
               PROVE  Underway(m) + Cardinality(Pushes(m)) <= 1 + faults
    BY DEF OnceInv
  <2>1. Carriers(m) = {} /\ Pushes(m) = {}
    BY DEF Init, Carriers, Pushes, Idle, Working, Carrying
  <2>2. queue[Process(m)] = 0 /\ queue[Notify(m)] = 0 /\ faults = 0 /\ sending[m] # "ended"
    BY JobFacts DEF Init
  <2> QED BY <2>1, <2>2, FS_EmptySet DEF Underway
<1>2. Inv /\ OnceInv => NotifiedOnce
  <2> SUFFICES ASSUME Inv, OnceInv, NEW m \in Messages
               PROVE  Cardinality(Pushes(m)) <= 1 + faults
    BY DEF NotifiedOnce
  <2>1. Underway(m) + Cardinality(Pushes(m)) <= 1 + faults
    BY DEF OnceInv
  <2> HIDE DEF Pushes, Carriers
  <2> QED BY <2>1, CountsAreNat DEF Underway, Inv
<1> QED BY <1>1, <1>2, OnceNext, Invariance, PTL DEF Spec
==============================================================================
