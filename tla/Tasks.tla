-------------------------------- MODULE Tasks --------------------------------
(***************************************************************************)
(* The Celery tasks of app/tasks and the objects of StorageService: a call *)
(* of create_message uploads a file, commits the row and queues            *)
(* process_message; workers run process_message, notify_message,           *)
(* process_file_thumbnail and cleanup_old_messages, in any order and at    *)
(* the same time.                                                          *)
(*                                                                         *)
(* A message is its id.  An object is a message with a kind; the keys are  *)
(* unique (uuid4), and the thumbnail's is derived from the file's.  The    *)
(* broker acknowledges a task when it is handed to a worker (Celery's      *)
(* acks_late is off), so a worker that dies loses its task.                *)
(***************************************************************************)
EXTENDS Naturals, Sequences, FiniteSets

CONSTANTS Messages, WithFile, Images,   \* all; with a file; whose file is an image
          Workers, None,
          MaxList,    \* LTRIM 0 999: the notifications kept
          Batch,      \* 1000: objects deleted by one request
          MaxBeats,   \* bound: cleanups queued by Celery Beat
          MaxFaults   \* bound: crashes, errors and lost answers in a behaviour

ASSUME MessagesAssumption == Images \subseteq WithFile /\ WithFile \subseteq Messages
ASSUME LimitsAssumption == /\ {MaxList, Batch} \subseteq Nat \ {0}
                           /\ {MaxBeats, MaxFaults} \subseteq Nat
ASSUME NoneAssumption == None \notin Messages
ASSUME WorkersAssumption == IsFiniteSet(Workers)

VARIABLES
  sending,           \* each create_message: its next step
  rows, thumbs,      \* messages in the table; those whose thumbnail_key is set
  old,               \* messages past MESSAGE_RETENTION_DAYS
  objects,           \* the bucket
  queue,             \* the broker: how many copies of each task wait
  work,              \* each worker: the step it is at and its local variables
  list,              \* chat:notifications, newest first
  beats, faults,
  pushed,            \* history: all messages notified, newest first
  missed,            \* history: messages that notify_message did not find
  doomed, deleted,   \* history: messages a cleanup has read, has deleted
  late               \* history: thumbnails recorded when a cleanup had read the message

database == <<rows, thumbs, old>>
bounds == <<beats, faults>>
history == <<pushed, missed, doomed, deleted, late>>
vars == <<sending, database, objects, queue, work, list, bounds, history>>

File(m) == [kind |-> "file", msg |-> m]
Thumbnail(m) == [kind |-> "thumbnail", msg |-> m]
Objects == {File(m) : m \in WithFile} \cup {Thumbnail(m) : m \in Images}

Process(m) == [task |-> "process", msg |-> m]
Notify(m) == [task |-> "notify", msg |-> m]
MakeThumbnail(m) == [task |-> "thumbnail", msg |-> m]
Cleanup == [task |-> "cleanup", msg |-> None]
Jobs == [task : {"process", "notify", "thumbnail"}, msg : Messages] \cup {Cleanup}

\* The steps of the tasks about one message, and of the cleanup; a worker's local
\* variables: the message, and what the cleanup has found and has to delete.
OfMessage == {"process", "processed", "notify", "push", "trim",
              "thumbnail", "get", "put", "record"}
OfCleanup == {"cleanup", "delete", "forget"}
Works == [step : {"idle"} \cup OfMessage \cup OfCleanup, msg : Messages \cup {None},
          found : SUBSET Messages, keys : SUBSET Objects]
Working(step, m) == [step |-> step, msg |-> m, found |-> {}, keys |-> {}]
Idle == Working("idle", None)

TypeOK ==
  /\ sending \in [Messages -> {"upload", "commit", "dispatch", "ended"}]
  /\ rows \subseteq Messages
  /\ thumbs \subseteq rows \cap Images
  /\ old \subseteq Messages
  /\ objects \subseteq Objects
  /\ queue \in [Jobs -> Nat]
  /\ work \in [Workers -> Works]
  /\ list \in Seq(Messages)
  /\ beats \in 0 .. MaxBeats
  /\ faults \in 0 .. MaxFaults
  /\ pushed \in Seq(Messages)
  /\ missed \cup doomed \cup deleted \cup late \subseteq Messages

Init ==
  /\ sending = [m \in Messages |-> "upload"]
  /\ rows = {} /\ thumbs = {} /\ old = {} /\ objects = {}
  /\ queue = [j \in Jobs |-> 0]
  /\ work = [w \in Workers |-> Idle]
  /\ list = <<>>
  /\ beats = 0 /\ faults = 0
  /\ pushed = <<>> /\ missed = {} /\ doomed = {} /\ deleted = {} /\ late = {}

------------------------------------------------------------------------------
Fault == faults < MaxFaults /\ faults' = faults + 1 /\ UNCHANGED beats

\* The job's copies in the queue, one more; or two, when the client of the
\* broker sends again what was not answered.
Enqueue(j) ==
  \/ queue' = [queue EXCEPT ![j] = @ + 1] /\ UNCHANGED bounds
  \/ queue' = [queue EXCEPT ![j] = @ + 2] /\ Fault

(* create_message: what it does to objects, rows and the queue.  Its other   *)
(* steps are in SendMessage.                                                 *)

\* An operation is applied; its answer arrives, or is lost and the call raises.
SendApplied(m, next) ==
  \/ sending' = [sending EXCEPT ![m] = next] /\ UNCHANGED bounds
  \/ sending' = [sending EXCEPT ![m] = "ended"] /\ Fault

Upload(m) ==
  /\ sending[m] = "upload"
  /\ SendApplied(m, "commit")
  /\ objects' = objects \cup ({File(m)} \cap Objects)
  /\ UNCHANGED <<database, queue, work, list, history>>

Commit(m) ==
  /\ sending[m] = "commit"
  /\ SendApplied(m, "dispatch")
  /\ rows' = rows \cup {m}
  /\ UNCHANGED <<thumbs, old, objects, queue, work, list, history>>

\* Mutant: the task is queued before the row is committed.
DispatchEarly(m) ==
  /\ sending[m] \in {"commit", "dispatch"}
  /\ sending' = [sending EXCEPT ![m] = IF @ = "commit" THEN @ ELSE "ended"]
  /\ queue[Process(m)] = 0
  /\ Enqueue(Process(m))
  /\ UNCHANGED <<database, objects, work, list, history>>

\* Mutant: the endpoint queues notify_message too, as process_message does.
DispatchBoth(m) ==
  /\ sending[m] = "dispatch"
  /\ sending' = [sending EXCEPT ![m] = "ended"]
  /\ queue' = [queue EXCEPT ![Process(m)] = @ + 1, ![Notify(m)] = @ + 1]
  /\ UNCHANGED <<database, objects, work, list, bounds, history>>

\* process_message.delay.
Dispatch(m) ==
  /\ sending[m] = "dispatch"
  /\ sending' = [sending EXCEPT ![m] = "ended"]
  /\ Enqueue(Process(m))
  /\ UNCHANGED <<database, objects, work, list, history>>

\* An error, swallowed when it is the broker's, or a crash of the API process.
FailSend(m) ==
  /\ sending[m] # "ended"
  /\ sending' = [sending EXCEPT ![m] = "ended"]
  /\ Fault
  /\ UNCHANGED <<database, objects, queue, work, list, history>>

------------------------------------------------------------------------------
(* Workers *)

At(w, step) == work[w].step = step
Goto(w, step) == work' = [work EXCEPT ![w].step = step]
End(w) == work' = [work EXCEPT ![w] = Idle]

\* A step whose operation is applied, with the two ways it may be answered.
Applied(w, step) == \/ Goto(w, step) /\ UNCHANGED bounds
                    \/ End(w) /\ Fault

\* A worker takes a task, which is gone from the broker.
Take(w) ==
  /\ At(w, "idle")
  /\ \E j \in Jobs :
       /\ queue[j] > 0
       /\ queue' = [queue EXCEPT ![j] = @ - 1]
       /\ work' = [work EXCEPT ![w] = Working(j.task, j.msg)]
  /\ UNCHANGED <<sending, database, objects, list, bounds, history>>

\* Mutant: a message without a file is not passed on.
QueueFilesOnly(w) ==
  /\ At(w, "process")
  /\ IF work[w].msg \in WithFile
       THEN Goto(w, "processed") /\ Enqueue(Notify(work[w].msg))
       ELSE End(w) /\ UNCHANGED <<queue, bounds>>
  /\ UNCHANGED <<sending, database, objects, list, history>>

\* process_message: two delays.
QueueNotify(w) ==
  /\ At(w, "process")
  /\ \/ Goto(w, "processed") /\ Enqueue(Notify(work[w].msg))
     \/ End(w) /\ queue' = [queue EXCEPT ![Notify(work[w].msg)] = @ + 1] /\ Fault
  /\ UNCHANGED <<sending, database, objects, list, history>>

QueueThumbnail(w) ==
  /\ At(w, "processed")
  /\ End(w)
  /\ Enqueue(MakeThumbnail(work[w].msg))
  /\ UNCHANGED <<sending, database, objects, list, history>>

\* notify_message: db.get.
ReadNotified(w) ==
  /\ At(w, "notify")
  /\ IF work[w].msg \in rows THEN Goto(w, "push") /\ UNCHANGED missed
                             ELSE End(w) /\ missed' = missed \cup {work[w].msg}
  /\ UNCHANGED <<sending, database, objects, queue, list, bounds, pushed, doomed, deleted,
                 late>>

\* Mutant: RPUSH.
PushLast(w) ==
  /\ At(w, "push")
  /\ \/ Applied(w, "trim")
     \/ Fault /\ UNCHANGED work
  /\ list' = Append(list, work[w].msg)
  /\ pushed' = <<work[w].msg>> \o pushed
  /\ UNCHANGED <<sending, database, objects, queue, missed, doomed, deleted, late>>

\* LPUSH, which redis-py sends again when no answer comes.
Push(w) ==
  /\ At(w, "push")
  /\ \/ Applied(w, "trim")
     \/ Fault /\ UNCHANGED work
  /\ list' = <<work[w].msg>> \o list
  /\ pushed' = <<work[w].msg>> \o pushed
  /\ UNCHANGED <<sending, database, objects, queue, missed, doomed, deleted, late>>

\* LTRIM 0 999.
Trim(w) ==
  /\ At(w, "trim")
  /\ End(w)
  /\ list' = SubSeq(list, 1, IF Len(list) < MaxList THEN Len(list) ELSE MaxList)
  /\ UNCHANGED <<sending, database, objects, queue, bounds, history>>

\* process_file_thumbnail: db.get and the checks that follow it.
ReadPictured(w) ==
  /\ At(w, "thumbnail")
  /\ IF work[w].msg \in rows \cap Images THEN Goto(w, "get") ELSE End(w)
  /\ UNCHANGED <<sending, database, objects, queue, list, bounds, history>>

\* create_thumbnail_sync: get_object, and an exception that is a "skipped".
GetFile(w) ==
  /\ At(w, "get")
  /\ IF File(work[w].msg) \in objects THEN Goto(w, "put") ELSE End(w)
  /\ UNCHANGED <<sending, database, objects, queue, list, bounds, history>>

\* Mutant: the key is returned although put_object has raised.
PutAnyway(w) ==
  /\ At(w, "put")
  /\ \/ Applied(w, "record") /\ objects' = objects \cup {Thumbnail(work[w].msg)}
     \/ Goto(w, "record") /\ Fault /\ UNCHANGED objects
  /\ UNCHANGED <<sending, database, queue, list, history>>

\* An image that Pillow cannot read is "skipped" too.
PutThumbnail(w) ==
  /\ At(w, "put")
  /\ \/ Applied(w, "record") /\ objects' = objects \cup {Thumbnail(work[w].msg)}
     \/ End(w) /\ UNCHANGED <<objects, bounds>>
  /\ UNCHANGED <<sending, database, queue, list, history>>

\* Mutant: nobody looks whether the UPDATE found the row.
RecordUnchecked(w) ==
  /\ At(w, "record")
  /\ End(w)
  /\ thumbs' = thumbs \cup {work[w].msg}
  /\ UNCHANGED <<sending, rows, old, objects, queue, list, bounds, history>>

\* The UPDATE of a row that is gone matches nothing, and SQLAlchemy raises.
RecordThumbnail(w) ==
  /\ At(w, "record")
  /\ End(w)
  /\ thumbs' = thumbs \cup ({work[w].msg} \cap rows)
  /\ late' = late \cup ({work[w].msg} \cap doomed)
  /\ UNCHANGED <<sending, rows, old, objects, queue, list, bounds, pushed, missed, doomed,
                 deleted>>

\* A cleanup that has found messages deletes their objects, then their rows.
Cleaning(found, keys) ==
  [step |-> IF keys = {} THEN "forget" ELSE "delete", msg |-> None, found |-> found,
   keys |-> keys]
Clean(w, keys) == work' = [work EXCEPT ![w] = Cleaning(work[w].found, keys)]

\* Mutant: the keys of the thumbnails are not collected.
ReadOldFiles(w) ==
  /\ At(w, "cleanup")
  /\ LET found == rows \cap old
         keys == {File(m) : m \in found \cap WithFile}
     IN /\ work' = [work EXCEPT ![w] =
              IF found = {} THEN Idle ELSE Cleaning(found, keys)]
        /\ doomed' = doomed \cup found
  /\ UNCHANGED <<sending, database, objects, queue, list, bounds, pushed, missed, deleted,
                 late>>

\* cleanup_old_messages: the messages older than the cutoff and their keys.
ReadOld(w) ==
  /\ At(w, "cleanup")
  /\ LET found == rows \cap old
         keys == {File(m) : m \in found \cap WithFile}
                   \cup {Thumbnail(m) : m \in found \cap thumbs}
     IN /\ work' = [work EXCEPT ![w] =
              IF found = {} THEN Idle ELSE Cleaning(found, keys)]
        /\ doomed' = doomed \cup found
  /\ UNCHANGED <<sending, database, objects, queue, list, bounds, pushed, missed, deleted,
                 late>>

\* delete_objects_sync: one request for each batch, and any error ends the loop
\* and is swallowed.
DeleteBatch(w) ==
  /\ At(w, "delete")
  /\ \E chunk \in SUBSET work[w].keys :
       /\ chunk = work[w].keys \/ Cardinality(chunk) = Batch
       /\ Cardinality(chunk) <= Batch
       /\ objects' = objects \ chunk
       /\ \/ Clean(w, work[w].keys \ chunk) /\ UNCHANGED bounds
          \/ Clean(w, {}) /\ Fault
  /\ UNCHANGED <<sending, database, queue, list, history>>

\* db.commit deletes the rows that were read.  (Rows that another cleanup has
\* deleted are only warned of; the invalidation that follows is in PageCache.)
ForgetRows(w) ==
  /\ At(w, "forget")
  /\ End(w)
  /\ rows' = rows \ work[w].found
  /\ thumbs' = thumbs \ work[w].found
  /\ deleted' = deleted \cup (rows \cap work[w].found)
  /\ UNCHANGED <<sending, old, objects, queue, list, bounds, pushed, missed, doomed,
                 late>>

\* A task raises before its operation is applied, or its worker dies; an error
\* of delete_objects is swallowed.
FailTask(w) ==
  /\ ~At(w, "idle")
  /\ \/ End(w)
     \/ At(w, "delete") /\ Clean(w, {})
  /\ Fault
  /\ UNCHANGED <<sending, database, objects, queue, list, history>>

------------------------------------------------------------------------------
\* Celery Beat queues a cleanup.
Beat ==
  /\ beats < MaxBeats
  /\ beats' = beats + 1
  /\ queue' = [queue EXCEPT ![Cleanup] = @ + 1]
  /\ UNCHANGED <<sending, database, objects, work, list, faults, history>>

\* A message comes past the retention time.
Age ==
  /\ \E m \in rows \ old : old' = old \cup {m}
  /\ UNCHANGED <<sending, rows, thumbs, objects, queue, work, list, bounds, history>>

Send(m) == Upload(m) \/ Commit(m) \/ Dispatch(m)
Step(w) == \/ QueueNotify(w) \/ QueueThumbnail(w)
           \/ ReadNotified(w) \/ Push(w) \/ Trim(w)
           \/ ReadPictured(w) \/ GetFile(w) \/ PutThumbnail(w) \/ RecordThumbnail(w)
           \/ ReadOld(w) \/ DeleteBatch(w) \/ ForgetRows(w)

Next == \/ \E m \in Messages : Send(m) \/ FailSend(m)
        \/ \E w \in Workers : Take(w) \/ Step(w) \/ FailTask(w)
        \/ Beat \/ Age

Spec == Init /\ [][Next]_vars

\* Workers take tasks and go through them, and a call that has committed goes
\* on: every operation returns or raises.
Fairness == /\ \A w \in Workers : WF_vars(Step(w)) /\ WF_vars(Take(w))
            /\ \A m \in Messages : WF_vars(Dispatch(m))
FairSpec == Spec /\ Fairness

------------------------------------------------------------------------------
(* What must hold *)

Named == {File(m) : m \in rows \cap WithFile} \cup {Thumbnail(m) : m \in thumbs}

\* What a row names is in the bucket: file and thumbnail are put before the row
\* says so, and only a cleanup takes them away.  It does so before it commits,
\* so the messages it has read are excepted: when it fails they stay, without
\* their objects, for the next one.
RowsHaveObjects == \A o \in Named : o.msg \in doomed \/ o \in objects

\* When nothing fails, the one kind of object that is left behind is a thumbnail
\* that was recorded only after a cleanup had read its message, and so without the
\* thumbnail's key; those that were recorded before go with their messages.
OnlyLateThumbnailsRemain ==
  faults = 0 =>
    \A o \in objects \ Named :
      \/ o.kind = "thumbnail" /\ o.msg \in late
      \/ o.kind = "file" /\ sending[o.msg] = "commit"
      \/ o.kind = "thumbnail" /\ \E w \in Workers : At(w, "record") /\ work[w].msg = o.msg

\* notify_message answers "not_found" for deleted messages only: no task
\* overtakes the commit of its message.
NotFoundIsDeleted == missed \subseteq deleted

\* Workers that have pushed and not trimmed yet.
Trimmers == {w \in Workers : At(w, "trim")}

\* However many workers push and trim at once, the list is that of the newest
\* notifications, and too long only by what has not been trimmed yet: one for each
\* worker between its LPUSH and its LTRIM, and for each failure there.
NewestKept ==
  /\ Len(list) <= Len(pushed)
  /\ list = SubSeq(pushed, 1, Len(list))
  /\ Len(list) >= IF Len(pushed) < MaxList THEN Len(pushed) ELSE MaxList
  /\ Len(list) <= MaxList + Cardinality(Trimmers) + faults

Pushes(m) == {i \in DOMAIN pushed : pushed[i] = m}

\* Two hand-overs to the broker, two tasks and an LPUSH lie between a send and its
\* notification, and each may be repeated: a message is notified once all the
\* same, and once more at most for each fault.
NotifiedOnce == \A m \in Messages : Cardinality(Pushes(m)) <= 1 + faults

\* When nothing fails, everyone is notified of each message that is not
\* deleted first.
EachIsNotified ==
  \A m \in Messages :
    m \in rows ~> \/ \E i \in DOMAIN pushed : pushed[i] = m
                 \/ m \in deleted
                 \/ faults > 0
==============================================================================
