------------------------------- MODULE Accounts -------------------------------
(***************************************************************************)
(* The numbers and names of users and messages in PostgreSQL: people       *)
(* register and post while scripts/migrate_sqlite_to_pg.py copies an old   *)
(* SQLite database into the same tables, perhaps dies half-way, and is run *)
(* again.  The hourly cleanup deletes messages meanwhile, copied ones too. *)
(*                                                                         *)
(* PostgreSQL draws an id from a sequence that no rollback turns back, and *)
(* that knows nothing of rows inserted with an id of their own.  An INSERT *)
(* waits for an uncommitted one with its id or name; so what a transaction *)
(* writes, and its COMMIT, is one step, after the numbers are drawn.       *)
(***************************************************************************)
EXTENDS Naturals, FiniteSets, Functions

CONSTANTS Registrations, Names,
          Sqlite,          \* the origin of what is copied
          SourceUsers,     \* SQLite's users: id |-> name
          SourceMessages,  \* the ids of SQLite's messages
          MaxNumber,       \* bound: numbers that a sequence gives out
          MaxPost,         \* bound: ... to messages that are posted
          MaxRuns,         \* bound: starts of the script
          MaxFaults        \* bound: errors, lost answers and crashes

Numbers == 1 .. MaxNumber

ASSUME AccountsAssumption ==
  /\ MaxNumber \in Nat \ {0} /\ MaxPost \in 0 .. MaxNumber
  /\ MaxRuns \in Nat /\ MaxFaults \in Nat
  /\ Sqlite \notin Registrations
  /\ DOMAIN SourceUsers \subseteq Numbers /\ SourceMessages \subseteq Numbers
  /\ IsInjective(SourceUsers) /\ Range(SourceUsers) \subseteq Names

VARIABLES
  users,     \* the committed rows: id |-> name and origin
  messages,  \* the committed rows: id |-> "copied" or "live"
  userSeq, messageSeq,  \* the sequences: the last number given out
  rpc,       \* each registration: its next operation
  name,      \* ... the name it asks for
  number,    \* ... and the number it drew last
  answer,
  spc,       \* the script's next operation
  runs, faults,
  synced,    \* history: nobody was registering at the last setval
  expired    \* history: old numbers whose message a cleanup deleted since they were copied

posts == <<messages, expired>>
tables == <<users, posts>>
registration == <<rpc, number, answer>>
script == <<spc, runs, synced>>
vars == <<tables, userSeq, messageSeq, registration, name, script, faults>>

TypeOK ==
  /\ DOMAIN users \subseteq Numbers
  /\ \A i \in DOMAIN users : users[i] \in [name : Names, by : Registrations \cup {Sqlite}]
  /\ DOMAIN messages \subseteq Numbers
  /\ \A m \in DOMAIN messages : messages[m] \in {"copied", "live"}
  /\ userSeq \in 0 .. MaxNumber /\ messageSeq \in 0 .. MaxNumber
  /\ rpc \in [Registrations -> {"idle", "check", "draw", "insert", "refresh"}]
  /\ name \in [Registrations -> Names]
  /\ number \in [Registrations -> 0 .. MaxNumber]
  /\ \A r \in Registrations : rpc[r] = "insert" => number[r] # 0
  /\ answer \in [Registrations -> {"none", "created", "taken", "error"}]
  /\ spc \in {"idle", "users", "messages", "set_users", "set_messages", "done"}
  /\ runs \in 0 .. MaxRuns /\ faults \in 0 .. MaxFaults
  /\ synced \in BOOLEAN /\ expired \subseteq SourceMessages

Init ==
  /\ users = <<>> /\ messages = <<>>
  /\ userSeq = 0 /\ messageSeq = 0
  /\ rpc = [r \in Registrations |-> "idle"]
  /\ name \in [Registrations -> Names]
  /\ number = [r \in Registrations |-> 0]
  /\ answer = [r \in Registrations |-> "none"]
  /\ spc = "idle" /\ runs = 0 /\ faults = 0
  /\ synced = FALSE /\ expired = {}

------------------------------------------------------------------------------
At(r, step) == rpc[r] = step
Goto(r, step) == rpc' = [rpc EXCEPT ![r] = step]
Answers(r, result) == Goto(r, "idle") /\ answer' = [answer EXCEPT ![r] = result]
Fault == faults < MaxFaults /\ faults' = faults + 1

\* The rows of both, and those of new where both have one.
Merged(new, rows) ==
  [i \in DOMAIN new \cup DOMAIN rows |-> IF i \in DOMAIN new THEN new[i] ELSE rows[i]]

IsMax(m, S) == m \in S /\ \A n \in S : n <= m
NamesIn(rows) == {rows[i].name : i \in DOMAIN rows}

(* Registration *)

\* The first attempt, or another one after an error.
Register(r) ==
  /\ At(r, "idle") /\ answer[r] \in {"none", "error"}
  /\ Goto(r, "check")
  /\ UNCHANGED <<tables, userSeq, messageSeq, number, answer, name, script, faults>>

\* get_user_by_username: 409 if there is one.
CheckName(r) ==
  /\ At(r, "check")
  /\ IF name[r] \in NamesIn(users) THEN Answers(r, "taken")
                                   ELSE Goto(r, "draw") /\ UNCHANGED answer
  /\ UNCHANGED <<tables, userSeq, messageSeq, number, name, script, faults>>

\* Mutant: the number before.
DrawLast(r) ==
  /\ At(r, "draw") /\ userSeq < MaxNumber
  /\ userSeq' = userSeq + 1
  /\ number' = [number EXCEPT ![r] = userSeq]
  /\ Goto(r, "insert")
  /\ UNCHANGED <<tables, messageSeq, answer, name, script, faults>>

\* The INSERT begins: nextval.
Draw(r) ==
  /\ At(r, "draw") /\ userSeq < MaxNumber
  /\ userSeq' = userSeq + 1
  /\ number' = [number EXCEPT ![r] = userSeq + 1]
  /\ Goto(r, "insert")
  /\ UNCHANGED <<tables, messageSeq, answer, name, script, faults>>

Row(r) == [i \in {number[r]} |-> [name |-> name[r], by |-> r]]

\* Mutant: no unique index on the name; the check before is all there is.
InsertUnindexed(r) ==
  /\ At(r, "insert")
  /\ IF number[r] \in DOMAIN users
       THEN Answers(r, "error") /\ UNCHANGED users
       ELSE users' = Merged(Row(r), users) /\ Goto(r, "refresh") /\ UNCHANGED answer
  /\ UNCHANGED <<posts, userSeq, messageSeq, number, name, script, faults>>

\* The INSERT and the COMMIT.  Whoever lost a race for the name, or drew a
\* number that was copied, breaks a unique index and is answered 500.
Insert(r) ==
  /\ At(r, "insert")
  /\ IF number[r] \in DOMAIN users \/ name[r] \in NamesIn(users)
       THEN Answers(r, "error") /\ UNCHANGED users
       ELSE users' = Merged(Row(r), users) /\ Goto(r, "refresh") /\ UNCHANGED answer
  /\ UNCHANGED <<posts, userSeq, messageSeq, number, name, script, faults>>

Refresh(r) ==
  /\ At(r, "refresh")
  /\ Answers(r, "created")
  /\ UNCHANGED <<tables, userSeq, messageSeq, number, name, script, faults>>

\* The database fails, or its answer is lost; before the COMMIT nothing is left.
RegisterFails(r) ==
  /\ ~At(r, "idle") /\ Fault
  /\ Answers(r, "error")
  /\ UNCHANGED <<tables, userSeq, messageSeq, number, name, script>>

(* Posting *)

\* create_message: a message whose number was copied, and is still there, is not
\* stored.
Post ==
  /\ users # <<>> /\ messageSeq < MaxPost
  /\ messageSeq' = messageSeq + 1
  /\ messages' = Merged(messages, [m \in {messageSeq + 1} |-> "live"])
  /\ UNCHANGED <<users, expired, userSeq, registration, name, script, faults>>

\* cleanup_old_messages: whatever is past the retention time.  (The script copies
\* created_at, so what it has just copied may be.)
Cleanup ==
  \E gone \in SUBSET DOMAIN messages \ {{}} :
    /\ messages' = Restrict(messages, DOMAIN messages \ gone)
    /\ expired' = expired \cup (gone \cap SourceMessages)
    /\ UNCHANGED <<users, userSeq, messageSeq, registration, name, script, faults>>

(* migrate_data *)

Run ==
  /\ spc \in {"idle", "done"} /\ runs < MaxRuns
  /\ spc' = "users" /\ runs' = runs + 1
  /\ UNCHANGED <<tables, userSeq, messageSeq, registration, name, faults, synced>>

\* The rows are upserted by ascending id: one whose name another row bears,
\* unless that one has just been renamed, breaks the index.
NameClash ==
  \E i \in DOMAIN SourceUsers, j \in DOMAIN users :
    /\ i # j /\ users[j].name = SourceUsers[i]
    /\ j \in DOMAIN SourceUsers => i < j

Copies == [i \in DOMAIN SourceUsers |-> [name |-> SourceUsers[i], by |-> Sqlite]]

\* Mutant: ON CONFLICT DO NOTHING, as for the messages.
CopyUsersUnlessThere ==
  /\ spc = "users"
  /\ IF NameClash THEN spc' = "idle" /\ UNCHANGED users
                  ELSE spc' = "messages" /\ users' = Merged(users, Copies)
  /\ UNCHANGED <<posts, userSeq, messageSeq, registration, name, runs, faults, synced>>

\* ON CONFLICT (id) DO UPDATE, in one transaction.
CopyUsers ==
  /\ spc = "users"
  /\ IF NameClash THEN spc' = "idle" /\ UNCHANGED users
                  ELSE spc' = "messages" /\ users' = Merged(Copies, users)
  /\ UNCHANGED <<posts, userSeq, messageSeq, registration, name, runs, faults, synced>>

\* ON CONFLICT (id) DO NOTHING.
CopyMessages ==
  /\ spc = "messages" /\ spc' = "set_users"
  /\ messages' = Merged(messages, [m \in SourceMessages |-> "copied"])
  /\ expired' = {}
  /\ UNCHANGED <<users, userSeq, messageSeq, registration, name, runs, faults, synced>>

\* Mutant: setval to the number of rows.
SetUsersToCount ==
  /\ spc = "set_users" /\ spc' = "set_messages"
  /\ userSeq' = Cardinality(DOMAIN users)
  /\ synced' = \A r \in Registrations : ~At(r, "insert")
  /\ UNCHANGED <<tables, messageSeq, registration, name, runs, faults>>

\* setval, which takes effect at once: COALESCE(MAX(id), 1).
SetUsers ==
  /\ spc = "set_users" /\ spc' = "set_messages"
  /\ \E m \in Numbers : IsMax(m, {1} \cup DOMAIN users) /\ userSeq' = m
  /\ synced' = \A r \in Registrations : ~At(r, "insert")
  /\ UNCHANGED <<tables, messageSeq, registration, name, runs, faults>>

SetMessages ==
  /\ spc = "set_messages" /\ spc' = "done"
  /\ \E m \in Numbers : IsMax(m, {1} \cup DOMAIN messages) /\ messageSeq' = m
  /\ UNCHANGED <<tables, userSeq, registration, name, runs, faults, synced>>

\* An error is raised, or the process dies: the open transaction is undone.
ScriptFails ==
  /\ spc \notin {"idle", "done"} /\ Fault
  /\ spc' = "idle"
  /\ UNCHANGED <<tables, userSeq, messageSeq, registration, name, runs, synced>>

Next ==
  \/ \E r \in Registrations : \/ Register(r) \/ CheckName(r) \/ Draw(r) \/ Insert(r)
                              \/ Refresh(r) \/ RegisterFails(r)
  \/ Post \/ Cleanup
  \/ Run \/ CopyUsers \/ CopyMessages \/ SetUsers \/ SetMessages \/ ScriptFails

Spec == Init /\ [][Next]_vars

------------------------------------------------------------------------------
(* What must hold *)

\* However registrations race each other and the script, a name belongs to one
\* user, and whoever was answered 201 owns the row of the number and name
\* returned, unless the script, whose rows win, has one of that number.
AccountsAreTrue ==
  /\ \A i, j \in DOMAIN users : users[i].name = users[j].name => i = j
  /\ \A r \in Registrations : answer[r] = "created" =>
       /\ number[r] \in DOMAIN users
       /\ \/ users[number[r]] = [name |-> name[r], by |-> r]
          \/ number[r] \in DOMAIN SourceUsers /\ users[number[r]].by = Sqlite

\* A script that has finished, in whichever run, has copied every user under
\* its number and name, and there is a message under every number copied: the
\* old one, unless a live message was there first.  Missing are only those that a
\* cleanup has deleted since this run copied them; the next run brings them back.
CopyComplete ==
  spc = "done" =>
    /\ \A i \in DOMAIN SourceUsers : i \in DOMAIN users /\ users[i] = Copies[i]
    /\ SourceMessages \subseteq DOMAIN messages \cup expired

\* After a setval during which nobody registered, the sequence is past every
\* row, and the numbers that registrations hold are free and their own: no
\* registration fails for its number any more, whatever is copied again.
NumbersFresh ==
  synced =>
    /\ \A i \in DOMAIN users : i <= userSeq
    /\ \A r \in Registrations : At(r, "insert") =>
         /\ number[r] \notin DOMAIN users
         /\ \A q \in Registrations : At(q, "insert") /\ number[q] = number[r] => q = r
==============================================================================
