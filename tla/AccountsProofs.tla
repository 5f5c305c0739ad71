---------------------------- MODULE AccountsProofs ----------------------------
(***************************************************************************)
(* Proofs about Accounts: for any SQLite database, registrations, runs of  *)
(* the script and failures.                                                *)
(***************************************************************************)
EXTENDS Accounts, TLAPS

USE AccountsAssumption DEF At, Goto, Answers, Fault, Numbers,
                           posts, tables, registration, script

Copied == {"messages", "set_users", "set_messages", "done"}

\* What the script has copied stays, but for the messages that a cleanup deletes;
\* and nothing synchronised is copied anew.
CopyInv ==
  /\ spc \in Copied =>
       \A i \in DOMAIN SourceUsers : i \in DOMAIN users /\ users[i] = Copies[i]
  /\ spc \in Copied \ {"messages"} => SourceMessages \subseteq DOMAIN messages \cup expired
  /\ synced => DOMAIN SourceUsers \subseteq DOMAIN users

UniqueNames == \A i, j \in DOMAIN users : users[i].name = users[j].name => i = j

OwnRow(r) ==
  /\ number[r] \in DOMAIN users
  /\ \/ users[number[r]] = [name |-> name[r], by |-> r]
     \/ number[r] \in DOMAIN SourceUsers /\ users[number[r]].by = Sqlite

\* A row that was inserted for a registration is its own, or a copy.
OwnRows ==
  \A r \in Registrations :
    /\ ~At(r, "idle") => answer[r] \in {"none", "error"}
    /\ answer[r] = "created" \/ At(r, "refresh") => OwnRow(r)

\* No number that is held is past the sequence.
HeldInv ==
  synced => \A r \in Registrations : At(r, "insert") => number[r] <= userSeq

Inv == TypeOK /\ CopyInv /\ UniqueNames /\ OwnRows /\ NumbersFresh /\ HeldInv

------------------------------------------------------------------------------
(* Types *)

LEMMA InitInv == Init => Inv
<1> SUFFICES ASSUME Init PROVE Inv
  OBVIOUS
<1>1. DOMAIN users = {} /\ DOMAIN messages = {} /\ expired = {}
  BY DEF Init
<1>2. TypeOK
  <2>1. /\ userSeq \in 0 .. MaxNumber /\ messageSeq \in 0 .. MaxNumber
        /\ runs \in 0 .. MaxRuns /\ faults \in 0 .. MaxFaults
        /\ number \in [Registrations -> 0 .. MaxNumber]
    BY DEF Init
  <2> QED BY <1>1, <2>1 DEF Init, TypeOK
<1>3. CopyInv /\ UniqueNames /\ OwnRows /\ NumbersFresh /\ HeldInv
  BY <1>1 DEF Init, CopyInv, Copied, UniqueNames, OwnRows, NumbersFresh, HeldInv
<1> QED BY <1>2, <1>3 DEF Inv

LEMMA CopiesType ==
  \A i \in DOMAIN SourceUsers :
    Copies[i] = [name |-> SourceUsers[i], by |-> Sqlite] /\ SourceUsers[i] \in Names
  BY DEF Copies, Range

LEMMA TypeStep == TypeOK /\ [Next]_vars => TypeOK'
<1> SUFFICES ASSUME TypeOK, [Next]_vars PROVE TypeOK'
  OBVIOUS
<1> USE DEF TypeOK
<1>1. ASSUME NEW r \in Registrations, Register(r) PROVE TypeOK'
  BY <1>1 DEF Register
<1>2. ASSUME NEW r \in Registrations, CheckName(r) PROVE TypeOK'
  BY <1>2 DEF CheckName
<1>3. ASSUME NEW r \in Registrations, Draw(r) PROVE TypeOK'
  BY <1>3 DEF Draw
<1>4. ASSUME NEW r \in Registrations, Insert(r) PROVE TypeOK'
  <2>1. DOMAIN users' \subseteq Numbers
        /\ \A i \in DOMAIN users' : users'[i] \in [name : Names, by : Registrations \cup {Sqlite}]
    BY <1>4 DEF Insert, Merged, Row
  <2> QED BY <1>4, <2>1 DEF Insert
<1>5. ASSUME NEW r \in Registrations, Refresh(r) PROVE TypeOK'
  BY <1>5 DEF Refresh
<1>6. ASSUME NEW r \in Registrations, RegisterFails(r) PROVE TypeOK'
  <2>1. /\ faults' \in 0 .. MaxFaults /\ UNCHANGED <<tables, userSeq, messageSeq, number, name, script>>
        /\ rpc' = [rpc EXCEPT ![r] = "idle"] /\ answer' = [answer EXCEPT ![r] = "error"]
    BY <1>6 DEF RegisterFails
  <2> QED BY <2>1
<1>7. CASE Post
  <2>1. DOMAIN messages' \subseteq Numbers
        /\ \A m \in DOMAIN messages' : messages'[m] \in {"copied", "live"}
    BY <1>7 DEF Post, Merged
  <2> QED BY <1>7, <2>1 DEF Post
<1>8. CASE CopyUsers
  <2>1. DOMAIN users' \subseteq Numbers
        /\ \A i \in DOMAIN users' : users'[i] \in [name : Names, by : Registrations \cup {Sqlite}]
    <3>1. DOMAIN Copies = DOMAIN SourceUsers
      BY DEF Copies
    <3> QED BY <1>8, <3>1, CopiesType DEF CopyUsers, Merged
  <2> QED BY <1>8, <2>1 DEF CopyUsers
<1>9. CASE CopyMessages
  <2>1. DOMAIN messages' \subseteq Numbers
        /\ \A m \in DOMAIN messages' : messages'[m] \in {"copied", "live"}
    BY <1>9 DEF CopyMessages, Merged
  <2> QED BY <1>9, <2>1 DEF CopyMessages
<1>10. CASE Cleanup
  <2>1. /\ DOMAIN messages' \subseteq Numbers /\ expired' \subseteq SourceMessages
        /\ \A m \in DOMAIN messages' : messages'[m] \in {"copied", "live"}
    BY <1>10 DEF Cleanup, Restrict
  <2> QED BY <1>10, <2>1 DEF Cleanup
<1>11. CASE Run \/ ScriptFails
  <2>1. runs' \in 0 .. MaxRuns /\ faults' \in 0 .. MaxFaults
    BY <1>11 DEF Run, ScriptFails
  <2> QED BY <1>11, <2>1 DEF Run, ScriptFails
<1>12. CASE SetUsers
  BY <1>12 DEF SetUsers
<1>13. CASE SetMessages
  BY <1>13 DEF SetMessages
<1>14. CASE UNCHANGED vars
  BY <1>14 DEF vars
<1> QED
  BY <1>1, <1>2, <1>3, <1>4, <1>5, <1>6, <1>7, <1>8, <1>9, <1>10, <1>11, <1>12, <1>13,
     <1>14 DEF Next

------------------------------------------------------------------------------
(* The script *)

LEMMA CopiesDomain == DOMAIN Copies = DOMAIN SourceUsers
  BY DEF Copies

\* Rows are added, or replaced by copies; what goes of the old messages is expired.
LEMMA RowsStay ==
  ASSUME Inv, [Next]_vars
  PROVE  /\ DOMAIN users \subseteq DOMAIN users'
         /\ \A i \in DOMAIN users : users'[i] = users[i] \/ (i \in DOMAIN SourceUsers /\ users'[i] = Copies[i])
         /\ SourceMessages \subseteq DOMAIN messages \cup expired
              => SourceMessages \subseteq DOMAIN messages' \cup expired'
<1>1. ASSUME NEW r \in Registrations,
             Register(r) \/ CheckName(r) \/ Draw(r) \/ Refresh(r) \/ RegisterFails(r)
      PROVE  UNCHANGED <<users, messages, expired>>
  BY <1>1 DEF Register, CheckName, Draw, Refresh, RegisterFails
<1>2. ASSUME Run \/ SetUsers \/ SetMessages \/ ScriptFails \/ UNCHANGED vars
      PROVE  UNCHANGED <<users, messages, expired>>
  BY <1>2 DEF Run, SetUsers, SetMessages, ScriptFails, vars
<1>3. ASSUME NEW r \in Registrations, Insert(r)
      PROVE  /\ DOMAIN users \subseteq DOMAIN users' /\ UNCHANGED <<messages, expired>>
             /\ \A i \in DOMAIN users : users'[i] = users[i]
  BY <1>3 DEF Insert, Merged, Row
<1>4. CASE CopyUsers
  BY <1>4, CopiesDomain DEF CopyUsers, Merged
<1>5. CASE CopyMessages \/ Post
  BY <1>5 DEF CopyMessages, Post, Merged
<1>6. CASE Cleanup
  <2>1. PICK gone \in SUBSET DOMAIN messages :
          /\ messages' = Restrict(messages, DOMAIN messages \ gone)
          /\ expired' = expired \cup (gone \cap SourceMessages)
          /\ UNCHANGED users
    BY <1>6 DEF Cleanup
  <2>2. DOMAIN messages' = DOMAIN messages \ gone
    BY <2>1 DEF Restrict
  <2> QED BY <2>1, <2>2
<1> QED BY <1>1, <1>2, <1>3, <1>4, <1>5, <1>6 DEF Next

LEMMA CopyStep == Inv /\ [Next]_vars => CopyInv'
<1> SUFFICES ASSUME Inv, [Next]_vars PROVE CopyInv'
  OBVIOUS
<1> USE DEF CopyInv, Copied
<1>1. CASE CopyUsers
  <2>1. spc' \in {"idle", "messages"} /\ synced' = synced
    BY <1>1 DEF CopyUsers
  <2>2. spc' = "messages" =>
          \A i \in DOMAIN SourceUsers : i \in DOMAIN users' /\ users'[i] = Copies[i]
    BY <1>1, CopiesDomain DEF CopyUsers, Merged
  <2> QED BY <2>1, <2>2, RowsStay DEF Inv
<1>2. CASE CopyMessages
  <2>1. SourceMessages \subseteq DOMAIN messages'
    BY <1>2 DEF CopyMessages, Merged
  <2> QED BY <1>2, <2>1 DEF CopyMessages, Inv
<1>3. CASE SetUsers
  BY <1>3 DEF SetUsers, Inv
<1>4. CASE SetMessages
  BY <1>4 DEF SetMessages, Inv
<1>5. CASE Run \/ ScriptFails
  BY <1>5 DEF Run, ScriptFails, Inv
<1>6. ASSUME UNCHANGED <<spc, synced>> PROVE CopyInv'
  BY <1>6, RowsStay DEF Inv
<1>7. ASSUME NEW r \in Registrations,
             \/ Register(r) \/ CheckName(r) \/ Draw(r) \/ Insert(r)
             \/ Refresh(r) \/ RegisterFails(r)
      PROVE  UNCHANGED <<spc, synced>>
  BY <1>7 DEF Register, CheckName, Draw, Insert, Refresh, RegisterFails
<1>8. ASSUME Post \/ Cleanup \/ UNCHANGED vars PROVE UNCHANGED <<spc, synced>>
  BY <1>8 DEF Post, Cleanup, vars
<1> QED BY <1>1, <1>2, <1>3, <1>4, <1>5, <1>6, <1>7, <1>8 DEF Next

------------------------------------------------------------------------------
(* Names *)

\* Only Insert and CopyUsers change the users.
LEMMA UsersChange ==
  ASSUME [Next]_vars
  PROVE  UNCHANGED users \/ CopyUsers \/ \E r \in Registrations : Insert(r)
  BY DEF Next, Register, CheckName, Draw, Refresh, RegisterFails, Post, Cleanup, Run,
         CopyMessages,
         SetUsers, SetMessages, ScriptFails, vars

\* What an Insert that succeeds does.
LEMMA Inserted ==
  ASSUME NEW r \in Registrations, Insert(r), users' # users
  PROVE  /\ number[r] \notin DOMAIN users /\ name[r] \notin NamesIn(users)
         /\ DOMAIN users' = DOMAIN users \cup {number[r]}
         /\ users'[number[r]] = [name |-> name[r], by |-> r]
         /\ \A i \in DOMAIN users : users'[i] = users[i]
  BY DEF Insert, Merged, Row

LEMMA NamesStep == Inv /\ [Next]_vars => UniqueNames'
<1> SUFFICES ASSUME Inv, [Next]_vars, users' # users PROVE UniqueNames'
  BY DEF Inv, UniqueNames
<1>1. ASSUME NEW r \in Registrations, Insert(r) PROVE UniqueNames'
  <2>0. /\ name[r] \notin NamesIn(users)
        /\ DOMAIN users' = DOMAIN users \cup {number[r]}
        /\ users'[number[r]].name = name[r]
        /\ \A i \in DOMAIN users : users'[i] = users[i]
    <3>1. Insert(r) /\ users' # users
      BY <1>1
    <3>2. /\ name[r] \notin NamesIn(users)
          /\ DOMAIN users' = DOMAIN users \cup {number[r]}
          /\ users'[number[r]] = [name |-> name[r], by |-> r]
          /\ \A i \in DOMAIN users : users'[i] = users[i]
      BY <3>1, Inserted
    <3> QED BY <3>2
  <2>1. \A i \in DOMAIN users : users[i].name # name[r]
    BY <2>0 DEF NamesIn
  <2>2. \A i \in DOMAIN users : users'[i].name = users[i].name
    BY <2>0
  <2> QED BY <2>0, <2>1, <2>2 DEF UniqueNames, Inv
<1>2. CASE CopyUsers
  <2>1. ~NameClash /\ users' = Merged(Copies, users)
    BY <1>2 DEF CopyUsers
  <2>2. DOMAIN users' = DOMAIN SourceUsers \cup DOMAIN users
    BY <2>1, CopiesDomain DEF Merged
  <2>3. \A i \in DOMAIN SourceUsers : users'[i] = [name |-> SourceUsers[i], by |-> Sqlite]
    BY <2>1, CopiesDomain, CopiesType DEF Merged
  <2>4. \A i \in DOMAIN users \ DOMAIN SourceUsers : users'[i] = users[i]
    BY <2>1, CopiesDomain DEF Merged
  <2>5. \A i \in DOMAIN SourceUsers, j \in DOMAIN users \ DOMAIN SourceUsers :
          users[j].name # SourceUsers[i]
    BY <2>1 DEF NameClash
  <2>6. \A i, j \in DOMAIN SourceUsers : SourceUsers[i] = SourceUsers[j] => i = j
    BY DEF IsInjective
  <2> QED BY <2>2, <2>3, <2>4, <2>5, <2>6 DEF UniqueNames, Inv
<1> QED BY <1>1, <1>2, UsersChange

\* A row remains what it was for its registration.
LEMMA OwnRowStays ==
  ASSUME Inv, [Next]_vars, NEW r \in Registrations, OwnRow(r),
         number'[r] = number[r], name' = name
  PROVE  OwnRow(r)'
<1>1. number[r] \in DOMAIN users'
  BY RowsStay DEF OwnRow
<1>2. \/ users'[number[r]] = users[number[r]]
      \/ number[r] \in DOMAIN SourceUsers /\ users'[number[r]].by = Sqlite
  <2>1. number[r] \in DOMAIN users
    BY DEF OwnRow
  <2>2. \/ users'[number[r]] = users[number[r]]
        \/ number[r] \in DOMAIN SourceUsers /\ users'[number[r]] = Copies[number[r]]
    BY <2>1, RowsStay
  <2>3. number[r] \in DOMAIN SourceUsers => Copies[number[r]].by = Sqlite
    BY DEF Copies
  <2> QED BY <2>2, <2>3
<1> QED BY <1>1, <1>2 DEF OwnRow

LEMMA OwnStep == Inv /\ [Next]_vars => OwnRows'
<1> SUFFICES ASSUME Inv, [Next]_vars, NEW r \in Registrations
             PROVE  /\ rpc'[r] # "idle" => answer'[r] \in {"none", "error"}
                    /\ answer'[r] = "created" \/ rpc'[r] = "refresh" => OwnRow(r)'
  BY DEF OwnRows
<1>0. name' = name
  BY DEF Next, Register, CheckName, Draw, Insert, Refresh, RegisterFails, Post, Cleanup,
         Run, CopyUsers, CopyMessages, SetUsers, SetMessages, ScriptFails, vars
<1>1. ASSUME NEW q \in Registrations, Register(q) \/ CheckName(q) \/ Refresh(q) \/ RegisterFails(q)
      PROVE  /\ rpc'[r] # "idle" => answer'[r] \in {"none", "error"}
             /\ answer'[r] = "created" \/ rpc'[r] = "refresh"
                  => answer[r] = "created" \/ rpc[r] = "refresh"
             /\ number' = number
  BY <1>1 DEF Register, CheckName, Refresh, RegisterFails, Inv, TypeOK, OwnRows
<1>2. ASSUME NEW q \in Registrations, Draw(q)
      PROVE  /\ rpc'[r] # "idle" => answer'[r] \in {"none", "error"}
             /\ answer'[r] = "created" \/ rpc'[r] = "refresh"
                  => (answer[r] = "created" \/ rpc[r] = "refresh") /\ number'[r] = number[r]
  BY <1>2 DEF Draw, Inv, TypeOK, OwnRows
<1>3. ASSUME NEW q \in Registrations, Insert(q)
      PROVE  /\ rpc'[r] # "idle" => answer'[r] \in {"none", "error"}
             /\ answer'[r] = "created" \/ rpc'[r] = "refresh" => OwnRow(r)'
  <2>1. CASE q = r
    <3>1. CASE users' = users
      BY <3>1, <2>1, <1>3 DEF Insert, Inv, TypeOK, OwnRows, Merged, Row
    <3>2. CASE users' # users
      <4>1. number' = number /\ rpc'[r] = "refresh" /\ answer' = answer
        BY <3>2, <2>1, <1>3 DEF Insert, Inv, TypeOK
      <4>2. /\ number[r] \in DOMAIN users'
            /\ users'[number[r]] = [name |-> name[r], by |-> r]
        BY <3>2, <2>1, <1>3, Inserted
      <4>3. answer[r] \in {"none", "error"}
        BY <2>1, <1>3 DEF Insert, Inv, OwnRows
      <4> QED BY <4>1, <4>2, <4>3, <1>0 DEF OwnRow
    <3> QED BY <3>1, <3>2
  <2>2. CASE q # r
    <3>1. number' = number /\ rpc'[r] = rpc[r] /\ answer'[r] = answer[r]
      BY <2>2, <1>3 DEF Insert, Inv, TypeOK
    <3> QED BY <3>1, <1>0, OwnRowStays DEF Inv, OwnRows
  <2> QED BY <2>1, <2>2
<1>4. ASSUME \/ Post \/ Cleanup \/ Run \/ CopyUsers \/ CopyMessages \/ SetUsers
             \/ SetMessages \/ ScriptFails \/ UNCHANGED vars
      PROVE  UNCHANGED <<rpc, answer, number>>
  BY <1>4 DEF Post, Cleanup, Run, CopyUsers, CopyMessages, SetUsers, SetMessages, ScriptFails,
              vars
<1>5. CASE UNCHANGED <<rpc, answer, number>>
  BY <1>5, <1>0, OwnRowStays DEF Inv, OwnRows
<1>6. ASSUME NEW q \in Registrations, Register(q) \/ CheckName(q) \/ Refresh(q) \/ RegisterFails(q)
      PROVE  answer'[r] = "created" \/ rpc'[r] = "refresh" => OwnRow(r)'
  BY <1>6, <1>1, <1>0, OwnRowStays DEF Inv, OwnRows
<1>7. ASSUME NEW q \in Registrations, Draw(q)
      PROVE  answer'[r] = "created" \/ rpc'[r] = "refresh" => OwnRow(r)'
  BY <1>7, <1>2, <1>0, OwnRowStays DEF Inv, OwnRows
<1> QED BY <1>1, <1>2, <1>3, <1>4, <1>5, <1>6, <1>7 DEF Next

------------------------------------------------------------------------------
(* Numbers *)

LEMMA FreshStep == Inv /\ [Next]_vars => NumbersFresh' /\ HeldInv'
<1> SUFFICES ASSUME Inv, [Next]_vars, synced' PROVE NumbersFresh' /\ HeldInv'
  BY DEF NumbersFresh, HeldInv
<1> USE DEF NumbersFresh, HeldInv
<1>1. ASSUME NEW r \in Registrations, Register(r) \/ CheckName(r) \/ Refresh(r) \/ RegisterFails(r)
      PROVE  NumbersFresh' /\ HeldInv'
  <2>1. UNCHANGED <<users, number, userSeq, synced>>
        /\ \A q \in Registrations : rpc'[q] = "insert" => rpc[q] = "insert"
    BY <1>1 DEF Register, CheckName, Refresh, RegisterFails, Inv, TypeOK
  <2> QED BY <2>1 DEF Inv
<1>2. ASSUME NEW r \in Registrations, Draw(r) PROVE NumbersFresh' /\ HeldInv'
  <2>1. /\ UNCHANGED <<users, synced>> /\ userSeq' = userSeq + 1 /\ userSeq \in Nat
        /\ number'[r] = userSeq'
        /\ \A q \in Registrations \ {r} : number'[q] = number[q] /\ rpc'[q] = rpc[q]
    <3>1. /\ number \in [Registrations -> 0 .. MaxNumber] /\ userSeq \in Nat
          /\ rpc \in [Registrations -> {"idle", "check", "draw", "insert", "refresh"}]
      BY DEF Inv, TypeOK
    <3> QED BY <1>2, <3>1 DEF Draw
  <2>0. \A q \in Registrations : number[q] \in Nat
    BY DEF Inv, TypeOK
  <2>2. \A i \in DOMAIN users : i \in Nat /\ i <= userSeq
    BY <2>1 DEF Inv, TypeOK
  <2>3. \A q \in Registrations \ {r} : rpc[q] = "insert" =>
          number[q] <= userSeq /\ number[q] \notin DOMAIN users
    BY <2>1 DEF Inv
  <2>4. \A i \in DOMAIN users' : i <= userSeq'
    BY <2>1, <2>2
  <2>5. \A q \in Registrations : rpc'[q] = "insert" =>
          number'[q] <= userSeq' /\ number'[q] \notin DOMAIN users'
    BY <2>0, <2>1, <2>2, <2>3
  <2>6. \A p, q \in Registrations :
          rpc'[p] = "insert" /\ rpc'[q] = "insert" /\ number'[p] = number'[q] => p = q
    BY <2>0, <2>1, <2>3 DEF Inv
  <2> QED BY <2>4, <2>5, <2>6
<1>3. ASSUME NEW r \in Registrations, Insert(r) PROVE NumbersFresh' /\ HeldInv'
  <2>1. /\ UNCHANGED <<number, userSeq, synced>> /\ rpc[r] = "insert"
        /\ rpc'[r] # "insert" /\ \A q \in Registrations \ {r} : rpc'[q] = rpc[q]
    BY <1>3 DEF Insert, Inv, TypeOK
  <2>2. DOMAIN users' \subseteq DOMAIN users \cup {number[r]}
    BY <1>3, Inserted
  <2> QED BY <2>1, <2>2 DEF Inv
<1>4. CASE CopyUsers
  <2>1. DOMAIN users' \subseteq DOMAIN users \cup DOMAIN SourceUsers
    BY <1>4, CopiesDomain DEF CopyUsers, Merged
  <2>2. UNCHANGED <<rpc, number, userSeq, synced>>
    BY <1>4 DEF CopyUsers
  <2> QED BY <2>1, <2>2 DEF Inv, CopyInv
<1>5. CASE SetUsers
  <2>1. /\ UNCHANGED <<users, rpc>> /\ \A r \in Registrations : rpc[r] # "insert"
        /\ IsMax(userSeq', {1} \cup DOMAIN users)
    BY <1>5 DEF SetUsers
  <2> QED BY <2>1 DEF IsMax
<1>6. ASSUME \/ Post \/ Cleanup \/ Run \/ CopyMessages \/ SetMessages \/ ScriptFails
             \/ UNCHANGED vars
      PROVE  UNCHANGED <<users, rpc, number, userSeq, synced>>
  BY <1>6 DEF Post, Cleanup, Run, CopyMessages, SetMessages, ScriptFails, vars
<1>7. CASE UNCHANGED <<users, rpc, number, userSeq, synced>>
  BY <1>7 DEF Inv
<1> QED BY <1>1, <1>2, <1>3, <1>4, <1>5, <1>6, <1>7 DEF Next

------------------------------------------------------------------------------
(* Theorems *)

LEMMA Invariant == Spec => []Inv
<1>1. Inv /\ [Next]_vars => Inv'
  BY TypeStep, CopyStep, NamesStep, OwnStep, FreshStep DEF Inv
<1> QED BY <1>1, InitInv, PTL DEF Spec

\* Type correctness of registration and migration for all constants.
THEOREM TypeCorrect == Spec => []TypeOK
<1>1. Inv => TypeOK
  BY DEF Inv
<1> QED BY <1>1, Invariant, PTL

\* Names are unique and every 201 is true, whatever races and fails.
THEOREM AnswersTrue == Spec => []AccountsAreTrue
<1>1. Inv => AccountsAreTrue
  BY DEF Inv, UniqueNames, OwnRows, OwnRow, AccountsAreTrue
<1> QED BY <1>1, Invariant, PTL

\* A finished script has copied every user and message, however often it had died
\* before; of the messages only what a cleanup has deleted since is missing.
THEOREM Complete == Spec => []CopyComplete
<1>1. Inv => CopyComplete
  BY DEF Inv, CopyInv, Copied, CopyComplete
<1> QED BY <1>1, Invariant, PTL

\* After an undisturbed setval no registration fails for its number.
THEOREM Fresh == Spec => []NumbersFresh
<1>1. Inv => NumbersFresh
  BY DEF Inv
<1> QED BY <1>1, Invariant, PTL
==============================================================================
