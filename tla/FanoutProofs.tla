----------------------------- MODULE FanoutProofs -----------------------------
(***************************************************************************)
(* What TLAPS proves of Fanout, for any number of sockets, messages and    *)
(* faults.                                                                 *)
(***************************************************************************)
EXTENDS Fanout, TLAPS

\* A process that has just started is well typed.
LEMMA TypeInit == Init => TypeOK
<1>1. <<>> \in Seq(Nat) /\ 0 \in 0 .. MaxMessages /\ 0 \in 0 .. MaxFaults
  BY FanoutAssumption
<1>2. ASSUME Init PROVE linked \in BOOLEAN
  BY <1>2 DEF Init
<1>3. ASSUME Init PROVE got \in [Sockets -> Seq(Nat)] /\ since \in [Sockets -> Nat]
  BY <1>3 DEF Init
<1> QED
  BY <1>1, <1>2, <1>3 DEF Init, TypeOK, Expecting

\* Every step of a handler, of the listener and of the world keeps every
\* variable's type.
LEMMA TypeNext == TypeOK /\ [Next]_vars => TypeOK'
<1> SUFFICES ASSUME TypeOK, [Next]_vars PROVE TypeOK'
  OBVIOUS
<1> USE FanoutAssumption DEF TypeOK, Expecting, Serving
<1>1. ASSUME NEW s \in Sockets, Connect(s) \/ Step(s) \/ Frame(s) PROVE TypeOK'
  <2> USE DEF handlers, broadcast, channel, history
  <2>1. ASSUME NEW step \in Expecting \cup Serving, Proceed(s, step) PROVE TypeOK'
    BY <2>1 DEF Proceed, Goto
  <2>2. ASSUME Refuse(s) PROVE TypeOK'
    BY <2>2 DEF Refuse, Goto
  <2>3. ASSUME Leave(s) PROVE TypeOK'
    BY <2>3 DEF Leave, Goto
  <2>4. CASE Connect(s) \/ CheckSession(s) \/ LoadUser(s)
    BY <2>1, <2>2, <2>4 DEF Connect, CheckSession, LoadUser
  <2>5. CASE Accept(s)
    <3>1. Len(heard) \in Nat
      OBVIOUS
    <3>2. CASE Refuse(s)
      BY <2>2, <3>2
    <3>3. CASE ~Refuse(s)
      BY <2>5, <3>1, <3>3 DEF Accept, Goto
    <3> QED
      BY <3>2, <3>3
  <2>6. CASE Greet(s) \/ Reply(s) \/ Disconnected(s) \/ Frame(s)
    BY <2>1, <2>3, <2>6 DEF Greet, Reply, Tell, Disconnected, Frame
  <2>7. CASE Create(s)
    <3>1. CASE Proceed(s, "reply")
      BY <2>1, <3>1
    <3>2. CASE ~Proceed(s, "reply")
      <4>1. PublishOne
        BY <2>7, <3>2 DEF Create
      <4>2. published' \in 0 .. MaxMessages /\ inbox' \in Seq(Nat)
        BY <4>1 DEF PublishOne
      <4> QED
        BY <2>7, <3>2, <4>2 DEF Create, Goto
    <3> QED
      BY <3>1, <3>2
  <2> QED
    BY <1>1, <2>4, <2>5, <2>6, <2>7 DEF Step
<1>2. ASSUME NEW s \in Sockets, Send(s) PROVE TypeOK'
  <2>1. heard[Len(heard)] \in Nat
    BY <1>2 DEF Send
  <2>2. got' \in [Sockets -> Seq(Nat)]
    <3>1. Append(got[s], heard[Len(heard)]) \in Seq(Nat)
      BY <2>1
    <3> QED
      BY <1>2, <3>1 DEF Send, Receives
  <2> QED
    BY <1>2, <2>2 DEF Send, handlers, channel, history
<1>3. ASSUME NEW s \in Sockets, PeerLost(s) \/ Revoke(s) PROVE TypeOK'
  BY <1>3 DEF PeerLost, Revoke, broadcast, channel, history
<1>4. CASE Subscribe
  <2>1. linked' \in BOOLEAN
    BY <1>4 DEF Subscribe
  <2>2. faults' \in 0 .. MaxFaults
    BY <1>4 DEF Subscribe, Fault
  <2> QED
    BY <1>4, <2>1, <2>2 DEF Subscribe, handlers, history
<1>5. CASE Take
  BY <1>5 DEF Take, handlers
<1>6. CASE Unlink
  <2>1. inbox' \in Seq(Nat)
    BY <1>6 DEF Unlink
  <2>2. linked' \in BOOLEAN
    BY <1>6 DEF Unlink
  <2>3. faults' \in 0 .. MaxFaults
    BY <1>6 DEF Unlink, Fault
  <2> QED
    BY <1>6, <2>1, <2>2, <2>3 DEF Unlink, handlers, broadcast, history
<1>7. CASE Relink \/ EndListener
  <2>1. linked' \in BOOLEAN
    BY <1>7 DEF Relink, EndListener
  <2>2. <<>> \in Seq(Nat) /\ faults' \in 0 .. MaxFaults
    BY <1>7 DEF Relink, EndListener, Fault
  <2> QED
    BY <1>7, <2>1, <2>2 DEF Relink, EndListener, handlers, broadcast, history
<1>8. CASE PublishElsewhere
  BY <1>8 DEF PublishElsewhere, PublishOne, handlers, broadcast, history
<1>9. CASE UNCHANGED vars
  BY <1>9 DEF vars, handlers, broadcast, channel, history
<1> QED
  BY <1>1, <1>2, <1>3, <1>4, <1>5, <1>6, <1>7, <1>8, <1>9 DEF Next

\* Every variable keeps its type, and a broadcast is under way exactly while
\* some socket is still to be sent to.
THEOREM TypeCorrect == Spec => []TypeOK
  BY TypeInit, TypeNext, PTL DEF Spec

------------------------------------------------------------------------------
(* Who is in the list *)

\* A failed send is a sign that the client has gone, which is for good: what
\* broadcast_local removes is no connected client's.
ListInv == ListedWhileServed /\ dead \cap peer = {}

\* No step of a handler, of a broadcast or of a client parts the list from the
\* handlers.
LEMMA ListNext == TypeOK /\ ListInv /\ [Next]_vars => ListInv'
<1> SUFFICES ASSUME TypeOK, ListInv, [Next]_vars PROVE ListInv'
  OBVIOUS
<1> USE DEF TypeOK, ListInv, ListedWhileServed, Expecting, Serving
<1>1. ASSUME NEW s \in Sockets, Connect(s) \/ Step(s) \/ Frame(s) PROVE ListInv'
  <2> USE DEF handlers, broadcast, channel, history
  <2>1. ASSUME NEW step, Proceed(s, step), s \notin active, spc[s] \in Expecting,
               step \in Expecting PROVE ListInv'
    BY <2>1 DEF Proceed, Goto
  <2>2. ASSUME NEW step \in Serving, Proceed(s, step), spc[s] \in Serving PROVE ListInv'
    BY <2>2 DEF Proceed, Goto
  <2>3. ASSUME Refuse(s), spc[s] \in Expecting PROVE ListInv'
    BY <2>3 DEF Refuse, Goto
  <2>4. ASSUME Leave(s) PROVE ListInv'
    BY <2>4 DEF Leave, Goto
  <2>5. CASE Connect(s) \/ CheckSession(s) \/ LoadUser(s)
    BY <2>1, <2>3, <2>5 DEF Connect, CheckSession, LoadUser, At
  <2>6. CASE Accept(s)
    BY <2>3, <2>6 DEF Accept, At, Goto
  <2>7. CASE Greet(s) \/ Reply(s) \/ Disconnected(s) \/ Frame(s)
    BY <2>2, <2>4, <2>7 DEF Greet, Reply, Tell, Disconnected, Frame, At
  <2>8. CASE Create(s)
    BY <2>2, <2>8 DEF Create, At, Goto
  <2> QED
    BY <1>1, <2>5, <2>6, <2>7, <2>8 DEF Step
<1>2. ASSUME NEW s \in Sockets, Send(s) PROVE ListInv'
  BY <1>2 DEF Send, handlers
<1>3. ASSUME NEW s \in Sockets, PeerLost(s) \/ Revoke(s) PROVE ListInv'
  BY <1>3 DEF PeerLost, Revoke, broadcast
<1>4. CASE Subscribe \/ Take \/ Unlink \/ Relink \/ EndListener \/ PublishElsewhere
  BY <1>4 DEF Subscribe, Take, Unlink, Relink, EndListener, PublishElsewhere,
              handlers, broadcast
<1>5. CASE UNCHANGED vars
  BY <1>5 DEF vars, handlers, broadcast
<1> QED
  BY <1>1, <1>2, <1>3, <1>4, <1>5 DEF Next

\* The list of sockets is that of the connected clients being served and of
\* some that have just gone.
THEOREM Listed == Spec => []ListedWhileServed
<1>1. Init => ListInv
  BY DEF Init, ListInv, ListedWhileServed, Serving
<1> QED
  BY <1>1, TypeCorrect, ListNext, PTL DEF Spec, ListInv

------------------------------------------------------------------------------
(* What clients have received *)

\* A handler that has not joined the list has received nothing and is in no
\* broadcast.
FreshInv == \A s \in Sockets : spc[s] \in Expecting => got[s] = <<>> /\ s \notin todo
SkipInv == NothingSkipped /\ FreshInv

\* Every socket of the list is one message behind what was heard while it is
\* still to be sent to, and not behind at all otherwise; each step of the
\* listener and of the handlers keeps it so.
LEMMA SkipNext ==
  TypeOK /\ ListInv /\ SkipInv /\ [Next]_vars => SkipInv'
<1> SUFFICES ASSUME TypeOK, ListInv, SkipInv, [Next]_vars PROVE SkipInv'
  OBVIOUS
<1> USE DEF TypeOK, SkipInv, NothingSkipped, FreshInv
<1>1. ASSUME NEW s \in Sockets, Connect(s) \/ Step(s) \/ Frame(s) PROVE SkipInv'
  <2> USE DEF handlers, broadcast, channel, history
  <2>1. ASSUME NEW step, Proceed(s, step), step \in Expecting => spc[s] \in Expecting
        PROVE SkipInv'
    BY <2>1 DEF Proceed, Goto
  <2>2. ASSUME Refuse(s) \/ Leave(s) PROVE SkipInv'
    BY <2>2 DEF Refuse, Leave, Goto, Expecting
  <2>3. CASE Connect(s) \/ CheckSession(s) \/ LoadUser(s)
    BY <2>1, <2>2, <2>3 DEF Connect, CheckSession, LoadUser, At, Expecting
  <2>4. CASE Accept(s)
    <3>1. CASE Refuse(s)
      BY <2>2, <3>1
    <3>2. CASE ~Refuse(s)
      <4>1. got[s] = <<>> /\ s \notin todo
        BY <2>4 DEF Accept, At, Expecting
      <4>2. /\ spc' = [spc EXCEPT ![s] = "greet"]
            /\ active' = active \cup {s}
            /\ since' = [since EXCEPT ![s] = Len(heard)]
            /\ UNCHANGED <<peer, listener, todo, got, heard>>
        BY <2>4, <3>2 DEF Accept, Goto
      <4>3. FreshInv'
        BY <4>2 DEF Expecting
      <4>4. ASSUME NEW t \in active \cap peer, t # s, listener # "ended"
            PROVE since'[t] = since[t] /\ got'[t] = got[t]
        <5>1. t \in Sockets
          BY <4>4
        <5> QED
          BY <4>2, <4>4, <5>1
      <4>5. since'[s] = Len(heard) /\ Len(got'[s]) = 0 /\ s \notin todo'
        BY <4>1, <4>2
      <4>6. Len(heard) \in Nat /\ heard' = heard
        BY <4>2
      <4>7. ASSUME NEW t \in active' \cap peer', listener' # "ended"
            PROVE /\ Len(heard') = since'[t] + Len(got'[t]) + (IF t \in todo' THEN 1 ELSE 0)
                  /\ \A i \in 1 .. Len(got'[t]) : got'[t][i] = heard'[since'[t] + i]
        <5>1. CASE t = s
          BY <4>5, <4>6, <5>1
        <5>2. CASE t # s
          BY <4>2, <4>4, <4>7, <5>2
        <5> QED
          BY <5>1, <5>2
      <4> QED
        BY <4>3, <4>7
    <3> QED
      BY <3>1, <3>2
  <2>5. CASE Greet(s) \/ Reply(s) \/ Disconnected(s) \/ Frame(s)
    BY <2>1, <2>2, <2>5 DEF Greet, Reply, Tell, Disconnected, Frame, Expecting
  <2>6. CASE Create(s)
    <3>1. CASE Proceed(s, "reply")
      BY <2>1, <3>1 DEF Expecting
    <3>2. CASE ~Proceed(s, "reply")
      <4>1. /\ spc' \in {[spc EXCEPT ![s] = "receive"], [spc EXCEPT ![s] = "reply"]}
            /\ UNCHANGED <<peer, active, listener, todo, got, heard, since>>
        BY <2>6, <3>2 DEF Create, Goto
      <4> QED
        BY <4>1 DEF Expecting
    <3> QED
      BY <3>1, <3>2
  <2> QED
    BY <1>1, <2>3, <2>4, <2>5, <2>6 DEF Step
<1>2. ASSUME NEW s \in Sockets, Send(s) PROVE SkipInv'
  <2>1. /\ s \in todo /\ todo' = todo \ {s} /\ listener = "send"
        /\ active' \subseteq active
        /\ UNCHANGED <<spc, peer, heard, since>>
    BY <1>2 DEF Send, handlers, history
  <2>2. FreshInv'
    BY <1>2, <2>1 DEF Send, Receives
  <2>3. CASE s \notin peer
    <3>1. UNCHANGED got
      BY <1>2, <2>3 DEF Send
    <3> QED
      BY <2>1, <2>2, <2>3, <3>1
  <2>4. CASE s \in peer
    <3>1. got' = [got EXCEPT ![s] = Append(@, heard[Len(heard)])]
      BY <1>2, <2>4 DEF Send, Receives
    <3>2. ASSUME NEW t \in active' \cap peer', t # s
          PROVE /\ Len(heard') = since'[t] + Len(got'[t]) + (IF t \in todo' THEN 1 ELSE 0)
                /\ \A i \in 1 .. Len(got'[t]) : got'[t][i] = heard'[since'[t] + i]
      BY <2>1, <3>1, <3>2
    <3>3. ASSUME s \in active'
          PROVE /\ Len(heard') = since'[s] + Len(got'[s]) + (IF s \in todo' THEN 1 ELSE 0)
                /\ \A i \in 1 .. Len(got'[s]) : got'[s][i] = heard'[since'[s] + i]
      <4>1. /\ Len(heard) = since[s] + Len(got[s]) + 1
            /\ \A i \in 1 .. Len(got[s]) : got[s][i] = heard[since[s] + i]
        BY <2>1, <2>4, <3>3
      <4>2. got'[s] = Append(got[s], heard[Len(heard)])
        BY <3>1
      <4>3. Len(got'[s]) = Len(got[s]) + 1
        BY <4>2
      <4>4. ASSUME NEW i \in 1 .. Len(got'[s])
            PROVE got'[s][i] = heard[since[s] + i]
        <5>1. CASE i = Len(got[s]) + 1
          BY <4>1, <4>2, <4>3, <5>1
        <5>2. CASE i \in 1 .. Len(got[s])
          <6>1. got'[s][i] = got[s][i]
            BY <4>2, <5>2
          <6> QED
            BY <4>1, <5>2, <6>1
        <5> QED
          BY <4>3, <4>4, <5>1, <5>2
      <4>5. since'[s] = since[s] /\ heard' = heard /\ s \notin todo'
        BY <2>1
      <4> QED
        BY <4>1, <4>3, <4>4, <4>5
    <3>4. NothingSkipped'
      BY <3>2, <3>3
    <3> QED
      BY <2>2, <3>4
  <2> QED
    BY <2>3, <2>4
<1>3. ASSUME NEW s \in Sockets, PeerLost(s) \/ Revoke(s) PROVE SkipInv'
  BY <1>3 DEF PeerLost, Revoke, broadcast, channel, history
<1>4. CASE Take
  <2>1. /\ todo = {} /\ todo' = active
        /\ heard' = Append(heard, Head(inbox))
        /\ UNCHANGED <<spc, peer, active, got, since>>
    BY <1>4 DEF Take, handlers
  <2>2. Len(heard') = Len(heard) + 1 /\ \A i \in 1 .. Len(heard) : heard'[i] = heard[i]
    BY <1>4, <2>1 DEF Take
  <2>3. ASSUME NEW t \in active \cap peer
        PROVE /\ Len(heard') = since[t] + Len(got[t]) + 1
              /\ \A i \in 1 .. Len(got[t]) : got[t][i] = heard'[since[t] + i]
    <3>1. /\ Len(heard) = since[t] + Len(got[t])
          /\ \A i \in 1 .. Len(got[t]) : got[t][i] = heard[since[t] + i]
      BY <1>4, <2>1, <2>3 DEF Take
    <3>2. ASSUME NEW i \in 1 .. Len(got[t]) PROVE since[t] + i \in 1 .. Len(heard)
      BY <3>1
    <3> QED
      BY <2>2, <3>1, <3>2
  <2>4. FreshInv'
    BY <2>1 DEF ListInv, ListedWhileServed, Expecting, Serving
  <2> QED
    BY <2>1, <2>3, <2>4
<1>5. CASE Subscribe \/ Unlink \/ Relink \/ EndListener \/ PublishElsewhere
  BY <1>5 DEF Subscribe, Unlink, Relink, EndListener, PublishElsewhere,
              handlers, broadcast, history
<1>6. CASE UNCHANGED vars
  BY <1>6 DEF vars, handlers, broadcast, channel, history
<1> QED
  BY <1>1, <1>2, <1>3, <1>4, <1>5, <1>6 DEF Next

\* No connected client misses, repeats or reorders what its process hears.
THEOREM Delivered == Spec => []NothingSkipped
<1>1. Init => ListInv /\ SkipInv
  BY DEF Init, ListInv, ListedWhileServed, SkipInv, NothingSkipped, FreshInv, Serving
<1> QED
  BY <1>1, TypeCorrect, ListNext, SkipNext, PTL DEF Spec, SkipInv

------------------------------------------------------------------------------
(* The order of what is heard *)

\* What the listener has taken and what waits for it are publications, and
\* rise; a handler that has ended has closed its connection.
OrderInv ==
  /\ \A i \in 1 .. Len(heard) : heard[i] \in 1 .. published
  /\ \A i \in 1 .. Len(inbox) : inbox[i] \in 1 .. published
  /\ \A i, j \in 1 .. Len(heard) : i < j => heard[i] < heard[j]
  /\ \A i, j \in 1 .. Len(inbox) : i < j => inbox[i] < inbox[j]
  /\ \A i \in 1 .. Len(heard), j \in 1 .. Len(inbox) : heard[i] < inbox[j]
ClosedInv == \A s \in Sockets : spc[s] = "ended" => s \notin peer

\* A publication is newer than all that were heard or wait.
LEMMA PublishInOrder == ASSUME TypeOK, OrderInv, PublishOne, UNCHANGED heard PROVE OrderInv'
<1>1. published \in Nat /\ published' = published + 1 /\ inbox \in Seq(Nat) /\ heard \in Seq(Nat)
  BY FanoutAssumption DEF TypeOK, PublishOne
<1>2. CASE UNCHANGED inbox
  BY <1>1, <1>2 DEF OrderInv
<1>3. CASE inbox' = Append(inbox, published + 1)
  <2>1. /\ Len(inbox') = Len(inbox) + 1 /\ Len(inbox) \in Nat
        /\ inbox'[Len(inbox) + 1] = published + 1
        /\ \A i \in 1 .. Len(inbox) : inbox'[i] = inbox[i]
    BY <1>1, <1>3
  <2>2. \A i \in 1 .. Len(inbox') : i \in 1 .. Len(inbox) \/ i = Len(inbox) + 1
    BY <2>1
  <2>3. ASSUME NEW i \in 1 .. Len(heard) PROVE heard[i] \in 1 .. published
    BY DEF OrderInv
  <2>4. ASSUME NEW i \in 1 .. Len(inbox) PROVE inbox[i] \in 1 .. published
    BY DEF OrderInv
  <2>5. \A i \in 1 .. Len(heard) : heard[i] \in 1 .. published'
    BY <1>1, <2>3
  <2>6. ASSUME NEW i \in 1 .. Len(inbox') PROVE inbox'[i] \in 1 .. published'
    <3>1. CASE i \in 1 .. Len(inbox)
      BY <1>1, <2>1, <2>4, <3>1
    <3>2. CASE i = Len(inbox) + 1
      BY <1>1, <2>1, <3>2
    <3> QED BY <2>2, <3>1, <3>2
  <2>7. ASSUME NEW i \in 1 .. Len(inbox'), NEW j \in 1 .. Len(inbox'), i < j
        PROVE  inbox'[i] < inbox'[j]
    <3>1. i \in 1 .. Len(inbox) /\ inbox'[i] = inbox[i] /\ inbox[i] \in 1 .. published
      BY <2>1, <2>4, <2>7
    <3>2. CASE j \in 1 .. Len(inbox)
      BY <2>1, <2>7, <3>1, <3>2 DEF OrderInv
    <3>3. CASE j = Len(inbox) + 1
      BY <1>1, <2>1, <3>1, <3>3
    <3> QED BY <2>2, <3>2, <3>3
  <2>8. ASSUME NEW i \in 1 .. Len(heard), NEW j \in 1 .. Len(inbox')
        PROVE  heard[i] < inbox'[j]
    <3>1. CASE j \in 1 .. Len(inbox)
      BY <2>1, <3>1 DEF OrderInv
    <3>2. CASE j = Len(inbox) + 1
      BY <1>1, <2>1, <2>3, <3>2
    <3> QED BY <2>2, <3>1, <3>2
  <2>9. \A i, j \in 1 .. Len(heard) : i < j => heard[i] < heard[j]
    BY DEF OrderInv
  <2> QED BY <2>5, <2>6, <2>7, <2>8, <2>9 DEF OrderInv
<1> QED BY <1>2, <1>3 DEF PublishOne

\* Redis loses the newest of what waits; a listener that ends, all of it.
LEMMA LossInOrder ==
  ASSUME TypeOK, OrderInv, NEW n \in 0 .. Len(inbox), inbox' = SubSeq(inbox, 1, n),
         UNCHANGED <<published, heard>>
  PROVE  OrderInv'
<1>1. inbox \in Seq(Nat) /\ Len(inbox') = n /\ \A i \in 1 .. n : inbox'[i] = inbox[i]
  BY DEF TypeOK
<1>2. \A i \in 1 .. n : i \in 1 .. Len(inbox)
  BY <1>1
<1> QED BY <1>1, <1>2 DEF OrderInv

LEMMA TakeInOrder == ASSUME TypeOK, OrderInv, Take PROVE OrderInv'
<1>1. /\ inbox \in Seq(Nat) /\ heard \in Seq(Nat) /\ inbox # <<>>
      /\ inbox' = Tail(inbox) /\ heard' = Append(heard, inbox[1]) /\ published' = published
  BY DEF Take, TypeOK
<1>2. /\ Len(inbox) \in Nat \ {0} /\ Len(inbox') = Len(inbox) - 1
      /\ \A i \in 1 .. Len(inbox') : inbox'[i] = inbox[i + 1] /\ i + 1 \in 1 .. Len(inbox)
  BY <1>1
<1>3. /\ Len(heard) \in Nat /\ Len(heard') = Len(heard) + 1
      /\ heard'[Len(heard) + 1] = inbox[1]
      /\ \A i \in 1 .. Len(heard) : heard'[i] = heard[i]
  BY <1>1
<1>4. \A i \in 1 .. Len(heard') : i \in 1 .. Len(heard) \/ i = Len(heard) + 1
  BY <1>3
<1>5. 1 \in 1 .. Len(inbox)
  BY <1>2
<1>6. \A i \in 1 .. Len(heard') : heard'[i] \in 1 .. published'
  BY <1>1, <1>3, <1>4, <1>5 DEF OrderInv
<1>7. \A i \in 1 .. Len(inbox') : inbox'[i] \in 1 .. published'
  BY <1>1, <1>2 DEF OrderInv
<1>8. \A i, j \in 1 .. Len(heard') : i < j => heard'[i] < heard'[j]
  BY <1>3, <1>4, <1>5 DEF OrderInv
<1>9. ASSUME NEW i \in 1 .. Len(inbox'), NEW j \in 1 .. Len(inbox'), i < j
      PROVE  inbox'[i] < inbox'[j]
  <2>1. i + 1 \in 1 .. Len(inbox) /\ j + 1 \in 1 .. Len(inbox) /\ i + 1 < j + 1
    BY <1>2, <1>9
  <2>2. inbox[i + 1] < inbox[j + 1]
    BY <2>1 DEF OrderInv
  <2> QED BY <1>2, <2>2
<1>10. ASSUME NEW i \in 1 .. Len(heard'), NEW j \in 1 .. Len(inbox')
       PROVE  heard'[i] < inbox'[j]
  <2>1. j + 1 \in 1 .. Len(inbox) /\ 1 < j + 1 /\ inbox'[j] = inbox[j + 1]
    BY <1>2
  <2>2. CASE i \in 1 .. Len(heard)
    BY <1>3, <2>1, <2>2 DEF OrderInv
  <2>3. CASE i = Len(heard) + 1
    BY <1>3, <1>5, <2>1, <2>3 DEF OrderInv
  <2> QED BY <1>4, <2>2, <2>3
<1> QED BY <1>6, <1>7, <1>8, <1>9, <1>10 DEF OrderInv

LEMMA OrderNext == TypeOK /\ OrderInv /\ [Next]_vars => OrderInv'
<1> SUFFICES ASSUME TypeOK, OrderInv, [Next]_vars PROVE OrderInv'
  OBVIOUS
<1>1. CASE UNCHANGED <<heard, inbox, published>>
  BY <1>1 DEF OrderInv
<1>2. CASE PublishOne /\ UNCHANGED heard
  BY <1>2, PublishInOrder
<1>3. CASE Take
  BY <1>3, TakeInOrder
<1>4. CASE Unlink
  BY <1>4, LossInOrder DEF Unlink, history
<1>5. CASE EndListener
  <2>1. inbox' = SubSeq(inbox, 1, 0) /\ 0 \in 0 .. Len(inbox)
    BY <1>5 DEF EndListener, TypeOK
  <2> QED BY <1>5, <2>1, LossInOrder DEF EndListener, history
<1>6. ASSUME NEW s \in Sockets, Connect(s) \/ Step(s) \/ Frame(s) PROVE OrderInv'
  <2>1. CASE Create(s)
    BY <1>1, <1>2, <2>1 DEF Create, Proceed, channel, history
  <2>2. CASE Accept(s)
    BY <1>1, <2>2 DEF Accept, Refuse, channel, history
  <2>3. CASE Proceed(s, "x") \/ UNCHANGED <<channel, history>>
    BY <1>1, <2>3 DEF Proceed, channel, history
  <2> QED
    BY <1>6, <2>1, <2>2, <2>3 DEF Connect, Step, Frame, CheckSession, LoadUser, Greet, Reply, Tell,
       Disconnected, Proceed, Refuse, Leave
<1>7. ASSUME NEW s \in Sockets, Send(s) \/ PeerLost(s) \/ Revoke(s) PROVE OrderInv'
  BY <1>1, <1>7 DEF Send, PeerLost, Revoke, channel, history
<1>8. CASE Subscribe \/ Relink \/ PublishElsewhere \/ UNCHANGED vars
  BY <1>1, <1>2, <1>8 DEF Subscribe, Relink, PublishElsewhere, vars, channel, history
<1> QED
  BY <1>3, <1>4, <1>5, <1>6, <1>7, <1>8 DEF Next

LEMMA ClosedNext == TypeOK /\ ClosedInv /\ [Next]_vars => ClosedInv'
<1> SUFFICES ASSUME TypeOK, ClosedInv, [Next]_vars PROVE ClosedInv'
  OBVIOUS
<1> USE DEF ClosedInv, TypeOK
<1>1. CASE spc' = spc /\ peer' \subseteq peer
  BY <1>1
<1>2. ASSUME NEW s \in Sockets, Refuse(s) \/ Leave(s) PROVE ClosedInv'
  BY <1>2 DEF Refuse, Leave, Goto
<1>3. ASSUME NEW s \in Sockets, NEW step \in Expecting \cup Serving, Goto(s, step), peer' = peer
      PROVE  ClosedInv'
  BY <1>3 DEF Goto, Expecting, Serving
<1>4. ASSUME NEW s \in Sockets, Connect(s) \/ Step(s) \/ Frame(s) PROVE ClosedInv'
  BY <1>2, <1>3, <1>4 DEF Connect, Step, Frame, CheckSession, LoadUser, Accept, Greet, Reply, Tell,
     Disconnected, Create, Proceed, Expecting, Serving
<1> QED
  BY <1>1, <1>4 DEF Next, Send, PeerLost, Revoke, Subscribe, Take, Unlink, Relink, EndListener,
     PublishElsewhere, vars, handlers
LEMMA SafetyInv == Spec => [](TypeOK /\ ListInv /\ SkipInv /\ OrderInv /\ ClosedInv)
<1>1. Init => ListInv /\ SkipInv
  BY DEF Init, ListInv, ListedWhileServed, SkipInv, NothingSkipped, FreshInv, Serving
<1>2. Init => OrderInv /\ ClosedInv
  BY DEF Init, OrderInv, ClosedInv
<1> QED
  BY <1>1, <1>2, TypeInit, TypeNext, ListNext, SkipNext, OrderNext, ClosedNext, PTL DEF Spec

------------------------------------------------------------------------------
(* The process is a Broadcast *)

\* Served clients are members of the list, who are not waited for in vain.
LEMMA ServedFacts ==
  ASSUME TypeOK, ListInv, SkipInv, ClosedInv
  PROVE  /\ Served \subseteq Sockets /\ Served \cap Departed = {}
         /\ Served \subseteq active \cap peer
         /\ todo \cap peer \subseteq Served
<1>1. Served \subseteq active \cap peer
  BY DEF Served, ListInv, ListedWhileServed
<1>2. todo \cap peer \subseteq Served
  BY DEF Served, SkipInv, FreshInv, ClosedInv, TypeOK
<1> QED BY <1>1, <1>2 DEF Served, Departed, TypeOK

\* Whatever leaves clients and messages alone is no step of the Broadcast.
LEMMA Stutters ==
  ASSUME UNCHANGED <<heard, got>>, Served' = Served, Departed' = Departed,
         \A s \in Served : since'[s] = since[s]
  PROVE  UNCHANGED Hub!vars
  BY DEF Hub!vars, JoinedAt

LEMMA Joins ==
  ASSUME UNCHANGED <<heard, got>>, NEW s \in Sockets, s \notin Served \cup Departed,
         Served' = Served \cup {s}, Departed' = Departed,
         since \in [Sockets -> Nat], since' = [since EXCEPT ![s] = Len(heard)],
         Served \subseteq Sockets
  PROVE  Hub!Join(s)
<1>1. [t \in Served |-> since[t]]' = [t \in Served \cup {s} |->
                                        IF t = s THEN Len(heard) ELSE since[t]]
  OBVIOUS
<1> QED BY <1>1 DEF Hub!Join, Hub!Connected, JoinedAt

LEMMA Departs ==
  ASSUME UNCHANGED <<heard, got>>, NEW s \in Sockets, s \notin Departed,
         Served' = Served \ {s}, Departed' = Departed \cup {s},
         \A t \in Served \ {s} : since'[t] = since[t]
  PROVE  Hub!Leave(s)
<1>1. [t \in Served |-> since[t]]' = [t \in Served \ {s} |-> since[t]]
  OBVIOUS
<1> QED BY <1>1 DEF Hub!Leave, Hub!Connected, JoinedAt

\* A handler's next step while it goes on expecting, or serving, its client.
LEMMA GoesOn ==
  ASSUME TypeOK, NEW s \in Sockets, NEW step, Goto(s, step), UNCHANGED <<peer, heard, got, since>>,
         \/ spc[s] \in Expecting /\ step \in Expecting
         \/ spc[s] \in Serving /\ step \in Serving
  PROVE  UNCHANGED Hub!vars
<1>1. \A t \in Sockets : /\ spc'[t] \in Serving <=> spc[t] \in Serving
                         /\ spc'[t] \in Expecting <=> spc[t] \in Expecting
  BY DEF Goto, TypeOK, Expecting, Serving
<1>2. Served' = Served /\ Departed' = Departed
  BY <1>1 DEF Served, Departed, TypeOK
<1> QED BY <1>2, Stutters

\* A connection that ends, by the handler or by itself.
LEMMA Ends ==
  ASSUME TypeOK, ClosedInv, NEW s \in Sockets, UNCHANGED <<heard, got, since>>,
         peer' = peer \ {s},
         \/ Goto(s, "ended")
         \/ spc' = spc
  PROVE  [Hub!Next]_(Hub!vars)
<1>1. \A t \in Sockets \ {s} : spc'[t] = spc[t]
  BY DEF Goto, TypeOK
<1>2. Served' = Served \ {s}
  BY <1>1 DEF Served, TypeOK
<1>3. \A t \in Sockets \ {s} : t \in Departed' <=> t \in Departed
  BY <1>1, <1>2 DEF Departed
<1>4. s \in Departed' <=> spc'[s] \notin Expecting
  BY <1>2 DEF Departed
<1>5. Departed \subseteq Sockets /\ Departed' \subseteq Sockets
  BY DEF Departed
<1>6. CASE s \in Departed
  <2>1. spc'[s] \notin Expecting /\ s \notin Served
    BY <1>6 DEF Departed, Goto, Expecting, TypeOK
  <2>2. Served' = Served /\ Departed' = Departed
    BY <1>2, <1>3, <1>4, <1>5, <1>6, <2>1
  <2> QED BY <2>2, Stutters
<1>7. CASE s \notin Departed /\ spc'[s] \notin Expecting
  <2>1. Departed' = Departed \cup {s}
    BY <1>3, <1>4, <1>5, <1>7
  <2>2. Hub!Leave(s)
    BY <1>2, <1>7, <2>1, Departs
  <2> QED BY <2>2 DEF Hub!Next
<1>8. CASE s \notin Departed /\ spc'[s] \in Expecting
  <2>1. spc' = spc /\ s \notin Served
    BY <1>8 DEF Goto, Expecting, Serving, Served, TypeOK
  <2>2. Served' = Served /\ Departed' = Departed
    BY <1>2, <1>3, <1>4, <1>5, <1>8, <2>1
  <2> QED BY <2>2, Stutters
<1> QED BY <1>6, <1>7, <1>8

\* The handlers' steps.
LEMMA HandlersMap ==
  ASSUME TypeOK, ListInv, SkipInv, ClosedInv, NEW s \in Sockets,
         Connect(s) \/ Step(s) \/ Frame(s)
  PROVE  [Hub!Next]_(Hub!vars)
<1> USE DEF channel, history
<1>1. ASSUME Refuse(s) \/ Leave(s) PROVE [Hub!Next]_(Hub!vars)
  BY <1>1, Ends DEF Refuse, Leave
<1>2. ASSUME NEW step, Proceed(s, step),
             \/ spc[s] \in Expecting /\ step \in Expecting
             \/ spc[s] \in Serving /\ step \in Serving
      PROVE  [Hub!Next]_(Hub!vars)
  BY <1>2, GoesOn DEF Proceed
<1>3. CASE Connect(s) \/ CheckSession(s) \/ LoadUser(s)
  BY <1>1, <1>2, <1>3 DEF Connect, CheckSession, LoadUser, At, Expecting
<1>4. CASE Greet(s) \/ Reply(s) \/ Disconnected(s) \/ Frame(s)
  BY <1>1, <1>2, <1>4 DEF Greet, Reply, Tell, Disconnected, Frame, At, Serving
<1>5. CASE Create(s)
  <2>1. CASE Proceed(s, "reply")
    BY <1>2, <1>5, <2>1 DEF Create, At, Serving
  <2>2. CASE ~Proceed(s, "reply")
    <3>1. PICK step \in {"receive", "reply"} : Goto(s, step)
      BY <1>5, <2>2 DEF Create
    <3>2. spc[s] \in Serving /\ step \in Serving /\ UNCHANGED <<peer, heard, got, since>>
      BY <1>5, <2>2 DEF Create, At, Serving
    <3> QED BY <3>1, <3>2, GoesOn
  <2> QED BY <2>1, <2>2
<1>6. CASE Accept(s)
  <2>1. CASE Refuse(s)
    BY <1>1, <2>1
  <2>2. CASE ~Refuse(s)
    <3>1. /\ spc[s] = "accept" /\ spc' = [spc EXCEPT ![s] = "greet"]
          /\ since' = [since EXCEPT ![s] = Len(heard)]
          /\ UNCHANGED <<peer, heard, got>>
      BY <1>6, <2>2 DEF Accept, At, Goto
    <3>2. /\ spc'[s] = "greet" /\ spc[s] \in Expecting
          /\ \A t \in Sockets \ {s} : spc'[t] = spc[t] /\ since'[t] = since[t]
      BY <3>1 DEF TypeOK, Expecting
    <3>3. s \notin Served \cup Departed /\ Served \subseteq Sockets /\ Departed \subseteq Sockets
      BY <3>1 DEF Served, Departed, Serving, Expecting, TypeOK
    <3>4. CASE s \in peer
      <4>1. Served' = Served \cup {s} /\ Departed' = Departed
        BY <3>1, <3>2, <3>3, <3>4 DEF Served, Departed, Serving, Expecting, TypeOK
      <4>2. Hub!Join(s)
        BY <3>1, <3>3, <4>1, Joins DEF TypeOK
      <4> QED BY <4>2 DEF Hub!Next
    <3>5. CASE s \notin peer
      <4>1. Served' = Served \ {s} /\ Departed' = Departed \cup {s}
        BY <3>1, <3>2, <3>3, <3>5 DEF Served, Departed, Serving, Expecting, TypeOK
      <4>2. \A t \in Served \ {s} : since'[t] = since[t]
        BY <3>2, <3>3
      <4>3. Hub!Leave(s)
        BY <3>1, <3>3, <4>1, <4>2, Departs
      <4> QED BY <4>3 DEF Hub!Next
    <3> QED BY <3>4, <3>5
  <2> QED BY <2>1, <2>2
<1> QED BY <1>3, <1>4, <1>5, <1>6 DEF Step

\* The listener takes a message up when it has no broadcast under way: everyone
\* has got what was heard, and what waits is newer.
LEMMA TakeMaps ==
  ASSUME TypeOK, ListInv, SkipInv, OrderInv, ClosedInv, Take
  PROVE  Hub!Next
<1> DEFINE n == Head(inbox)
<1>1. /\ listener = "listen" /\ todo = {} /\ inbox # <<>>
      /\ heard' = Append(heard, n) /\ UNCHANGED <<spc, peer, got, since>>
  BY DEF Take, handlers, TypeOK
<1>2. n = inbox[1] /\ 1 \in 1 .. Len(inbox)
  BY <1>1 DEF TypeOK
<1>3. n \in 1 .. MaxMessages
  BY <1>2, FanoutAssumption DEF OrderInv, TypeOK
<1>4. \A i \in 1 .. Len(heard) : heard[i] < n
  BY <1>2 DEF OrderInv
<1>5. \A s \in Served : since[s] + Len(got[s]) = Len(heard)
  <2> SUFFICES ASSUME NEW s \in Served PROVE since[s] + Len(got[s]) = Len(heard)
    OBVIOUS
  <2>1. s \in active \cap peer /\ s \in Sockets
    BY ServedFacts
  <2>2. Len(heard) = since[s] + Len(got[s]) + 0
    BY <1>1, <2>1 DEF SkipInv, NothingSkipped
  <2>3. since[s] \in Nat /\ Len(got[s]) \in Nat
    BY <2>1 DEF TypeOK
  <2> QED BY <2>2, <2>3
<1>6. Served' = Served /\ Departed' = Departed
  BY <1>1 DEF Served, Departed
<1> HIDE DEF n
<1>7. Hub!Hear(n)
  BY <1>1, <1>4, <1>5, <1>6 DEF Hub!Hear, Hub!Connected, Hub!Place, JoinedAt
<1> QED BY <1>3, <1>7 DEF Hub!Next

\* A send to a connected client gives it the one message it is behind; another
\* send gives nothing.
LEMMA SendMaps ==
  ASSUME TypeOK, ListInv, SkipInv, ClosedInv, NEW s \in Sockets, Send(s)
  PROVE  [Hub!Next]_(Hub!vars)
<1>1. s \in todo /\ listener = "send" /\ UNCHANGED <<spc, peer, heard, since>>
  BY DEF Send, handlers, history, TypeOK
<1>2. Served' = Served /\ Departed' = Departed
  BY <1>1 DEF Served, Departed
<1>3. CASE s \notin peer
  BY <1>1, <1>2, <1>3, Stutters DEF Send
<1>4. CASE s \in peer
  <2>1. s \in Served /\ s \in active
    BY <1>1, <1>4, ServedFacts
  <2>2. Len(heard) = since[s] + Len(got[s]) + 1
    BY <1>1, <1>4, <2>1 DEF SkipInv, NothingSkipped
  <2>3. since[s] \in Nat /\ Len(got[s]) \in Nat
    BY DEF TypeOK
  <2>4. got' = [got EXCEPT ![s] = Append(@, heard[Len(heard)])]
    BY <1>4 DEF Send, Receives
  <2>5. since[s] + Len(got[s]) < Len(heard)
    BY <2>2, <2>3
  <2>6. Hub!Deliver(s)
    BY <1>1, <1>2, <2>1, <2>2, <2>4, <2>5 DEF Hub!Deliver, Hub!Connected, Hub!Place, JoinedAt
  <2> QED BY <2>6 DEF Hub!Next
<1> QED BY <1>3, <1>4

\* Every step of the process is one of a Broadcast, or none.
LEMMA StepMaps ==
  TypeOK /\ ListInv /\ SkipInv /\ OrderInv /\ ClosedInv /\ [Next]_vars => [Hub!Next]_(Hub!vars)
<1> SUFFICES ASSUME TypeOK, ListInv, SkipInv, OrderInv, ClosedInv, [Next]_vars
             PROVE  [Hub!Next]_(Hub!vars)
  OBVIOUS
<1>1. CASE UNCHANGED <<spc, peer, heard, got, since>>
  <2>1. Served' = Served /\ Departed' = Departed
    BY <1>1 DEF Served, Departed
  <2> QED BY <1>1, <2>1, Stutters
<1>2. ASSUME NEW s \in Sockets, PeerLost(s) PROVE [Hub!Next]_(Hub!vars)
  BY <1>2, Ends DEF PeerLost, history
<1>3. ASSUME NEW s \in Sockets, Revoke(s) PROVE [Hub!Next]_(Hub!vars)
  BY <1>1, <1>3 DEF Revoke, history
<1>4. CASE Subscribe \/ Unlink \/ Relink \/ EndListener \/ PublishElsewhere \/ UNCHANGED vars
  BY <1>1, <1>4 DEF Subscribe, Unlink, Relink, EndListener, PublishElsewhere, vars, handlers,
                    history
<1> QED
  BY <1>2, <1>3, <1>4, HandlersMap, TakeMaps, SendMaps DEF Next

\* Handlers, listener and broadcast together are a Broadcast: clients that join,
\* leave and fail between two awaits cost no one else a message.
THEOREM Implements == Spec => ImplementsBroadcast
<1>1. Init => Hub!Init
  <2> SUFFICES ASSUME Init PROVE Hub!Init
    OBVIOUS
  <2>1. Served = {} /\ Departed = {}
    BY DEF Init, Served, Departed, Serving, Expecting
  <2> QED BY <2>1 DEF Init, Hub!Init, JoinedAt
<1> QED
  BY <1>1, SafetyInv, StepMaps, PTL DEF Spec, ImplementsBroadcast, Hub!Spec
------------------------------------------------------------------------------
(* What a Broadcast promises *)

\* The log rises; what a connected client was given is the stretch of the log
\* between its joining and its place, and who has not joined was given nothing.
Stretches ==
  /\ \A i, j \in 1 .. Len(heard) : i < j => heard[i] < heard[j]
  /\ \A c \in Hub!Connected :
       /\ Hub!Place(c) <= Len(heard)
       /\ \A i \in 1 .. Len(got[c]) : got[c][i] = heard[JoinedAt[c] + i]
  /\ \A c \in Sockets \ (Hub!Connected \cup Departed) : got[c] = <<>>

LEMMA ElementsOf == ASSUME NEW S, NEW q \in Seq(S), NEW k \in 1 .. Len(q) PROVE q[k] \in S
  OBVIOUS

LEMMA HubTypes == Hub!Spec => []Hub!BroadcastTypeOK
<1> USE DEF Hub!BroadcastTypeOK, Hub!Connected
<1>1. Hub!Init => Hub!BroadcastTypeOK
  BY DEF Hub!Init
<1>2. Hub!BroadcastTypeOK /\ [Hub!Next]_(Hub!vars) => Hub!BroadcastTypeOK'
  <2> SUFFICES ASSUME Hub!BroadcastTypeOK, [Hub!Next]_(Hub!vars) PROVE Hub!BroadcastTypeOK'
    OBVIOUS
  <2>1. ASSUME NEW n \in 1 .. MaxMessages, Hub!Hear(n) PROVE Hub!BroadcastTypeOK'
    BY <2>1 DEF Hub!Hear
  <2>2. ASSUME NEW c \in Sockets, Hub!Join(c) PROVE Hub!BroadcastTypeOK'
    BY <2>2 DEF Hub!Join
  <2>3. ASSUME NEW c \in Sockets, Hub!Leave(c) PROVE Hub!BroadcastTypeOK'
    BY <2>3 DEF Hub!Leave
  <2>4. ASSUME NEW c \in Sockets, Hub!Deliver(c) PROVE Hub!BroadcastTypeOK'
    <3>1. JoinedAt[c] \in Nat /\ Len(got[c]) \in Nat
      BY <2>4 DEF Hub!Deliver
    <3>2. heard[Hub!Place(c) + 1] \in 1 .. MaxMessages
      <4>1. heard \in Seq(1 .. MaxMessages) /\ Len(heard) \in Nat
        OBVIOUS
      <4>2. Hub!Place(c) + 1 \in 1 .. Len(heard)
        BY <2>4, <3>1, <4>1 DEF Hub!Deliver, Hub!Place
      <4> QED BY <4>1, <4>2, ElementsOf
    <3> QED BY <2>4, <3>2 DEF Hub!Deliver
  <2>5. CASE UNCHANGED Hub!vars
    BY <2>5 DEF Hub!vars
  <2> QED BY <2>1, <2>2, <2>3, <2>4, <2>5 DEF Hub!Next
<1> QED BY <1>1, <1>2, PTL DEF Hub!Spec

\* The messages of a Broadcast go to each client in the order of their numbers.
LEMMA HubInOrder == Hub!Spec => []Hub!GivenInOrder
<1> USE DEF Hub!Connected
<1>1. Hub!Init => Stretches /\ Hub!GivenInOrder
  BY DEF Hub!Init, Stretches, Hub!GivenInOrder
<1>2. Hub!BroadcastTypeOK /\ Stretches /\ Hub!GivenInOrder /\ [Hub!Next]_(Hub!vars)
        => Stretches' /\ Hub!GivenInOrder'
  <2> SUFFICES ASSUME Hub!BroadcastTypeOK, Stretches, Hub!GivenInOrder, [Hub!Next]_(Hub!vars)
               PROVE  Stretches' /\ Hub!GivenInOrder'
    OBVIOUS
  <2>0. /\ heard \in Seq(1 .. MaxMessages) /\ got \in [Sockets -> Seq(1 .. MaxMessages)]
        /\ \A c \in DOMAIN JoinedAt : c \in Sockets /\ JoinedAt[c] \in Nat /\ Len(got[c]) \in Nat
    BY DEF Hub!BroadcastTypeOK
  <2>1. ASSUME NEW n \in 1 .. MaxMessages, Hub!Hear(n) PROVE Stretches' /\ Hub!GivenInOrder'
    <3>1. /\ Len(heard') = Len(heard) + 1 /\ Len(heard) \in Nat
          /\ heard'[Len(heard) + 1] = n
          /\ \A i \in 1 .. Len(heard) : heard'[i] = heard[i] /\ heard[i] < n
          /\ UNCHANGED <<JoinedAt, Departed, got>>
      BY <2>0, <2>1 DEF Hub!Hear
    <3>2. ASSUME NEW i \in 1 .. Len(heard'), NEW j \in 1 .. Len(heard'), i < j
          PROVE  heard'[i] < heard'[j]
      <4>1. i \in 1 .. Len(heard)
        BY <3>1, <3>2
      <4>2. j \in 1 .. Len(heard) \/ j = Len(heard) + 1
        BY <3>1
      <4> QED BY <3>1, <3>2, <4>1, <4>2 DEF Stretches
    <3>3. ASSUME NEW c \in DOMAIN JoinedAt
          PROVE  /\ Hub!Place(c) <= Len(heard) + 1
                 /\ \A i \in 1 .. Len(got[c]) : got[c][i] = heard'[JoinedAt[c] + i]
      <4>1. Hub!Place(c) <= Len(heard)
            /\ \A i \in 1 .. Len(got[c]) : got[c][i] = heard[JoinedAt[c] + i]
        BY DEF Stretches
      <4>2. \A i \in 1 .. Len(got[c]) : JoinedAt[c] + i \in 1 .. Len(heard)
        BY <2>0, <3>1, <4>1 DEF Hub!Place
      <4> QED BY <2>0, <3>1, <4>1, <4>2 DEF Hub!Place
    <3>4. Stretches'
      BY <3>1, <3>2, <3>3 DEF Stretches, Hub!Place
    <3> QED BY <3>1, <3>4 DEF Hub!GivenInOrder
  <2>2. ASSUME NEW c \in Sockets, Hub!Join(c) PROVE Stretches' /\ Hub!GivenInOrder'
    <3>1. /\ c \notin DOMAIN JoinedAt \cup Departed
          /\ UNCHANGED <<heard, Departed, got>>
          /\ DOMAIN JoinedAt' = DOMAIN JoinedAt \cup {c}
          /\ JoinedAt'[c] = Len(heard)
          /\ \A d \in DOMAIN JoinedAt : JoinedAt'[d] = JoinedAt[d]
      BY <2>2 DEF Hub!Join
    <3>2. got[c] = <<>> /\ Len(got[c]) = 0 /\ Len(heard) \in Nat
      BY <2>0, <3>1 DEF Stretches
    <3>3. JoinedAt'[c] + Len(got'[c]) <= Len(heard)
      BY <3>1, <3>2
    <3> QED BY <3>1, <3>2, <3>3 DEF Stretches, Hub!GivenInOrder, Hub!Place
  <2>3. ASSUME NEW c \in Sockets, Hub!Leave(c) PROVE Stretches' /\ Hub!GivenInOrder'
    BY <2>3 DEF Hub!Leave, Stretches, Hub!GivenInOrder, Hub!Place
  <2>4. ASSUME NEW c \in Sockets, Hub!Deliver(c) PROVE Stretches' /\ Hub!GivenInOrder'
    <3>1. /\ c \in DOMAIN JoinedAt /\ UNCHANGED <<heard, JoinedAt, Departed>>
          /\ Hub!Place(c) < Len(heard) /\ Hub!Place(c) = JoinedAt[c] + Len(got[c])
          /\ got' = [got EXCEPT ![c] = Append(@, heard[Hub!Place(c) + 1])]
      BY <2>4 DEF Hub!Deliver, Hub!Place
    <3>2. /\ Len(got'[c]) = Len(got[c]) + 1 /\ Len(got[c]) \in Nat
          /\ got'[c][Len(got[c]) + 1] = heard[JoinedAt[c] + (Len(got[c]) + 1)]
          /\ \A i \in 1 .. Len(got[c]) : got'[c][i] = got[c][i]
      BY <2>0, <3>1
    <3>3. \A d \in Sockets \ {c} : got'[d] = got[d]
      BY <2>0, <3>1
    <3>4. \A i \in 1 .. Len(got'[c]) : got'[c][i] = heard[JoinedAt[c] + i]
      <4>1. \A i \in 1 .. Len(got[c]) : got[c][i] = heard[JoinedAt[c] + i]
        BY <3>1 DEF Stretches
      <4> QED BY <3>2, <4>1
    <3>5. ASSUME NEW i \in 1 .. Len(got'[c]), NEW j \in 1 .. Len(got'[c]), i < j
          PROVE  got'[c][i] < got'[c][j]
      <4>1. /\ JoinedAt[c] + i \in 1 .. Len(heard) /\ JoinedAt[c] + j \in 1 .. Len(heard)
            /\ JoinedAt[c] + i < JoinedAt[c] + j
        BY <2>0, <3>1, <3>2, <3>5
      <4>2. heard[JoinedAt[c] + i] < heard[JoinedAt[c] + j]
        BY <4>1 DEF Stretches
      <4> QED BY <3>4, <4>2
    <3>6. Hub!GivenInOrder'
      BY <3>3, <3>5 DEF Hub!GivenInOrder
    <3>7. Stretches'
      <4>1. JoinedAt[c] + Len(got'[c]) <= Len(heard)
        BY <2>0, <3>1, <3>2
      <4>2. ASSUME NEW d \in DOMAIN JoinedAt
            PROVE  /\ JoinedAt[d] + Len(got'[d]) <= Len(heard)
                   /\ \A i \in 1 .. Len(got'[d]) : got'[d][i] = heard[JoinedAt[d] + i]
        <5>1. CASE d = c
          BY <3>4, <4>1, <5>1
        <5>2. CASE d # c
          <6>1. got'[d] = got[d]
            BY <2>0, <3>3, <5>2
          <6> QED BY <6>1 DEF Stretches, Hub!Place
        <5> QED BY <5>1, <5>2
      <4>3. \A d \in Sockets \ (DOMAIN JoinedAt \cup Departed) : got'[d] = <<>>
        BY <3>1, <3>3 DEF Stretches
      <4> QED BY <3>1, <4>2, <4>3 DEF Stretches, Hub!Place
    <3> QED BY <3>6, <3>7
  <2>5. CASE UNCHANGED Hub!vars
    BY <2>5 DEF Hub!vars, Stretches, Hub!GivenInOrder, Hub!Place
  <2> QED BY <2>1, <2>2, <2>3, <2>4, <2>5 DEF Hub!Next
<1> QED BY <1>1, <1>2, HubTypes, PTL DEF Hub!Spec

\* No client, whether it stayed or left, was ever given a message twice or an older
\* one after a newer one.
THEOREM InOrder == Spec => []Hub!GivenInOrder
  BY Implements, HubInOrder, PTL DEF ImplementsBroadcast
==============================================================================
