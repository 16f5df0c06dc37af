--------------------------- MODULE Incidents_proofs ---------------------------
(***************************************************************************)
(* What the monitor and the alerts keep between them, for any servers,     *)
(* admins, intervals, thresholds and faults.                               *)
(***************************************************************************)
EXTENDS Incidents, FiniteSetTheorems, TLAPS

Calls == ({"down", "up"} \X Server) \cup {None}
Busy == ~ A!At("idle")

\* The two records differ by the server of a call that has not started, and no
\* call is made for what the alerts know already.
SameInv ==
    /\ call \in Calls
    /\ Busy => call # None
    /\ Busy \/ call = None => incident = alerted
    /\ \A s \in Server : ~ Busy /\ call = <<"down", s>>
                            => s \notin incident /\ alerted = incident \cup {s}
    /\ \A s \in Server : ~ Busy /\ call = <<"up", s>> => alerted = incident \ {s}

LEMMA CallNone ==
    /\ \A s \in Server : <<"down", s>> \in Calls /\ <<"up", s>> \in Calls
    /\ \A s \in Server : <<"down", s>> # None /\ <<"up", s>> # None
    /\ \A s, t \in Server : <<"down", s>> # <<"up", t>>
BY IncidentsAssumption DEF Calls

\* Serving the admins leaves the records alone, and is not idle.
LEMMA CardStepBusy ==
    ASSUME card \in A!Card, A!CardStep
    PROVE  Busy /\ Busy' /\ UNCHANGED <<incident, complaint>>
<1> USE DEF A!Card, A!At, A!Goto, Busy
<1>1. ASSUME NEW a \in Admin, A!NextAdmin(a)
      PROVE  Busy /\ Busy' /\ UNCHANGED <<incident, complaint>>
  BY <1>1 DEF A!NextAdmin
<1>2. CASE A!GetStatusMessage
  BY <1>2 DEF A!GetStatusMessage
<1>3. CASE A!EditMessage
  BY <1>3 DEF A!EditMessage
<1>4. CASE A!SendCard
  BY <1>4 DEF A!SendCard
<1>5. CASE A!SaveStatusMessage
  BY <1>5 DEF A!SaveStatusMessage
<1> QED
  BY <1>1, <1>2, <1>3, <1>4, <1>5 DEF A!CardStep

LEMMA SameStep ==
    card \in A!Card /\ SameInv /\ [Next]_vars => SameInv'
<1> SUFFICES ASSUME card \in A!Card, SameInv, [Next]_vars PROVE SameInv'
  OBVIOUS
<1>1. CASE Call
  <2>1. PICK s \in Server : \/ call = <<"down", s>> /\ A!ServerDown(s)
                            \/ call = <<"up", s>> /\ A!ServerUp(s)
    BY <1>1 DEF Call
  <2>2. Busy' /\ ~ Busy
    BY <2>1 DEF A!ServerDown, A!ServerUp, A!StartUpdate, Busy, A!At
  <2>3. UNCHANGED <<call, alerted>>
    BY <1>1 DEF Call, monitorVars
  <2>4. CASE call = <<"down", s>> /\ A!ServerDown(s)
    BY <2>2, <2>3, <2>4, CallNone DEF SameInv, A!ServerDown
  <2>5. CASE call = <<"up", s>> /\ A!ServerUp(s)
    BY <2>2, <2>3, <2>5, CallNone DEF SameInv, A!ServerUp
  <2> QED
    BY <2>1, <2>4, <2>5
<1>2. CASE Return
  <2>1. Busy /\ ~ Busy' /\ call' = None /\ UNCHANGED <<incident, alerted>>
    BY <1>2 DEF Return, A!UpdateDone, A!NoCard, CallReturns, srvState, Busy, A!At
  <2> QED
    BY <2>1, CallNone DEF SameInv, Calls
<1>3. CASE StartRound /\ UNCHANGED alertVars
  BY <1>3 DEF StartRound, srvState, alertVars, SameInv, Busy, A!At
<1>4. ASSUME NEW s \in Server, CheckFails(s), UNCHANGED alertVars PROVE SameInv'
  <2>1. call = None /\ incident = alerted /\ ~ Busy /\ ~ Busy' /\ UNCHANGED incident
    BY <1>4 DEF CheckFails, Returned, SameInv, alertVars, Busy, A!At
  <2>2. \/ call' = None /\ alerted' = alerted
        \/ call' = <<"down", s>> /\ s \notin alerted /\ alerted' = alerted \cup {s}
    BY <1>4 DEF CheckFails, AlertDue
  <2> QED
    BY <2>1, <2>2, CallNone DEF SameInv, Calls
<1>5. ASSUME NEW s \in Server, CheckPasses(s), UNCHANGED alertVars PROVE SameInv'
  <2>1. call = None /\ incident = alerted /\ ~ Busy /\ ~ Busy' /\ UNCHANGED incident
    BY <1>5 DEF CheckPasses, Returned, SameInv, alertVars, Busy, A!At
  <2>2. \/ call' = None /\ alerted' = alerted
        \/ call' = <<"up", s>> /\ alerted' = alerted \ {s}
    BY <1>5 DEF CheckPasses
  <2> QED
    BY <2>1, <2>2, CallNone DEF SameInv, Calls
<1>6. CASE Elapse /\ UNCHANGED alertVars
  BY <1>6 DEF Elapse, srvState, alertVars, SameInv, Busy, A!At
<1>7. CASE A!CardStep /\ UNCHANGED monitorVars
  BY <1>7, CardStepBusy DEF SameInv, monitorVars
<1>8. CASE A!ComplaintStep /\ UNCHANGED monitorVars
  BY <1>8 DEF A!ComplaintStep, A!StartComplaint, A!SendComplaint, A!ComplaintDone,
              SameInv, monitorVars, Busy, A!At
<1>9. CASE Restart
  BY <1>9, CallNone DEF Restart, MonitorRestart, A!Restart, A!NoCard, SameInv, Busy, A!At, Calls
<1>10. ASSUME NEW s \in Server, Flap(s) PROVE SameInv'
  BY <1>10 DEF Flap, GoesDown, ComesUp, srvState, alertVars, SameInv, Busy, A!At
<1>11. CASE UNCHANGED vars
  BY <1>11 DEF vars, monitorVars, alertVars, SameInv, Busy, A!At
<1> QED
  BY <1>1, <1>2, <1>3, <1>4, <1>5, <1>6, <1>7, <1>8, <1>9, <1>10, <1>11
  DEF Next, Check, Serve, MonitorStep

-----------------------------------------------------------------------------
(* The cards                                                               *)

CardKind == {"red", "green"}

\* Message i of the chat of an admin is a card of a server.
CardIn(messages, s, a, i) ==
    /\ i \in 1..Len(messages[a])
    /\ messages[a][i].server = s /\ messages[a][i].kind \in CardKind

\* A red card is forced, so that only a green one is read, edited and, where there
\* is none, sent; what is edited or stored is a card of its server.
CardInv ==
    /\ stored \in [Server -> [Admin -> Nat]]
    /\ chat \in [Admin -> Seq(A!Post)]
    /\ card \in A!Card
    /\ complaint.server \in Server \/ complaint.todo = {}
    /\ complaint \in [server : Server \cup {None}, todo : SUBSET Admin]
    /\ Busy => card.server \in Server /\ card.text \in CardKind
               /\ (card.text = "red" => card.force)
    /\ card.at \in {"get", "edit"} => ~ card.force
    /\ card.at \in {"get", "edit", "send", "save"} => card.admin \in Admin
    /\ card.at \in {"edit", "save"} => CardIn(chat, card.server, card.admin, card.id)
    /\ \A s \in Server, a \in Admin : stored[s][a] # 0 => CardIn(chat, s, a, stored[s][a])

\* What was a card stays one: messages are added at the end of a chat.
LEMMA SentKeepsCards ==
    ASSUME chat \in [Admin -> Seq(A!Post)],
           NEW b \in Admin, NEW t \in Server, NEW k \in A!Kind, A!Sent(b, t, k)
    PROVE  /\ chat' \in [Admin -> Seq(A!Post)]
           /\ \A a \in Admin, i \in Nat : i \in 1..Len(chat[a])
                   => i \in 1..Len(chat'[a]) /\ chat'[a][i] = chat[a][i]
           /\ Len(chat[b]) + 1 \in 1..Len(chat'[b])
           /\ chat'[b][Len(chat[b]) + 1] = [server |-> t, kind |-> k]
<1> DEFINE post == [server |-> t, kind |-> k]
           new == Append(chat[b], post)
<1>1. post \in A!Post /\ chat[b] \in Seq(A!Post)
  BY DEF A!Post
<1>2. chat' = [chat EXCEPT ![b] = new]
  BY DEF A!Sent
<1>3. /\ new \in Seq(A!Post)
      /\ Len(new) = Len(chat[b]) + 1
      /\ \A i \in 1..Len(chat[b]) : new[i] = chat[b][i]
      /\ new[Len(chat[b]) + 1] = post
      /\ Len(chat[b]) \in Nat
  BY <1>1
<1> HIDE DEF post, new
<1>4. chat' \in [Admin -> Seq(A!Post)]
  BY <1>2, <1>3
<1>5. chat'[b] = new /\ \A a \in Admin \ {b} : chat'[a] = chat[a]
  BY <1>2
<1>6. ASSUME NEW a \in Admin, NEW i \in Nat, i \in 1..Len(chat[a])
      PROVE  i \in 1..Len(chat'[a]) /\ chat'[a][i] = chat[a][i]
  <2>1. CASE a = b
    BY <1>3, <1>5, <1>6, <2>1
  <2>2. CASE a # b
    BY <1>5, <1>6, <2>2
  <2> QED
    BY <2>1, <2>2
<1>7. Len(chat[b]) + 1 \in 1..Len(new)
  BY <1>3
<1> QED
  BY <1>3, <1>4, <1>5, <1>6, <1>7 DEF post

LEMMA CardsStay ==
    ASSUME \A a \in Admin, i \in Nat : i \in 1..Len(chat[a])
                => i \in 1..Len(chat'[a]) /\ chat'[a][i] = chat[a][i],
           NEW s \in Server, NEW a \in Admin, NEW i \in Nat, CardIn(chat, s, a, i)
    PROVE  CardIn(chat', s, a, i)
BY DEF CardIn

\* A step of updateCards changes the stage and the message, and nothing else.
LEMMA CardStages ==
    ASSUME card \in A!Card, NEW id \in Nat,
           NEW at \in {"idle", "next", "get", "edit", "send", "save"},
           \/ card' = [card EXCEPT !.at = at, !.id = id]
           \/ card' = [card EXCEPT !.at = at] /\ id = card.id
    PROVE  /\ card' \in A!Card
           /\ card'.at = at /\ card'.id = id
           /\ card'.server = card.server /\ card'.text = card.text
           /\ card'.force = card.force /\ card'.admin = card.admin
           /\ card'.todo = card.todo
<1>1. CASE card' = [card EXCEPT !.at = at]
  BY <1>1 DEF A!Card
<1>2. CASE card' = [card EXCEPT !.at = at, !.id = id]
  BY <1>2 DEF A!Card
<1> QED
  BY <1>1, <1>2

LEMMA CardInvStep == CardInv /\ SameInv /\ [Next]_vars => CardInv'
<1> SUFFICES ASSUME CardInv, SameInv, [Next]_vars PROVE CardInv'
  OBVIOUS
<1> USE DEF A!At, Busy
<1>1. CASE UNCHANGED alertVars
  BY <1>1 DEF alertVars, CardInv, CardIn
<1>2. CASE Call
  <2>1. PICK s \in Server : \/ call = <<"down", s>> /\ A!ServerDown(s)
                            \/ call = <<"up", s>> /\ A!ServerUp(s)
    BY <1>2 DEF Call
  <2>2. s \notin incident \/ A!ServerUp(s)
    BY <2>1 DEF SameInv, A!ServerDown
  <2>3. \E text \in CardKind, force \in BOOLEAN :
           /\ card' = [at |-> "next", server |-> s, text |-> text, force |-> force,
                       todo |-> Admin, admin |-> None, id |-> 0]
           /\ text = "red" => force = TRUE
    BY <2>1, <2>2 DEF A!ServerDown, A!ServerUp, A!StartUpdate, CardKind
  <2>4. UNCHANGED <<stored, chat, complaint>>
    BY <2>1 DEF A!ServerDown, A!ServerUp
  <2>5. /\ card' \in A!Card /\ card'.at = "next" /\ card'.server \in Server
        /\ card'.text \in CardKind /\ (card'.text = "red" => card'.force)
    BY <2>3 DEF A!Card, A!Kind, CardKind
  <2> QED
    BY <2>4, <2>5 DEF CardInv
<1>3. CASE card' = A!NoCard /\ UNCHANGED <<stored, chat>>
            /\ (UNCHANGED complaint \/ complaint' = A!NoComplaint)
  BY <1>3 DEF A!NoCard, A!NoComplaint, CardInv, A!Card, A!Kind, CardIn
<1>4. ASSUME NEW a \in Admin, A!NextAdmin(a) PROVE CardInv'
  BY <1>4 DEF A!NextAdmin, CardInv, A!Card, CardIn
<1>5. CASE A!GetStatusMessage
  <2>1. stored[card.server][card.admin] \in Nat
    BY <1>5 DEF A!GetStatusMessage, CardInv
  <2> DEFINE id == stored[card.server][card.admin]
  <2>2. /\ card \in A!Card /\ card.id \in Nat /\ card.at = "get" /\ ~ card.force
        /\ card.admin \in Admin /\ card.server \in Server /\ card.text \in CardKind
        /\ UNCHANGED <<stored, chat, complaint>>
    BY <1>5 DEF A!GetStatusMessage, CardInv, A!Card
  <2>3. CASE card' = [card EXCEPT !.at = "edit", !.id = id] /\ id # 0
    <3>1. CardIn(chat, card.server, card.admin, id)
      BY <2>2, <2>3 DEF CardInv
    <3>2. /\ card' \in A!Card /\ card'.at = "edit" /\ card'.id = id
          /\ card'.server = card.server /\ card'.text = card.text
          /\ card'.force = card.force /\ card'.admin = card.admin
      BY <2>1, <2>2, <2>3, CardStages
    <3> HIDE DEF id
    <3> QED
      BY <2>2, <3>1, <3>2 DEF CardInv
  <2>4. CASE card' = [card EXCEPT !.at = "send"]
    <3>1. /\ card' \in A!Card /\ card'.at = "send"
          /\ card'.server = card.server /\ card'.text = card.text
          /\ card'.force = card.force /\ card'.admin = card.admin
      BY <2>2, <2>4, CardStages
    <3> QED
      BY <2>2, <3>1 DEF CardInv
  <2> QED
    BY <1>5, <2>3, <2>4 DEF A!GetStatusMessage, A!Goto
<1>6. CASE A!EditMessage
  <2>1. /\ card.at = "edit" /\ card.admin \in Admin /\ card.server \in Server
        /\ card.text \in CardKind /\ card.id \in Nat /\ ~ card.force
        /\ CardIn(chat, card.server, card.admin, card.id)
    BY <1>6 DEF A!EditMessage, CardInv, A!Card
  <2>2. card' \in {[card EXCEPT !.at = "next"], [card EXCEPT !.at = "send"]}
        /\ UNCHANGED <<stored, complaint>>
    BY <1>6 DEF A!EditMessage, A!Goto
  <2>3. /\ card' \in A!Card /\ card'.at \in {"next", "send"}
        /\ card'.server = card.server /\ card'.text = card.text
        /\ card'.force = card.force /\ card'.admin = card.admin
    BY <2>1, <2>2, CardStages DEF CardInv
  <2>4. CASE UNCHANGED chat
    BY <2>1, <2>2, <2>3, <2>4 DEF CardInv
  <2>5. CASE chat' = [chat EXCEPT ![card.admin][card.id].kind = card.text]
    <3> DEFINE b == card.admin
               post == [chat[b][card.id] EXCEPT !.kind = card.text]
               new == [chat[b] EXCEPT ![card.id] = post]
    <3>1. chat[b] \in Seq(A!Post) /\ chat[b][card.id] \in A!Post
      BY <2>1 DEF CardInv, CardIn
    <3>2. post \in A!Post /\ post.server = card.server /\ post.kind = card.text
      BY <2>1, <3>1 DEF A!Post, A!Kind, CardKind, CardIn
    <3>3. chat' = [chat EXCEPT ![b] = new]
      BY <2>5
    <3> HIDE DEF post
    <3>4. /\ new \in Seq(A!Post) /\ Len(new) = Len(chat[b])
          /\ \A i \in 1..Len(chat[b]) : new[i] = IF i = card.id THEN post ELSE chat[b][i]
      BY <2>1, <3>1, <3>2 DEF CardIn
    <3> HIDE DEF new
    <3>5. chat' \in [Admin -> Seq(A!Post)]
      BY <2>1, <3>3, <3>4 DEF CardInv
    <3>6. chat'[b] = new /\ \A a \in Admin \ {b} : chat'[a] = chat[a]
      BY <2>1, <3>3 DEF CardInv
    <3>7. ASSUME NEW s \in Server, NEW a \in Admin, NEW i \in Nat, CardIn(chat, s, a, i)
          PROVE  CardIn(chat', s, a, i)
      <4>1. CASE a # b
        BY <3>6, <3>7, <4>1 DEF CardIn
      <4>2. CASE a = b
        BY <2>1, <3>2, <3>4, <3>6, <3>7, <4>2 DEF CardIn
      <4> QED
        BY <4>1, <4>2
    <3>8. \A s \in Server, a \in Admin : stored'[s][a] # 0 => CardIn(chat', s, a, stored'[s][a])
      BY <2>2, <3>7 DEF CardInv
    <3> QED
      BY <2>1, <2>2, <2>3, <3>5, <3>8 DEF CardInv
  <2> QED
    BY <1>6, <2>4, <2>5 DEF A!EditMessage
<1>7. CASE A!SendCard
  <2>1. /\ card.at = "send" /\ card.admin \in Admin /\ card.server \in Server
        /\ card.text \in A!Kind /\ card.text \in CardKind
    BY <1>7 DEF A!SendCard, CardInv, CardKind, A!Kind
  <2>2. UNCHANGED <<stored, complaint>>
    BY <1>7 DEF A!SendCard
  <2>3. CASE UNCHANGED chat /\ card' = [card EXCEPT !.at = "next"]
    BY <2>1, <2>2, <2>3 DEF CardInv, A!Card, CardIn
  <2>4. CASE A!Sent(card.admin, card.server, card.text)
    <3> DEFINE n == Len(chat[card.admin]) + 1
    <3>1. chat[card.admin] \in Seq(A!Post)
      BY <2>1 DEF CardInv
    <3>2. n \in Nat
      BY <3>1
    <3>3. /\ chat' \in [Admin -> Seq(A!Post)]
          /\ \A a \in Admin, i \in Nat : i \in 1..Len(chat[a])
                   => i \in 1..Len(chat'[a]) /\ chat'[a][i] = chat[a][i]
          /\ n \in 1..Len(chat'[card.admin])
          /\ chat'[card.admin][n] = [server |-> card.server, kind |-> card.text]
      BY <2>1, <2>4, SentKeepsCards DEF CardInv
    <3>4. \A s \in Server, a \in Admin : stored'[s][a] # 0 => CardIn(chat', s, a, stored'[s][a])
      BY <2>2, <3>3 DEF CardInv, CardIn
    <3>5. card' \in {[card EXCEPT !.at = "next"], [card EXCEPT !.at = "save", !.id = n]}
      BY <1>7 DEF A!SendCard, A!Goto
    <3> HIDE DEF n
    <3>6. CardIn(chat', card.server, card.admin, n)
      BY <2>1, <3>3, <3>5 DEF CardIn, CardInv, A!Card
    <3>7. CASE card' = [card EXCEPT !.at = "next"]
      BY <2>1, <2>2, <3>3, <3>4, <3>7 DEF CardInv, A!Card
    <3>8. CASE card' = [card EXCEPT !.at = "save", !.id = n]
      BY <2>1, <2>2, <3>2, <3>3, <3>4, <3>6, <3>8 DEF CardInv, A!Card
    <3> QED
      BY <3>5, <3>7, <3>8
  <2> QED
    BY <1>7, <2>3, <2>4 DEF A!SendCard, A!SendFails, A!Goto
<1>8. CASE A!SaveStatusMessage
  <2>1. /\ card.at = "save" /\ card.admin \in Admin /\ card.server \in Server
        /\ card.id \in Nat /\ CardIn(chat, card.server, card.admin, card.id)
    BY <1>8 DEF A!SaveStatusMessage, CardInv, A!Card
  <2>2. card' = [card EXCEPT !.at = "next"] /\ UNCHANGED <<chat, complaint>>
    BY <1>8 DEF A!SaveStatusMessage, A!Goto
  <2>3. CASE UNCHANGED stored
    BY <2>1, <2>2, <2>3 DEF CardInv, A!Card, CardIn
  <2>4. CASE stored' = [stored EXCEPT ![card.server][card.admin] = card.id]
    <3>1. /\ stored' \in [Server -> [Admin -> Nat]]
          /\ \A s \in Server, a \in Admin :
                stored'[s][a] = IF s = card.server /\ a = card.admin THEN card.id
                                ELSE stored[s][a]
      BY <2>1, <2>4 DEF CardInv
    <3>2. \A s \in Server, a \in Admin : stored'[s][a] # 0 => CardIn(chat', s, a, stored'[s][a])
      BY <2>1, <2>2, <3>1 DEF CardInv
    <3> QED
      BY <2>1, <2>2, <3>1, <3>2 DEF CardInv, A!Card
  <2> QED
    BY <1>8, <2>3, <2>4 DEF A!SaveStatusMessage
<1>9. ASSUME NEW s \in Server, A!StartComplaint(s) PROVE CardInv'
  BY <1>9 DEF A!StartComplaint, CardInv, CardIn
<1>10. ASSUME NEW a \in Admin, A!SendComplaint(a) PROVE CardInv'
  <2>1. complaint.server \in Server /\ "complaint" \in A!Kind /\ card \in A!Card
    BY <1>10 DEF A!SendComplaint, CardInv, A!Kind
  <2>2. /\ complaint' = [complaint EXCEPT !.todo = complaint.todo \ {a}]
        /\ UNCHANGED <<stored, card>>
    BY <1>10 DEF A!SendComplaint
  <2>3. CASE UNCHANGED chat
    BY <2>1, <2>2, <2>3 DEF CardInv, CardIn
  <2>4. CASE A!Sent(a, complaint.server, "complaint")
    <3>1. /\ chat' \in [Admin -> Seq(A!Post)]
          /\ \A b \in Admin, i \in Nat : i \in 1..Len(chat[b])
                   => i \in 1..Len(chat'[b]) /\ chat'[b][i] = chat[b][i]
      BY <2>1, <2>4, SentKeepsCards DEF CardInv
    <3>2. \A s \in Server, b \in Admin, i \in Nat : CardIn(chat, s, b, i) => CardIn(chat', s, b, i)
      BY <3>1, CardsStay
    <3>3. card.id \in Nat
      BY <2>1 DEF A!Card
    <3>4. /\ \A s \in Server, b \in Admin : stored'[s][b] # 0 => CardIn(chat', s, b, stored'[s][b])
          /\ card.at \in {"edit", "save"} => CardIn(chat', card.server, card.admin, card.id)
      BY <2>2, <3>2, <3>3 DEF CardInv
    <3> QED
      BY <2>1, <2>2, <3>1, <3>4 DEF CardInv
  <2> QED
    BY <1>10, <2>3, <2>4 DEF A!SendComplaint, A!SendFails
<1>11. CASE A!ComplaintDone
  BY <1>11 DEF A!ComplaintDone, A!NoComplaint, CardInv, CardIn
<1> QED
  BY <1>1, <1>2, <1>3, <1>4, <1>5, <1>6, <1>7, <1>8, <1>9, <1>10, <1>11
  DEF Next, Return, A!UpdateDone, Check, Serve, A!CardStep, A!ComplaintStep, Restart,
      A!Restart, Flap, vars
-----------------------------------------------------------------------------
IInv == SameInv /\ CardInv

\* Both records, and every card, are as they should be from the start.
LEMMA IInvAlways == Spec => []IInv
<1>1. Init => IInv
  <2> SUFFICES ASSUME Init PROVE IInv
    OBVIOUS
  <2>1. SameInv
    BY CallNone DEF Init, MonitorInit, A!Init, A!NoCard, SameInv, Busy, A!At, Calls
  <2>2. /\ stored = [s \in Server |-> [a \in Admin |-> 0]]
        /\ chat = [a \in Admin |-> <<>>]
        /\ card = A!NoCard /\ complaint = A!NoComplaint
    BY DEF Init, A!Init
  <2>3. card \in A!Card /\ card.at = "idle"
    BY <2>2 DEF A!NoCard, A!Card, A!Kind
  <2>4. CardInv
    BY <2>2, <2>3 DEF CardInv, A!NoComplaint, Busy, A!At
  <2> QED
    BY <2>1, <2>4 DEF IInv
<1>2. IInv /\ [Next]_vars => IInv'
  BY SameStep, CardInvStep DEF IInv, CardInv
<1> QED
  BY <1>1, <1>2, PTL DEF Spec

\* Between two calls the monitor and the alerts agree on the servers that are an
\* incident, whatever fails and whenever the bot restarts: SameIncidents.
THEOREM SameIncidentsHold == Spec => []SameIncidents
<1>1. IInv => SameIncidents
  BY DEF IInv, SameInv, SameIncidents, Quiet
<1> QED
  BY <1>1, IInvAlways, PTL

\* The message stored for a server and an admin is a card of that server in the
\* chat of that admin, whatever is sent meanwhile: StoredIsCard.
THEOREM StoredMessageIsCard == Spec => []StoredIsCard
<1>1. ASSUME IInv PROVE StoredIsCard
  <2> SUFFICES ASSUME NEW s \in Server, NEW a \in Admin, stored[s][a] # 0
               PROVE  stored[s][a] \in A!CardsOf(s, a)
    BY DEF StoredIsCard, A!StoredIsCard
  <2>1. CardIn(chat, s, a, stored[s][a])
    BY <1>1 DEF IInv, CardInv
  <2> QED
    BY <2>1 DEF CardIn, CardKind, A!CardsOf
<1> QED
  BY <1>1, IInvAlways, PTL

\* A message changes only from a red card to the green one of the same server:
\* the step that edits it has text "green", for a red card is forced (RedIsNew).
THEOREM RedCardsAreNew == Spec => RedIsNew
<1> DEFINE Edit == \A a \in Admin, i \in 1..MaxPosts :
                      i <= Len(chat[a]) /\ chat'[a][i] # chat[a][i]
                         => /\ chat'[a][i].server = chat[a][i].server
                            /\ chat[a][i].kind = "red" /\ chat'[a][i].kind = "green"
           Keeps == \A a \in Admin, i \in Nat : i \in 1..Len(chat[a])
                       => i \in 1..Len(chat'[a]) /\ chat'[a][i] = chat[a][i]
<1>1. CardInv /\ [Next]_vars => Edit
  <2> SUFFICES ASSUME CardInv, [Next]_vars PROVE Edit
    OBVIOUS
  <2>1. CASE UNCHANGED chat
    BY <2>1
  <2>2. CASE A!EditMessage
    <3>1. /\ card.admin \in Admin /\ card.text = "green"
          /\ card.id \in 1..Len(chat[card.admin])
          /\ chat[card.admin][card.id].kind \in CardKind
      BY <2>2 DEF A!EditMessage, A!At, CardInv, CardIn, CardKind, Busy
    <3>2. CASE chat' = [chat EXCEPT ![card.admin][card.id].kind = card.text]
            /\ chat[card.admin][card.id].kind # card.text
      <4>1. chat[card.admin][card.id] \in A!Post /\ chat \in [Admin -> Seq(A!Post)]
        BY <3>1 DEF CardInv
      <4> DEFINE post == [chat[card.admin][card.id] EXCEPT !.kind = "green"]
      <4>2. post.server = chat[card.admin][card.id].server /\ post.kind = "green"
        BY <4>1 DEF A!Post
      <4>3. \A a \in Admin : \A i \in 1..Len(chat[a]) :
              chat'[a][i] = IF a = card.admin /\ i = card.id THEN post ELSE chat[a][i]
        BY <3>1, <3>2, <4>1
      <4>4. \A a \in Admin : Len(chat[a]) \in Nat
        BY <4>1
      <4> HIDE DEF post
      <4> QED
        BY <3>1, <3>2, <4>2, <4>3, <4>4 DEF CardKind
    <3> QED
      BY <2>1, <2>2, <3>2 DEF A!EditMessage
  <2>3. ASSUME NEW b \in Admin, NEW t \in Server, NEW k \in A!Kind, A!Sent(b, t, k)
        PROVE  Edit
    <3>1. chat \in [Admin -> Seq(A!Post)]
      BY DEF CardInv
    <3>2. Keeps
      BY <2>3, <3>1, SentKeepsCards
    <3>3. \A a \in Admin : Len(chat[a]) \in Nat
      BY <3>1
    <3> QED
      BY <3>2, <3>3
  <2>4. CASE A!SendCard
    <3>1. card.admin \in Admin /\ card.server \in Server /\ card.text \in A!Kind
      BY <2>4 DEF A!SendCard, A!At, CardInv, CardKind, A!Kind, Busy
    <3> QED
      BY <2>1, <2>3, <2>4, <3>1 DEF A!SendCard, A!SendFails
  <2>5. ASSUME NEW a \in Admin, A!SendComplaint(a) PROVE Edit
    <3>1. complaint.server \in Server /\ "complaint" \in A!Kind
      BY <2>5 DEF A!SendComplaint, CardInv, A!Kind
    <3> QED
      BY <2>1, <2>3, <2>5, <3>1 DEF A!SendComplaint, A!SendFails
  <2> QED
    BY <2>1, <2>2, <2>4, <2>5
    DEF Next, Call, Return, Check, Serve, Flap, Restart, vars, alertVars, A!ServerDown,
        A!ServerUp, A!UpdateDone, A!CardStep, A!NextAdmin, A!GetStatusMessage,
        A!SaveStatusMessage, A!ComplaintStep, A!StartComplaint, A!ComplaintDone, A!Restart
<1>2. IInv /\ [Next]_vars => [Edit]_vars
  BY <1>1 DEF IInv
<1> QED
  BY <1>2, IInvAlways, PTL DEF RedIsNew, Spec

-----------------------------------------------------------------------------
(* The clock                                                                 *)

Logs == Seq([at : Time, ok : BOOLEAN])

MonitorTypes ==
    /\ clock \in Nat \ {0} /\ clock <= MaxTime
    /\ reach \subseteq Server /\ alerted \subseteq Server /\ todo \subseteq Server
    /\ downSince \in [Server -> 0..clock] /\ upSince \in [Server -> 0..clock]
    /\ lastCheck \in [Server -> 0..clock] /\ outage \in [Server -> 0..clock]
    /\ tick \in Nat
    /\ restarts \in 0..MaxRestarts
    /\ log \in [Server -> Logs]
    /\ outages \in [Server -> 0..MaxOutages]

\* To the monitor every step is one of its own, or none.
LEMMA MonitorMoves ==
    ASSUME [Next]_vars
    PROVE  \/ StartRound /\ UNCHANGED outages
           \/ \E s \in Server : (CheckFails(s) \/ CheckPasses(s)) /\ UNCHANGED outages
           \/ CallReturns /\ UNCHANGED outages
           \/ Elapse /\ UNCHANGED outages
           \/ \E s \in Server : Flap(s)
           \/ MonitorRestart /\ UNCHANGED outages
           \/ UNCHANGED <<monitorVars, outages>>
BY DEF Next, Call, Return, Check, Serve, Restart, MonitorStep, vars

LEMMA CheckLogged ==
    ASSUME MonitorTypes, NEW s \in Server, Logged(s)
    PROVE  log' \in [Server -> Logs]
<1> DEFINE ok == s \in reach
           check == [at |-> clock, ok |-> ok]
           Checks == [at : Time, ok : BOOLEAN]
<1>1. clock \in Time /\ ok \in BOOLEAN
  BY DEF MonitorTypes, Time
<1>2. check \in Checks
  <2> HIDE DEF ok
  <2> QED
    BY <1>1
<1>3. log' = [log EXCEPT ![s] = Append(log[s], check)]
  BY DEF Logged
<1>4. log[s] \in Seq(Checks)
  BY DEF MonitorTypes, Logs
<1> HIDE DEF check, Checks
<1>5. Append(log[s], check) \in Seq(Checks)
  BY <1>2, <1>4
<1> QED
  BY <1>3, <1>5 DEF MonitorTypes, Logs, Checks

LEMMA MonitorTypesStep == MonitorTypes /\ [Next]_vars => MonitorTypes'
<1> SUFFICES ASSUME MonitorTypes, [Next]_vars PROVE MonitorTypes'
  OBVIOUS
<1>1. clock \in Nat \ {0} /\ clock <= MaxTime /\ MaxTime \in Nat /\ tick \in Nat
      /\ Interval \in Nat \ {0}
  BY MonitorAssumption DEF MonitorTypes
<1>2. CASE StartRound /\ UNCHANGED outages
  <2> DEFINE missed == (clock - tick) \div Interval
  <2>1. missed \in Nat
    <3>1. clock - tick \in Nat
      BY <1>1, <1>2 DEF StartRound
    <3> QED
      BY <1>1, <3>1
  <2>2. tick' = tick + Interval * (missed + 1)
        /\ UNCHANGED <<clock, reach, downSince, upSince, lastCheck, alerted, outage,
                       log, restarts, outages>> /\ todo' = Server
    BY <1>2 DEF StartRound, srvState
  <2> HIDE DEF missed
  <2>3. Interval * (missed + 1) \in Nat
    BY <1>1, <2>1
  <2>4. tick' \in Nat
    BY <1>1, <2>2, <2>3
  <2> QED
    BY <2>2, <2>4 DEF MonitorTypes
<1>3. ASSUME NEW s \in Server, CheckFails(s) \/ CheckPasses(s), UNCHANGED outages
      PROVE  MonitorTypes'
  <2>1. log' \in [Server -> Logs]
    BY <1>3, CheckLogged DEF CheckFails, CheckPasses
  <2>2. /\ clock' = clock /\ todo' = todo \ {s}
        /\ lastCheck' = [lastCheck EXCEPT ![s] = clock]
        /\ alerted' \in {alerted, alerted \cup {s}, alerted \ {s}}
        /\ UNCHANGED <<reach, tick, outage, restarts, outages>>
    BY <1>3 DEF CheckFails, CheckPasses
  <2>3. \E d, u \in {0, clock, downSince[s], upSince[s]} :
           /\ downSince' = [downSince EXCEPT ![s] = d]
           /\ upSince' = [upSince EXCEPT ![s] = u]
    BY <1>3 DEF CheckFails, CheckPasses, FailingSince
  <2>4. downSince' \in [Server -> 0..clock] /\ upSince' \in [Server -> 0..clock]
    BY <1>1, <2>3 DEF MonitorTypes
  <2>5. lastCheck' \in [Server -> 0..clock] /\ alerted' \subseteq Server
        /\ todo' \subseteq Server
    BY <1>1, <2>2 DEF MonitorTypes
  <2> QED
    BY <2>1, <2>2, <2>4, <2>5 DEF MonitorTypes
<1>4. CASE CallReturns /\ UNCHANGED outages
  BY <1>4 DEF CallReturns, srvState, MonitorTypes
<1>5. CASE Elapse /\ UNCHANGED outages
  <2>1. clock' = clock + 1 /\ clock < MaxTime
        /\ UNCHANGED <<reach, downSince, upSince, lastCheck, alerted, todo, tick, call,
                       outage, log, restarts, outages>>
    BY <1>5 DEF Elapse, srvState
  <2>2. \A f \in [Server -> 0..clock] : f \in [Server -> 0..clock']
    BY <1>1, <2>1
  <2> QED
    BY <1>1, <2>1, <2>2 DEF MonitorTypes
<1>6. ASSUME NEW s \in Server, Flap(s) PROVE MonitorTypes'
  <2>1. /\ UNCHANGED <<clock, downSince, upSince, lastCheck, alerted, todo, tick, log,
                       restarts>>
        /\ reach' \in {reach \ {s}, reach \cup {s}}
        /\ outage' \in {[outage EXCEPT ![s] = clock], [outage EXCEPT ![s] = 0]}
    BY <1>6 DEF Flap, GoesDown, ComesUp, srvState
  <2>2. outages' \in [Server -> 0..MaxOutages]
    BY <1>6, IncidentsAssumption DEF Flap, MonitorTypes
  <2> QED
    BY <1>1, <2>1, <2>2 DEF MonitorTypes
<1>7. CASE MonitorRestart /\ UNCHANGED outages
  <2>1. log' \in [Server -> Logs]
    BY <1>7 DEF MonitorRestart, Logs
  <2>2. restarts' \in 0..MaxRestarts
    BY <1>7, MonitorAssumption DEF MonitorRestart, MonitorTypes
  <2> QED
    BY <1>1, <1>7, <2>1, <2>2 DEF MonitorRestart, Never, MonitorTypes
<1>8. CASE UNCHANGED <<monitorVars, outages>>
  BY <1>8 DEF monitorVars, MonitorTypes
<1> QED
  BY <1>2, <1>3, <1>4, <1>5, <1>6, <1>7, <1>8, MonitorMoves

-----------------------------------------------------------------------------
(* Alerts in time                                                            *)

\* When the last round started, and when a server was checked last, or would have
\* been had the process run.
Round == tick - Interval
CheckedAt(s) == IF s \in todo THEN Round - Interval ELSE Round

\* A run of failures is alerted at the check that makes it as long as the
\* threshold, and starts at the first check of an outage or before it.
Timely(s) ==
    /\ outage[s] # 0 => s \notin reach
    /\ downSince[s] # 0 =>
          \E k \in Nat : /\ CheckedAt(s) = downSince[s] + k * Interval
                         /\ k * Interval >= Threshold => s \in alerted
    /\ outage[s] # 0 /\ outage[s] < CheckedAt(s)
          => downSince[s] # 0 /\ downSince[s] <= outage[s] + Interval

\* While checks are fast a round and its calls are over at the time of its tick.
TimeInv ==
    /\ clock <= tick /\ Round <= clock
    /\ todo # {} \/ call # None => clock = Round
    /\ \A s \in Server : Timely(s)

\* What does not touch the record of a server, its outage or its last check keeps it.
LEMMA TimelyStays ==
    ASSUME NEW s \in Server, Timely(s),
           UNCHANGED <<outage[s], downSince[s], CheckedAt(s)>>,
           s \in alerted <=> s \in alerted', s \in reach <=> s \in reach'
    PROVE  Timely(s)'
BY DEF Timely

LEMMA TimeStep ==
    ASSUME SlowChecks = FALSE
    PROVE  MonitorTypes /\ TimeInv /\ [Next]_vars => TimeInv'
<1> SUFFICES ASSUME MonitorTypes, TimeInv, [Next]_vars PROVE TimeInv'
  OBVIOUS
<1>1. /\ clock \in Nat \ {0} /\ tick \in Nat /\ Interval \in Nat \ {0} /\ Threshold \in Nat
      /\ clock <= tick /\ Round <= clock
      /\ todo # {} \/ call # None => clock = Round
  BY MonitorAssumption DEF MonitorTypes, TimeInv
<1>2. \A s \in Server : outage[s] \in 0..clock /\ downSince[s] \in 0..clock /\ Timely(s)
  BY DEF MonitorTypes, TimeInv
<1>3. CASE StartRound
  <2>1. /\ clock = tick /\ todo = {} /\ todo' = Server /\ call = None
        /\ UNCHANGED <<clock, reach, downSince, alerted, call, outage>>
    BY <1>1, <1>3 DEF StartRound, Returned, srvState
  <2>2. tick' = tick + Interval
    <3>1. tick' = tick + Interval * ((clock - tick) \div Interval + 1)
      BY <1>3 DEF StartRound
    <3>2. (clock - tick) \div Interval = 0
      BY <1>1, <2>1
    <3> QED
      BY <1>1, <3>1, <3>2
  <2>3. ASSUME NEW s \in Server PROVE Timely(s)'
    <3>1. CheckedAt(s)' = CheckedAt(s)
      BY <1>1, <2>1, <2>2 DEF CheckedAt, Round
    <3> QED
      BY <1>2, <2>1, <3>1, TimelyStays
  <2> QED
    BY <1>1, <2>1, <2>2, <2>3 DEF TimeInv, Round
<1>4. ASSUME NEW s \in Server, CheckFails(s) \/ CheckPasses(s)
      PROVE  TimeInv'
  <2>1. /\ clock = Round /\ todo' = todo \ {s} /\ s \in todo
        /\ UNCHANGED <<clock, reach, tick, outage>>
    BY <1>1, <1>4 DEF CheckFails, CheckPasses
  <2>2. CheckedAt(s) = clock - Interval /\ CheckedAt(s)' = clock
    BY <2>1 DEF CheckedAt, Round
  <2>3. ASSUME NEW t \in Server \ {s} PROVE Timely(t)'
    <3>1. CheckedAt(t)' = CheckedAt(t)
      BY <2>1 DEF CheckedAt, Round
    <3>2. downSince'[t] = downSince[t] /\ (t \in alerted <=> t \in alerted')
      BY <1>4 DEF CheckFails, CheckPasses, MonitorTypes
    <3> QED
      BY <1>2, <2>1, <3>1, <3>2, TimelyStays
  <2>4. CASE CheckPasses(s)
    <3>1. s \in reach /\ downSince'[s] = 0
      BY <2>4 DEF CheckPasses, MonitorTypes
    <3>2. Timely(s)'
      BY <1>2, <2>1, <3>1 DEF Timely
    <3> QED
      BY <1>1, <2>1, <2>3, <3>2 DEF TimeInv, Round
  <2>5. CASE CheckFails(s)
    <3>1. /\ s \notin reach
          /\ downSince'[s] = IF downSince[s] = 0 THEN clock ELSE downSince[s]
          /\ s \in alerted' <=> s \in alerted \/ clock - downSince'[s] >= Threshold
      BY <2>5 DEF CheckFails, FailingSince, AlertDue, MonitorTypes
    <3>2. \E k \in Nat : clock = downSince'[s] + k * Interval
      <4>1. CASE downSince[s] = 0
        <5>1. clock = downSince'[s] + 0 * Interval
          BY <1>1, <3>1, <4>1
        <5> QED
          BY <5>1
      <4>2. CASE downSince[s] # 0
        <5>1. PICK k \in Nat : clock - Interval = downSince[s] + k * Interval
          BY <1>2, <2>2, <4>2 DEF Timely
        <5>2. (k + 1) * Interval = k * Interval + Interval /\ k * Interval \in Nat
          BY <1>1
        <5>3. clock = downSince'[s] + (k + 1) * Interval
          BY <1>1, <1>2, <3>1, <4>2, <5>1, <5>2
        <5> QED
          BY <5>3
      <4> QED
        BY <4>1, <4>2
    <3>3. outage[s] # 0 /\ outage[s] < clock
             => downSince'[s] # 0 /\ downSince'[s] <= outage[s] + Interval
      <4> SUFFICES ASSUME outage[s] # 0, outage[s] < clock
                   PROVE  downSince'[s] # 0 /\ downSince'[s] <= outage[s] + Interval
        OBVIOUS
      <4>1. CASE downSince[s] = 0
        BY <1>1, <1>2, <2>2, <3>1, <4>1 DEF Timely
      <4>2. CASE downSince[s] # 0
        <5>1. PICK k \in Nat : clock - Interval = downSince[s] + k * Interval
          BY <1>2, <2>2, <4>2 DEF Timely
        <5>2. k * Interval \in Nat
          BY <1>1
        <5>3. downSince[s] <= clock - Interval
          BY <1>1, <1>2, <5>1, <5>2
        <5> QED
          BY <1>1, <1>2, <2>2, <3>1, <4>2, <5>3 DEF Timely
      <4> QED
        BY <4>1, <4>2
    <3>4. Timely(s)'
      <4>1. PICK k \in Nat : clock = downSince'[s] + k * Interval
        BY <3>2
      <4>2. downSince'[s] \in Nat /\ k * Interval \in Nat
        BY <1>1, <1>2, <3>1
      <4>3. k * Interval >= Threshold => s \in alerted'
        BY <1>1, <3>1, <4>1, <4>2
      <4> QED
        BY <1>2, <2>1, <2>2, <3>1, <3>3, <4>1, <4>3 DEF Timely
    <3> QED
      BY <1>1, <2>1, <2>3, <3>4 DEF TimeInv, Round
  <2> QED
    BY <1>4, <2>4, <2>5
<1>5. CASE CallReturns
  <2>1. UNCHANGED <<clock, reach, downSince, alerted, todo, tick, outage>>
        /\ call' = None /\ call # None
    BY <1>5 DEF CallReturns, srvState, Returned
  <2>2. \A s \in Server : Timely(s)'
    BY <1>2, <2>1, TimelyStays DEF CheckedAt, Round
  <2> QED
    BY <1>1, <2>1, <2>2 DEF TimeInv, Round
<1>6. CASE Elapse
  <2>1. /\ UNCHANGED <<reach, downSince, alerted, todo, tick, outage, call>>
        /\ clock' = clock + 1 /\ clock < tick /\ todo = {} /\ call = None
    BY <1>6 DEF Elapse, srvState, Returned
  <2>2. \A s \in Server : Timely(s)'
    BY <1>2, <2>1, TimelyStays DEF CheckedAt, Round
  <2> QED
    BY <1>1, <2>1, <2>2 DEF TimeInv, Round
<1>7. ASSUME NEW s \in Server, Flap(s) PROVE TimeInv'
  <2>1. UNCHANGED <<clock, downSince, alerted, todo, tick, call>>
    BY <1>7 DEF Flap, GoesDown, ComesUp, srvState
  <2>2. \/ outage' = [outage EXCEPT ![s] = clock] /\ reach' = reach \ {s}
        \/ outage' = [outage EXCEPT ![s] = 0] /\ reach' = reach \cup {s}
    BY <1>7 DEF Flap, GoesDown, ComesUp
  <2>3. \A t \in Server : CheckedAt(t)' = CheckedAt(t) /\ CheckedAt(t) <= clock
    BY <1>1, <2>1 DEF CheckedAt, Round
  <2>4. ASSUME NEW t \in Server \ {s} PROVE Timely(t)'
    <3>1. outage'[t] = outage[t] /\ (t \in reach <=> t \in reach')
      BY <2>2 DEF MonitorTypes
    <3> QED
      BY <1>2, <2>1, <2>3, <3>1, TimelyStays
  <2>5. Timely(s)'
    <3>1. \/ outage'[s] = clock /\ s \notin reach'
          \/ outage'[s] = 0
      BY <2>2 DEF MonitorTypes
    <3>2. /\ CheckedAt(s)' = CheckedAt(s) /\ CheckedAt(s) <= clock
          /\ downSince'[s] = downSince[s] /\ alerted' = alerted
      BY <2>1, <2>3
    <3>3. CheckedAt(s) \in Int
      BY <1>1 DEF CheckedAt, Round
    <3>4. outage'[s] # 0 => ~ (outage'[s] < CheckedAt(s))
      BY <1>1, <3>1, <3>2, <3>3
    <3> QED
      BY <1>2, <3>1, <3>2, <3>4 DEF Timely
  <2> QED
    BY <1>1, <2>1, <2>4, <2>5 DEF TimeInv, Round
<1>8. CASE MonitorRestart
  <2>1. /\ clock' = clock /\ tick' = clock + Interval /\ call' = None /\ todo' = Server
        /\ reach' = reach /\ downSince' = [s \in Server |-> 0]
        /\ outage' = [s \in Server |-> IF s \in reach THEN 0 ELSE clock]
    BY <1>8 DEF MonitorRestart, Never
  <2>2. \A s \in Server : Timely(s)'
    BY <1>1, <2>1 DEF Timely, CheckedAt, Round
  <2> QED
    BY <1>1, <2>1, <2>2 DEF TimeInv, Round
<1>9. CASE UNCHANGED monitorVars
  BY <1>9 DEF monitorVars, TimeInv, Timely, Round, CheckedAt
<1> QED
  BY <1>3, <1>4, <1>5, <1>6, <1>7, <1>8, <1>9, MonitorMoves

\* A number is less than its divisor times the quotient and one more.
LEMMA QuotientBounds ==
    ASSUME NEW x \in Nat, NEW m \in Nat, m > 0
    PROVE  x \div m \in Nat /\ x < m * ((x \div m) + 1)
OBVIOUS

\* The checks after the last one of the threshold: their number, times the interval.
LEMMA ChecksNeeded ==
    LET q == (Threshold + Interval - 1) \div Interval IN
    /\ q \in Int /\ Interval * q >= Threshold
    /\ \A k \in Nat : k * Interval > Interval * q - Interval => k * Interval >= Threshold
<1> DEFINE q == (Threshold + Interval - 1) \div Interval
           n == Threshold + Interval - 1
<1>1. Threshold \in Nat /\ Interval \in Nat /\ Interval > 0 /\ n \in Nat
  BY MonitorAssumption
<1>2. q \in Nat /\ n < Interval * q + Interval
  <2>1. n \div Interval \in Nat /\ n < Interval * ((n \div Interval) + 1)
    BY <1>1, QuotientBounds
  <2>2. q = n \div Interval
    OBVIOUS
  <2> HIDE DEF n, q
  <2> QED
    BY <1>1, <2>1, <2>2
<1>3. Interval * q >= Threshold /\ Interval * q \in Nat
  <2>1. Interval * q \in Nat
    <3> HIDE DEF q
    <3> QED
      BY <1>1, <1>2
  <2> QED
    BY <1>1, <1>2, <2>1
<1>4. ASSUME NEW k \in Nat, k * Interval > Interval * q - Interval
      PROVE  k * Interval >= Threshold
  <2> HIDE DEF q
  <2>1. k >= q
    <3>1. CASE k < q
      <4>1. k + 1 <= q
        BY <1>2, <3>1
      <4>2. PICK d \in Nat : q = k + 1 + d
        <5>1. q - k - 1 \in Nat /\ q = k + 1 + (q - k - 1)
          BY <1>2, <4>1
        <5> QED
          BY <5>1
      <4>3. Interval * q = Interval * k + Interval + Interval * d
        BY <1>1, <4>2
      <4>4. Interval * d \in Nat /\ Interval * k \in Nat /\ k * Interval = Interval * k
        BY <1>1, <4>2
      <4> QED
        BY <1>1, <1>4, <4>3, <4>4
    <3> QED
      BY <1>2, <3>1
  <2>2. PICK d \in Nat : k = q + d
    <3>1. k - q \in Nat /\ k = q + (k - q)
      BY <1>2, <2>1
    <3> QED
      BY <3>1
  <2>3. k * Interval = Interval * q + Interval * d /\ Interval * d \in Nat
    BY <1>1, <1>2, <2>2
  <2> QED
    BY <1>1, <1>3, <2>3
<1> QED
  BY <1>2, <1>3, <1>4

MonitorInv == MonitorTypes /\ (SlowChecks = FALSE => TimeInv)

LEMMA MonitorInvAlways == Spec => []MonitorInv
<1>1. Init => MonitorInv
  <2> SUFFICES ASSUME Init PROVE MonitorInv
    OBVIOUS
  <2>1. /\ clock = 1 /\ reach \subseteq Server /\ alerted = {} /\ todo = Server
        /\ downSince = [s \in Server |-> 0] /\ upSince = [s \in Server |-> 0]
        /\ lastCheck = [s \in Server |-> 0]
        /\ tick = clock + Interval /\ call = None
        /\ outage = [s \in Server |-> IF s \in reach THEN 0 ELSE clock]
        /\ log = [s \in Server |-> <<>>] /\ restarts = MaxRestarts
    BY DEF Init, MonitorInit, Never
  <2>2. /\ Interval \in Nat \ {0} /\ MaxTime \in Nat \ {0} /\ MaxOutages \in Nat \ {0}
        /\ MaxRestarts \in Nat
    BY MonitorAssumption, IncidentsAssumption
  <2>3. outages \in [Server -> 0..MaxOutages]
    BY <2>2 DEF Init
  <2>4. log \in [Server -> Logs]
    BY <2>1 DEF Logs
  <2>5. MonitorTypes
    BY <2>1, <2>2, <2>3, <2>4 DEF MonitorTypes
  <2>6. ASSUME NEW s \in Server PROVE Timely(s)
    <3>1. /\ s \in todo /\ downSince[s] = 0 /\ upSince[s] = 0 /\ s \notin alerted
          /\ outage[s] = IF s \in reach THEN 0 ELSE 1
      BY <2>1
    <3>2. CheckedAt(s) = Round - Interval /\ Round = 1 /\ clock = 1
      BY <2>1, <2>2, <3>1 DEF CheckedAt, Round
    <3> QED
      BY <2>2, <3>1, <3>2 DEF Timely
  <2>7. TimeInv
    BY <2>1, <2>2, <2>6 DEF TimeInv, Round
  <2> QED
    BY <2>5, <2>7 DEF MonitorInv
<1>2. MonitorInv /\ [Next]_vars => MonitorInv'
  BY MonitorTypesStep, TimeStep DEF MonitorInv
<1> QED
  BY <1>1, <1>2, PTL DEF Spec

\* While checks are fast a server that has been unreachable for longer than the
\* delay is alerted, for any interval and threshold: AlertInTime.
THEOREM AlertedInTime ==
    ASSUME SlowChecks = FALSE
    PROVE  Spec => []AlertInTime
<1>1. MonitorInv => AlertInTime
  <2> SUFFICES ASSUME MonitorInv, NEW s \in Server,
                      outage[s] # 0, clock - outage[s] > Delay
               PROVE  s \in alerted
    BY DEF AlertInTime
  <2> DEFINE q == (Threshold + Interval - 1) \div Interval
  <2>1. /\ q \in Int /\ Interval * q >= Threshold
        /\ \A k \in Nat : k * Interval > Interval * q - Interval => k * Interval >= Threshold
        /\ Delay = Interval + Interval * q
    BY ChecksNeeded DEF Delay
  <2> HIDE DEF q
  <2>2. /\ clock \in Nat /\ tick \in Nat /\ Interval \in Nat \ {0} /\ Threshold \in Nat
        /\ outage[s] \in Nat /\ downSince[s] \in Nat
    BY MonitorAssumption DEF MonitorInv, MonitorTypes
  <2>3. clock <= tick /\ Round <= clock /\ (todo # {} => clock = Round) /\ Timely(s)
    BY DEF MonitorInv, TimeInv
  <2>4. CheckedAt(s) \in Int /\ CheckedAt(s) >= clock - Interval
    BY <2>2, <2>3 DEF CheckedAt, Round
  <2>5. Interval * q \in Nat
    BY <2>1, <2>2
  <2>6. outage[s] < CheckedAt(s)
    BY <2>1, <2>2, <2>4, <2>5
  <2>7. downSince[s] # 0 /\ downSince[s] <= outage[s] + Interval
    BY <2>3, <2>6 DEF Timely
  <2>8. PICK k \in Nat : /\ CheckedAt(s) = downSince[s] + k * Interval
                         /\ k * Interval >= Threshold => s \in alerted
    BY <2>3, <2>7 DEF Timely
  <2>9. k * Interval \in Nat
    BY <2>2
  <2>10. k * Interval > Interval * q - Interval
    BY <2>1, <2>2, <2>4, <2>5, <2>7, <2>8, <2>9
  <2> QED
    BY <2>1, <2>8, <2>10
<1> QED
  BY <1>1, MonitorInvAlways, PTL

-----------------------------------------------------------------------------
(* What a step does to the cards of a chat                                   *)

Cards(messages, s, a) == {i \in Nat : CardIn(messages, s, a, i)}
Reds(messages, s, a) == {i \in Cards(messages, s, a) : messages[a][i].kind = "red"}
Newest(S, i) == i \in S /\ \A j \in S : j <= i

\* The newest card is red.
RedShown(messages, s, a) ==
    \E i \in Reds(messages, s, a) : Newest(Cards(messages, s, a), i)

SameCards ==
    \A s \in Server, a \in Admin :
        Cards(chat', s, a) = Cards(chat, s, a) /\ Reds(chat', s, a) = Reds(chat, s, a)

LEMMA ChatKept == ASSUME UNCHANGED chat PROVE SameCards
BY DEF SameCards, Cards, Reds, CardIn

\* A message sent is the newest of its chat, and only a card counts as one.
LEMMA SentCards ==
    ASSUME chat \in [Admin -> Seq(A!Post)],
           NEW b \in Admin, NEW t \in Server, NEW k \in A!Kind, A!Sent(b, t, k)
    PROVE  LET n == Len(chat[b]) + 1 IN
           /\ n \in Nat
           /\ \A i \in Cards(chat, t, b) : i < n
           /\ \A s \in Server, a \in Admin : s # t \/ a # b
                 => Cards(chat', s, a) = Cards(chat, s, a) /\ Reds(chat', s, a) = Reds(chat, s, a)
           /\ Cards(chat', t, b) = IF k \in CardKind THEN Cards(chat, t, b) \cup {n}
                                                   ELSE Cards(chat, t, b)
           /\ Reds(chat', t, b) = IF k = "red" THEN Reds(chat, t, b) \cup {n} ELSE Reds(chat, t, b)
<1> DEFINE n == Len(chat[b]) + 1
           post == [server |-> t, kind |-> k]
           new == Append(chat[b], post)
<1>1. post \in A!Post /\ post.server = t /\ post.kind = k /\ chat[b] \in Seq(A!Post)
  BY DEF A!Post
<1>2. chat' = [chat EXCEPT ![b] = new]
  BY DEF A!Sent
<1>3. Len(chat[b]) \in Nat /\ n \in Nat
  BY <1>1
<1> HIDE DEF post
<1>4. /\ Len(new) = n
      /\ \A i \in 1..Len(chat[b]) : new[i] = chat[b][i]
      /\ new[n] = post
  BY <1>1
<1> HIDE DEF new, n
<1>5. chat'[b] = new /\ \A a \in Admin \ {b} : chat'[a] = chat[a]
  BY <1>2
<1>6. ASSUME NEW i \in Nat
      PROVE  /\ i \in 1..Len(new) <=> i \in 1..Len(chat[b]) \/ i = n
             /\ ~ (i \in 1..Len(chat[b]) /\ i = n)
  BY <1>3, <1>4 DEF n
<1>7. ASSUME NEW s \in Server, NEW a \in Admin, s # t \/ a # b
      PROVE  Cards(chat', s, a) = Cards(chat, s, a) /\ Reds(chat', s, a) = Reds(chat, s, a)
  <2>1. CASE a # b
    BY <1>5, <2>1 DEF Cards, Reds, CardIn
  <2>2. CASE a = b /\ s # t
    <3>1. \A i \in Nat : CardIn(chat', s, a, i) <=> CardIn(chat, s, a, i)
      BY <1>1, <1>4, <1>5, <1>6, <2>2 DEF CardIn
    <3>2. \A i \in Nat : CardIn(chat, s, a, i) => chat'[a][i] = chat[a][i]
      BY <1>4, <1>5, <2>2 DEF CardIn
    <3> QED
      BY <3>1, <3>2 DEF Cards, Reds
  <2> QED
    BY <1>7, <2>1, <2>2
<1>8. /\ \A i \in Nat : CardIn(chat', t, b, i)
                           <=> CardIn(chat, t, b, i) \/ (i = n /\ k \in CardKind)
      /\ \A i \in Nat : CardIn(chat, t, b, i) => chat'[b][i] = chat[b][i] /\ i # n
      /\ chat'[b][n].kind = k
  BY <1>1, <1>4, <1>5, <1>6 DEF CardIn
<1>9. Cards(chat', t, b) = IF k \in CardKind THEN Cards(chat, t, b) \cup {n} ELSE Cards(chat, t, b)
  BY <1>3, <1>8 DEF Cards
<1>10. Reds(chat', t, b) = IF k = "red" THEN Reds(chat, t, b) \cup {n} ELSE Reds(chat, t, b)
  BY <1>3, <1>8 DEF Cards, Reds, CardKind
<1>11. \A i \in Cards(chat, t, b) : i < n
  BY <1>3 DEF Cards, CardIn, n
<1> QED
  BY <1>3, <1>7, <1>9, <1>10, <1>11 DEF n

\* An edit that is made changes a red card to a green one.
LEMMA EditedCards ==
    ASSUME CardInv, A!EditMessage,
           chat' = [chat EXCEPT ![card.admin][card.id].kind = card.text]
    PROVE  /\ card.text = "green"
           /\ \A s \in Server, a \in Admin :
                 /\ Cards(chat', s, a) = Cards(chat, s, a)
                 /\ Reds(chat', s, a) = IF s = card.server /\ a = card.admin
                                  THEN Reds(chat, s, a) \ {card.id} ELSE Reds(chat, s, a)
<1> DEFINE b == card.admin
           post == [chat[b][card.id] EXCEPT !.kind = card.text]
           new == [chat[b] EXCEPT ![card.id] = post]
<1>1. /\ card.admin \in Admin /\ card.server \in Server /\ card.id \in Nat
      /\ card.text = "green" /\ CardIn(chat, card.server, card.admin, card.id)
  BY DEF A!EditMessage, A!At, CardInv, CardKind, Busy, A!Card
<1>2. chat[b] \in Seq(A!Post) /\ chat[b][card.id] \in A!Post
  BY <1>1 DEF CardInv, CardIn
<1>3. post.server = card.server /\ post.kind = "green"
  BY <1>1, <1>2 DEF A!Post, CardIn
<1>4. chat' = [chat EXCEPT ![b] = new]
  OBVIOUS
<1> HIDE DEF post
<1>5. /\ Len(new) = Len(chat[b]) /\ Len(chat[b]) \in Nat
      /\ \A i \in 1..Len(chat[b]) : new[i] = IF i = card.id THEN post ELSE chat[b][i]
  BY <1>1, <1>2 DEF CardIn
<1> HIDE DEF new
<1>6. chat'[b] = new /\ \A a \in Admin \ {b} : chat'[a] = chat[a]
  BY <1>1, <1>4 DEF CardInv
<1>7. ASSUME NEW s \in Server, NEW a \in Admin
      PROVE  /\ Cards(chat', s, a) = Cards(chat, s, a)
             /\ Reds(chat', s, a) = IF s = card.server /\ a = card.admin
                              THEN Reds(chat, s, a) \ {card.id} ELSE Reds(chat, s, a)
  <2>1. CASE a # b
    BY <1>6, <2>1 DEF Cards, Reds, CardIn
  <2>2. CASE a = b
    <3>1. \A i \in Nat : CardIn(chat', s, a, i) <=> CardIn(chat, s, a, i)
      BY <1>1, <1>3, <1>5, <1>6, <2>2 DEF CardIn, CardKind
    <3>2. \A i \in Nat : CardIn(chat, s, a, i)
             => chat'[a][i] = IF i = card.id THEN post ELSE chat[a][i]
      BY <1>5, <1>6, <2>2 DEF CardIn
    <3>3. CardIn(chat, s, a, card.id) => s = card.server
      BY <1>1, <2>2 DEF CardIn
    <3>4. Cards(chat', s, a) = Cards(chat, s, a)
      BY <3>1 DEF Cards
    <3>5. \A i \in Nat : CardIn(chat, s, a, i) =>
             (chat'[a][i].kind = "red" <=> chat[a][i].kind = "red" /\ i # card.id)
      BY <1>3, <3>2
    <3>6. \A i \in Cards(chat, s, a) :
             i \in Reds(chat', s, a) <=> i \in Reds(chat, s, a) /\ i # card.id
      BY <3>4, <3>5 DEF Cards, Reds
    <3>7. /\ Reds(chat', s, a) \subseteq Cards(chat, s, a)
          /\ Reds(chat, s, a) \subseteq Cards(chat, s, a)
      BY <3>4 DEF Reds
    <3>8. Reds(chat', s, a) = Reds(chat, s, a) \ {card.id}
      BY <3>6, <3>7
    <3>9. s # card.server => card.id \notin Reds(chat, s, a)
      BY <3>3 DEF Reds, Cards
    <3> QED
      BY <2>2, <3>4, <3>8, <3>9
  <2> QED
    BY <2>1, <2>2
<1> QED
  BY <1>1, <1>7

\* A complaint is no card.
LEMMA ComplaintsAside ==
    ASSUME CardInv, A!ComplaintStep
    PROVE  SameCards /\ UNCHANGED <<incident, stored, card>>
<1>1. UNCHANGED <<incident, stored, card>>
  BY DEF A!ComplaintStep, A!StartComplaint, A!SendComplaint, A!ComplaintDone
<1>2. ASSUME NEW a \in Admin, A!SendComplaint(a), ~ UNCHANGED chat PROVE SameCards
  <2>1. complaint.server \in Server /\ "complaint" \in A!Kind /\ "complaint" \notin CardKind
    BY <1>2 DEF A!SendComplaint, CardInv, A!Kind, CardKind
  <2>2. A!Sent(a, complaint.server, "complaint")
    BY <1>2 DEF A!SendComplaint, A!SendFails
  <2> QED
    BY <2>1, <2>2, SentCards DEF CardInv, SameCards
<1> QED
  BY <1>1, <1>2, ChatKept
  DEF A!ComplaintStep, A!StartComplaint, A!ComplaintDone

-----------------------------------------------------------------------------
(* The steps of the alerts, by what they do to the cards                     *)

StaysOn ==
    /\ card'.server = card.server /\ card'.text = card.text /\ card'.force = card.force
    /\ card'.admin = card.admin /\ card'.todo = card.todo

StoredHere == stored[card.server][card.admin]
CardsHere == Cards(chat, card.server, card.admin)
RedsHere == Reds(chat, card.server, card.admin)

\* A card was added to the chat being served.
Added(n) ==
    /\ n \in Nat /\ \A i \in CardsHere : i < n
    /\ \A s \in Server, a \in Admin : s # card.server \/ a # card.admin
          => Cards(chat', s, a) = Cards(chat, s, a) /\ Reds(chat', s, a) = Reds(chat, s, a)
    /\ Cards(chat', card.server, card.admin) = CardsHere \cup {n}
    /\ Reds(chat', card.server, card.admin) =
          IF card.text = "red" THEN RedsHere \cup {n} ELSE RedsHere

Starts(s, text) ==
    /\ card.at = "idle"
    /\ card'.at = "next" /\ card'.server = s /\ card'.text = text /\ card'.todo = Admin
    /\ SameCards /\ UNCHANGED <<stored, faults>>

DownMove(s) ==
    /\ call = <<"down", s>> /\ s \notin incident /\ incident' = incident \cup {s}
    /\ Starts(s, "red") /\ card'.force = TRUE

UpMove(s) ==
    /\ call = <<"up", s>> /\ incident' = incident \ {s}
    /\ Starts(s, "green") /\ card'.force = FALSE

NextMove(a) ==
    /\ card.at = "next" /\ a \in card.todo
    /\ card'.at = IF card.force THEN "send" ELSE "get"
    /\ card'.admin = a /\ card'.todo = card.todo \ {a}
    /\ card'.server = card.server /\ card'.text = card.text /\ card'.force = card.force
    /\ SameCards /\ UNCHANGED <<incident, stored, faults>>

GetMove ==
    /\ card.at = "get" /\ StaysOn /\ SameCards /\ UNCHANGED <<incident, stored>>
    /\ \/ StoredHere # 0 /\ card'.at = "edit" /\ card'.id = StoredHere /\ UNCHANGED faults
       \/ /\ card'.at = "send"
          /\ (StoredHere = 0 /\ UNCHANGED faults) \/ faults' = Append(faults, "get")

EditMove ==
    /\ card.at = "edit" /\ StaysOn /\ card.text = "green" /\ UNCHANGED <<incident, stored>>
    /\ \/ /\ card.id \in RedsHere
          /\ \/ card'.at = "next" /\ UNCHANGED faults
             \/ card'.at = "send" /\ faults' = Append(faults, "edit")
          /\ \A s \in Server, a \in Admin :
                /\ Cards(chat', s, a) = Cards(chat, s, a)
                /\ Reds(chat', s, a) = IF s = card.server /\ a = card.admin
                                 THEN Reds(chat, s, a) \ {card.id} ELSE Reds(chat, s, a)
       \/ /\ card'.at = "send" /\ SameCards
          /\ (card.id \notin RedsHere /\ UNCHANGED faults) \/ faults' = Append(faults, "edit")

SendMove ==
    /\ card.at = "send" /\ StaysOn /\ UNCHANGED <<incident, stored>>
    /\ \/ card'.at = "save" /\ Added(card'.id) /\ UNCHANGED faults
       \/ card'.at = "next" /\ (SameCards \/ \E n : Added(n)) /\ faults' = Append(faults, "send")

SaveMove ==
    /\ card.at = "save" /\ StaysOn /\ card'.at = "next" /\ SameCards /\ UNCHANGED incident
    /\ \/ /\ \A s \in Server, a \in Admin :
                stored'[s][a] = IF s = card.server /\ a = card.admin THEN card.id
                                ELSE stored[s][a]
          /\ UNCHANGED faults \/ faults' = Append(faults, "save")
       \/ UNCHANGED stored /\ faults' = Append(faults, "save")

DoneMove ==
    /\ card.at = "next" /\ card.todo = {} /\ card'.at = "idle"
    /\ SameCards /\ UNCHANGED <<incident, stored, faults>>

RestartMove ==
    /\ incident' = {} /\ card'.at = "idle" /\ faults' = Append(faults, "restart")
    /\ SameCards /\ UNCHANGED stored

RestMove ==
    /\ SameCards /\ UNCHANGED <<incident, stored, card>>
    /\ UNCHANGED faults \/ faults' = Append(faults, "send")

ServeMove ==
    \/ \E a \in Admin : NextMove(a)
    \/ GetMove \/ EditMove \/ SendMove \/ SaveMove \/ RestMove

LEMMA CallMoves ==
    ASSUME SameInv, Call
    PROVE  \E s \in Server : DownMove(s) \/ UpMove(s)
<1>1. PICK s \in Server : \/ call = <<"down", s>> /\ A!ServerDown(s)
                          \/ call = <<"up", s>> /\ A!ServerUp(s)
  BY DEF Call
<1>2. card.at = "idle" /\ UNCHANGED <<stored, faults, chat>>
  BY <1>1 DEF A!ServerDown, A!ServerUp, A!At
<1>3. CASE call = <<"down", s>> /\ A!ServerDown(s)
  <2>1. s \notin incident
    BY <1>2, <1>3 DEF SameInv, Busy, A!At
  <2>2. DownMove(s)
    BY <1>2, <1>3, <2>1, ChatKept DEF A!ServerDown, A!StartUpdate, DownMove, Starts
  <2> QED
    BY <2>2
<1>4. CASE call = <<"up", s>> /\ A!ServerUp(s)
  <2>1. UpMove(s)
    BY <1>2, <1>4, ChatKept DEF A!ServerUp, A!StartUpdate, UpMove, Starts
  <2> QED
    BY <2>1
<1> QED
  BY <1>1, <1>3, <1>4

LEMMA ServeMoves ==
    ASSUME CardInv, Serve
    PROVE  ServeMove
<1> USE DEF A!At, A!Goto
<1>0. card \in A!Card /\ stored \in [Server -> [Admin -> Nat]]
  BY DEF CardInv
<1>1. ASSUME NEW a \in Admin, A!NextAdmin(a) PROVE NextMove(a)
  BY <1>0, <1>1, ChatKept DEF A!NextAdmin, NextMove, A!Card
<1>2. CASE A!GetStatusMessage
  <2>1. card.at = "get" /\ UNCHANGED <<incident, stored, chat>> /\ StoredHere \in Nat
    BY <1>0, <1>2 DEF A!GetStatusMessage, CardInv, StoredHere, Busy
  <2>2. CASE card' = [card EXCEPT !.at = "edit", !.id = StoredHere] /\ StoredHere # 0
             /\ UNCHANGED faults
    <3>1. StaysOn /\ card'.at = "edit" /\ card'.id = StoredHere
      BY <1>0, <2>1, <2>2, CardStages DEF StaysOn
    <3> QED
      BY <2>1, <2>2, <3>1, ChatKept DEF GetMove, ServeMove
  <2>3. CASE card' = [card EXCEPT !.at = "send"]
             /\ ((StoredHere = 0 /\ UNCHANGED faults) \/ faults' = Append(faults, "get"))
    <3>1. card.id \in Nat
      BY <1>0 DEF A!Card
    <3>2. StaysOn /\ card'.at = "send"
      BY <1>0, <2>3, <3>1, CardStages DEF StaysOn
    <3> QED
      BY <2>1, <2>3, <3>2, ChatKept DEF GetMove, ServeMove
  <2> QED
    BY <1>2, <2>2, <2>3 DEF A!GetStatusMessage, A!Fault, StoredHere
<1>3. CASE A!EditMessage
  <2>1. /\ card.at = "edit" /\ UNCHANGED <<incident, stored>> /\ card.text = "green"
        /\ CardIn(chat, card.server, card.admin, card.id) /\ card.id \in Nat
    BY <1>0, <1>3 DEF A!EditMessage, CardInv, Busy, CardKind, A!Card
  <2>2. card.id \in RedsHere <=> chat[card.admin][card.id].kind # card.text
    BY <2>1 DEF RedsHere, Reds, Cards, CardIn, CardKind
  <2>3. CASE /\ chat[card.admin][card.id].kind # card.text
             /\ chat' = [chat EXCEPT ![card.admin][card.id].kind = card.text]
             /\ \/ card' = [card EXCEPT !.at = "next"] /\ UNCHANGED faults
                \/ card' = [card EXCEPT !.at = "send"] /\ faults' = Append(faults, "edit")
    <3>1. \A s \in Server, a \in Admin :
              /\ Cards(chat', s, a) = Cards(chat, s, a)
              /\ Reds(chat', s, a) = IF s = card.server /\ a = card.admin
                               THEN Reds(chat, s, a) \ {card.id} ELSE Reds(chat, s, a)
      BY <1>3, <2>3, EditedCards
    <3>2. /\ StaysOn
          /\ \/ card'.at = "next" /\ UNCHANGED faults
             \/ card'.at = "send" /\ faults' = Append(faults, "edit")
      BY <1>0, <2>1, <2>3, CardStages DEF StaysOn
    <3> QED
      BY <2>1, <2>2, <2>3, <3>1, <3>2 DEF EditMove, ServeMove
  <2>4. CASE /\ \/ chat[card.admin][card.id].kind = card.text /\ UNCHANGED faults
                \/ faults' = Append(faults, "edit")
             /\ card' = [card EXCEPT !.at = "send"] /\ UNCHANGED chat
    <3>1. StaysOn /\ card'.at = "send"
      BY <1>0, <2>1, <2>4, CardStages DEF StaysOn
    <3> QED
      BY <2>1, <2>2, <2>4, <3>1, ChatKept DEF EditMove, ServeMove
  <2> QED
    BY <1>3, <2>3, <2>4 DEF A!EditMessage, A!Fault
<1>4. CASE A!SendCard
  <2>1. /\ card.at = "send" /\ card.admin \in Admin /\ card.server \in Server
        /\ card.text \in A!Kind /\ card.text \in CardKind /\ card.id \in Nat
        /\ UNCHANGED <<incident, stored>>
    BY <1>0, <1>4 DEF A!SendCard, CardInv, CardKind, A!Kind, Busy, A!Card
  <2> DEFINE n == Len(chat[card.admin]) + 1
  <2>2. A!Sent(card.admin, card.server, card.text) => n \in Nat /\ Added(n)
    BY <2>1, SentCards DEF CardInv, Added, CardsHere, RedsHere
  <2>3. CASE /\ A!Sent(card.admin, card.server, card.text)
             /\ card' = [card EXCEPT !.at = "save", !.id = n] /\ UNCHANGED faults
    <3>1. StaysOn /\ card'.at = "save" /\ card'.id = n
      BY <1>0, <2>2, <2>3, CardStages DEF StaysOn
    <3> HIDE DEF n
    <3> QED
      BY <2>1, <2>2, <2>3, <3>1 DEF SendMove, ServeMove
  <2>4. CASE /\ A!Sent(card.admin, card.server, card.text) \/ UNCHANGED chat
             /\ faults' = Append(faults, "send") /\ card' = [card EXCEPT !.at = "next"]
    <3>1. StaysOn /\ card'.at = "next"
      BY <1>0, <2>1, <2>4, CardStages DEF StaysOn
    <3> HIDE DEF n
    <3> QED
      BY <2>1, <2>2, <2>4, <3>1, ChatKept DEF SendMove, ServeMove
  <2> QED
    BY <1>4, <2>3, <2>4 DEF A!SendCard, A!SendFails, A!Fault
<1>5. CASE A!SaveStatusMessage
  <2>1. /\ card.at = "save" /\ card.admin \in Admin /\ card.server \in Server
        /\ card.id \in Nat /\ UNCHANGED <<incident, chat>>
        /\ card' = [card EXCEPT !.at = "next"]
    BY <1>0, <1>5 DEF A!SaveStatusMessage, CardInv, Busy, A!Card
  <2>2. StaysOn /\ card'.at = "next"
    BY <1>0, <2>1, CardStages DEF StaysOn
  <2>3. stored' = [stored EXCEPT ![card.server][card.admin] = card.id]
           => \A s \in Server, a \in Admin :
                stored'[s][a] = IF s = card.server /\ a = card.admin THEN card.id
                                ELSE stored[s][a]
    BY <1>0, <2>1
  <2>4. SaveMove
    BY <1>5, <2>1, <2>2, <2>3, ChatKept DEF A!SaveStatusMessage, A!Fault, SaveMove
  <2> QED
    BY <2>4 DEF ServeMove
<1>6. CASE A!ComplaintStep
  <2>1. UNCHANGED faults \/ faults' = Append(faults, "send")
    BY <1>6 DEF A!ComplaintStep, A!StartComplaint, A!SendComplaint, A!ComplaintDone,
                A!SendFails, A!Fault
  <2> QED
    BY <1>6, <2>1, ComplaintsAside DEF ServeMove, RestMove
<1> QED
  BY <1>1, <1>2, <1>3, <1>4, <1>5, <1>6 DEF Serve, A!CardStep, ServeMove

LEMMA AlertMoves ==
    ASSUME CardInv, SameInv, [Next]_vars
    PROVE  \/ \E s \in Server : DownMove(s) \/ UpMove(s)
           \/ ServeMove \/ DoneMove \/ RestartMove
<1>1. CASE Return
  BY <1>1, ChatKept DEF Return, A!UpdateDone, A!NoCard, A!At, DoneMove
<1>2. CASE Restart
  BY <1>2, ChatKept DEF Restart, A!Restart, A!Fault, A!NoCard, RestartMove
<1>3. CASE UNCHANGED alertVars
  BY <1>3, ChatKept DEF alertVars, ServeMove, RestMove
<1> QED
  BY <1>1, <1>2, <1>3, CallMoves, ServeMoves DEF Next, Check, Flap, vars

-----------------------------------------------------------------------------
(* Faults                                                                    *)

\* None of these faults is in the list.
Spare(list, kinds) == \A i \in 1..Len(list) : list[i] \notin kinds

LEMMA SparedIs == \A kinds : A!Spared(kinds) <=> Spare(faults, kinds)
BY DEF A!Spared, Spare

LEMMA SpareBefore ==
    ASSUME NEW list \in Seq(Faults), NEW kind \in Faults, NEW kinds,
           Spare(Append(list, kind), kinds)
    PROVE  Spare(list, kinds) /\ kind \notin kinds
<1>1. /\ Len(Append(list, kind)) = Len(list) + 1 /\ Len(list) \in Nat
      /\ Append(list, kind)[Len(list) + 1] = kind
      /\ \A i \in 1..Len(list) : Append(list, kind)[i] = list[i]
  OBVIOUS
<1>2. \A i \in 1..Len(list) : i \in 1..Len(Append(list, kind))
  BY <1>1
<1>3. Len(list) + 1 \in 1..Len(Append(list, kind))
  BY <1>1
<1> QED
  BY <1>1, <1>2, <1>3 DEF Spare

FaultsInv == faults \in Seq(Faults) /\ Len(faults) <= MaxFaults

LEMMA FaultSteps ==
    ASSUME [Next]_vars
    PROVE  \/ UNCHANGED faults
           \/ \E kind \in Faults : Len(faults) < MaxFaults /\ faults' = Append(faults, kind)
<1>1. CASE A!CardStep
  BY <1>1 DEF A!CardStep, A!NextAdmin, A!GetStatusMessage, A!EditMessage, A!SendCard,
              A!SaveStatusMessage, A!SendFails, A!Fault
<1>2. CASE A!ComplaintStep
  BY <1>2 DEF A!ComplaintStep, A!StartComplaint, A!SendComplaint, A!ComplaintDone,
              A!SendFails, A!Fault
<1>3. CASE Call \/ Return \/ Restart
  BY <1>3 DEF Call, A!ServerDown, A!ServerUp, Return, A!UpdateDone, Restart, A!Restart,
              A!Fault
<1>4. CASE UNCHANGED alertVars
  BY <1>4 DEF alertVars
<1> QED
  BY <1>1, <1>2, <1>3, <1>4 DEF Next, Check, Serve, Flap, vars

LEMMA FaultsStep == FaultsInv /\ [Next]_vars => FaultsInv'
<1> SUFFICES ASSUME FaultsInv, [Next]_vars PROVE FaultsInv'
  OBVIOUS
<1>1. ASSUME NEW kind \in Faults, Len(faults) < MaxFaults, faults' = Append(faults, kind)
      PROVE  FaultsInv'
  <2>1. /\ Len(faults) \in Nat /\ Len(Append(faults, kind)) = Len(faults) + 1
        /\ Append(faults, kind) \in Seq(Faults) /\ MaxFaults \in Nat
    BY IncidentsAssumption DEF FaultsInv
  <2> QED
    BY <1>1, <2>1 DEF FaultsInv
<1> QED
  BY <1>1, FaultSteps DEF FaultsInv

\* What no fault has done after a step, none had done before it.
LEMMA SpareStays ==
    ASSUME FaultsInv, [Next]_vars, NEW kinds, Spare(faults', kinds)
    PROVE  /\ Spare(faults, kinds)
           /\ \A kind \in kinds : faults' # Append(faults, kind)
<1>1. Spare(faults, kinds)
  BY FaultSteps, SpareBefore DEF FaultsInv
<1>2. ASSUME NEW kind \in kinds, faults' = Append(faults, kind) PROVE FALSE
  <2>1. UNCHANGED faults \/ \E k \in Faults : faults' = Append(faults, k)
    BY FaultSteps
  <2>2. faults \in Seq(Faults) /\ Len(faults) \in Nat
    BY DEF FaultsInv
  <2>3. Len(Append(faults, kind)) = Len(faults) + 1
        /\ Append(faults, kind)[Len(faults) + 1] = kind
    BY <2>2
  <2>4. PICK k \in Faults : faults' = Append(faults, k)
    BY <1>2, <2>1, <2>2, <2>3
  <2>5. Append(faults, k)[Len(faults) + 1] = k
    BY <2>2
  <2>6. k \notin kinds
    BY <2>2, <2>4, SpareBefore
  <2> QED
    BY <1>2, <2>3, <2>4, <2>5, <2>6
<1> QED
  BY <1>1, <1>2

-----------------------------------------------------------------------------
(* The stages of an update                                                   *)

StageInv ==
    /\ card.at # "idle" => (card.text = "red" <=> card.server \in incident)
    /\ card.at \in {"get", "edit", "send", "save"} => card.admin \notin card.todo
    /\ card.at = "edit" => card.id = StoredHere
    /\ card.at = "save" =>
          Newest(CardsHere, card.id) /\ (card.id \in RedsHere <=> card.text = "red")

LEMMA AddedNewest ==
    ASSUME NEW n, Added(n)
    PROVE  /\ Newest(Cards(chat', card.server, card.admin), n)
           /\ n \in Reds(chat', card.server, card.admin) <=> card.text = "red"
           /\ RedShown(chat', card.server, card.admin) <=> card.text = "red"
<1> DEFINE C == Cards(chat', card.server, card.admin)
           R == Reds(chat', card.server, card.admin)
<1>1. /\ n \in Nat /\ \A i \in CardsHere : i < n
      /\ C = CardsHere \cup {n}
      /\ R = IF card.text = "red" THEN RedsHere \cup {n} ELSE RedsHere
      /\ R \subseteq C /\ RedsHere \subseteq CardsHere /\ CardsHere \subseteq Nat
  BY DEF Added, Reds, RedsHere, CardsHere, Cards
<1> HIDE DEF C, R
<1>2. Newest(C, n) /\ n \notin CardsHere
  BY <1>1 DEF Newest
<1>3. n \in R <=> card.text = "red"
  BY <1>1, <1>2
<1>4. \A i : Newest(C, i) => i = n
  BY <1>1 DEF Newest
<1> QED
  BY <1>2, <1>3, <1>4 DEF RedShown, C, R

LEMMA StageStep == CardInv /\ SameInv /\ StageInv /\ [Next]_vars => StageInv'
<1> SUFFICES ASSUME CardInv, SameInv, StageInv, [Next]_vars PROVE StageInv'
  OBVIOUS
<1>1. /\ card.at # "idle" => card.server \in Server
      /\ card.at \in {"get", "edit", "send", "save"} => card.admin \in Admin
  BY DEF CardInv, Busy, A!At
<1>2. ASSUME NEW s \in Server, DownMove(s) \/ UpMove(s) PROVE StageInv'
  BY <1>2 DEF DownMove, UpMove, Starts, StageInv
<1>3. ASSUME NEW a \in Admin, NextMove(a) PROVE StageInv'
  BY <1>3 DEF NextMove, StageInv
<1>4. CASE GetMove
  BY <1>4 DEF GetMove, StaysOn, StageInv, StoredHere
<1>5. CASE EditMove
  BY <1>5 DEF EditMove, StaysOn, StageInv
<1>6. CASE SendMove
  <2>1. CASE card'.at = "next"
    BY <1>6, <2>1 DEF SendMove, StaysOn, StageInv
  <2>2. CASE card'.at = "save" /\ Added(card'.id)
    BY <1>6, <2>2, AddedNewest DEF SendMove, StaysOn, StageInv, CardsHere, RedsHere
  <2> QED
    BY <1>6, <2>1, <2>2 DEF SendMove
<1>7. CASE SaveMove
  BY <1>7 DEF SaveMove, StaysOn, StageInv
<1>8. CASE RestMove
  BY <1>1, <1>8 DEF RestMove, StageInv, SameCards, CardsHere, RedsHere, StoredHere
<1>9. CASE DoneMove \/ RestartMove
  BY <1>9 DEF DoneMove, RestartMove, StageInv
<1> QED
  BY <1>2, <1>3, <1>4, <1>5, <1>6, <1>7, <1>8, <1>9, AlertMoves DEF ServeMove

-----------------------------------------------------------------------------
(* What the newest card shows                                                *)

Serving(s, a) == card.server = s /\ card.admin = a

\* An admin the update has still to serve.
Pending(s, a) ==
    /\ card.at # "idle" /\ card.server = s
    /\ a \in card.todo \/ (card.at \in {"get", "edit", "send"} /\ card.admin = a)

\* An incident shows once an admin has been served.
Shown(s, a) == s \in incident /\ ~ Pending(s, a) => RedShown(chat, s, a)

ShownInv == Spare(faults, {"send"}) => \A s \in Server, a \in Admin : Shown(s, a)

LEMMA SameShown ==
    ASSUME NEW s, NEW a, Cards(chat', s, a) = Cards(chat, s, a),
           Reds(chat', s, a) = Reds(chat, s, a)
    PROVE  RedShown(chat', s, a) <=> RedShown(chat, s, a)
BY DEF RedShown

LEMMA ShownStep ==
    CardInv /\ SameInv /\ StageInv /\ FaultsInv /\ ShownInv /\ [Next]_vars => ShownInv'
<1> SUFFICES ASSUME CardInv, SameInv, StageInv, FaultsInv, ShownInv, [Next]_vars,
                    Spare(faults', {"send"}),
                    NEW s \in Server, NEW a \in Admin, s \in incident', ~ Pending(s, a)'
             PROVE  RedShown(chat', s, a)
  BY DEF ShownInv, Shown
<1>1. Shown(s, a) /\ faults' # Append(faults, "send")
  BY SpareStays DEF ShownInv
<1>2. s \in incident /\ ~ Pending(s, a)
        /\ Cards(chat', s, a) = Cards(chat, s, a) /\ Reds(chat', s, a) = Reds(chat, s, a)
           => RedShown(chat', s, a)
  BY <1>1, SameShown DEF Shown
<1>3. ASSUME NEW t \in Server, DownMove(t) \/ UpMove(t) PROVE RedShown(chat', s, a)
  <2>1. s # t /\ s \in incident /\ card.at = "idle"
    BY <1>3 DEF DownMove, UpMove, Starts, Pending
  <2> QED
    BY <1>2, <1>3, <2>1 DEF DownMove, UpMove, Starts, SameCards, Pending
<1>4. ASSUME NEW b \in Admin, NextMove(b) PROVE RedShown(chat', s, a)
  BY <1>2, <1>4 DEF NextMove, SameCards, Pending
<1>5. CASE GetMove
  BY <1>2, <1>5 DEF GetMove, StaysOn, SameCards, Pending
<1>6. CASE EditMove
  <2>1. card.text = "green" /\ UNCHANGED incident /\ s # card.server
    BY <1>6 DEF EditMove, StageInv
  <2> QED
    BY <1>2, <1>6, <2>1 DEF EditMove, SameCards, Pending
<1>7. CASE SendMove
  <2>1. card'.at = "save" /\ Added(card'.id) /\ StaysOn /\ card.at = "send" /\ UNCHANGED incident
    BY <1>1, <1>7 DEF SendMove
  <2>2. CASE Serving(s, a)
    <3>1. card.text = "red"
      BY <2>1, <2>2 DEF StageInv, Serving
    <3> QED
      BY <2>1, <2>2, <3>1, AddedNewest DEF Serving
  <2>3. CASE ~ Serving(s, a)
    <3>1. Cards(chat', s, a) = Cards(chat, s, a) /\ Reds(chat', s, a) = Reds(chat, s, a)
      BY <2>1, <2>3 DEF Added, Serving
    <3>2. ~ Pending(s, a)
      BY <2>1, <2>3 DEF Pending, StaysOn, Serving
    <3> QED
      BY <1>2, <2>1, <3>1, <3>2
  <2> QED
    BY <2>2, <2>3
<1>8. CASE SaveMove
  BY <1>2, <1>8 DEF SaveMove, StaysOn, SameCards, Pending
<1>9. CASE RestMove \/ DoneMove
  BY <1>2, <1>9 DEF RestMove, DoneMove, SameCards, Pending
<1>10. CASE RestartMove
  BY <1>10 DEF RestartMove
<1> QED
  BY <1>3, <1>4, <1>5, <1>6, <1>7, <1>8, <1>9, <1>10, AlertMoves DEF ServeMove

\* No fault leaves a red card behind that the database holds and the chat replaced.
Fine(list) ==
    \/ Spare(list, {"send", "restart", "save"})
    \/ Spare(list, {"send", "restart", "get", "edit"})

\* The recovery shows once an admin has been served, for a stored card which is red
\* is the newest, and so the one that is edited: unless it could not be read or
\* edited and a green one is on its way, and then that one is stored.
Gone(s, a) ==
    /\ s \notin incident /\ ~ Pending(s, a) => ~ RedShown(chat, s, a)
    /\ card.at \in {"send", "save"} /\ Serving(s, a)
          => stored[s][a] \notin Reds(chat, s, a) \/ ~ Spare(faults, {"get", "edit"})
    /\ ~ (card.at \in {"send", "save"} /\ Serving(s, a)) /\ stored[s][a] \in Reds(chat, s, a)
          => Newest(Cards(chat, s, a), stored[s][a])
    /\ card.at # "idle" /\ card.force /\ card.server = s /\ a \in card.todo
          => stored[s][a] \notin Reds(chat, s, a)

GoneInv == Fine(faults) => \A s \in Server, a \in Admin : Gone(s, a)

LEMMA FineStays ==
    ASSUME FaultsInv, [Next]_vars, Fine(faults')
    PROVE  /\ Fine(faults)
           /\ faults' # Append(faults, "send") /\ faults' # Append(faults, "restart")
           /\ faults' = Append(faults, "save") => Spare(faults, {"get", "edit"})
           /\ \A kind \in {"get", "edit"} :
                faults' = Append(faults, kind) => ~ Spare(faults', {"get", "edit"})
<1>1. \A kinds : Spare(faults', kinds)
         => Spare(faults, kinds) /\ \A kind \in kinds : faults' # Append(faults, kind)
  BY SpareStays
<1>2. Fine(faults)
  BY <1>1 DEF Fine
<1>3. faults' # Append(faults, "send") /\ faults' # Append(faults, "restart")
  BY <1>1 DEF Fine
<1>4. ASSUME faults' = Append(faults, "save") PROVE Spare(faults, {"get", "edit"})
  <2>1. Spare(faults', {"send", "restart", "get", "edit"})
    BY <1>1, <1>4 DEF Fine
  <2>2. Spare(faults, {"send", "restart", "get", "edit"})
    BY <1>1, <2>1
  <2> QED
    BY <2>2 DEF Spare
<1>5. \A kind \in {"get", "edit"} :
         faults' = Append(faults, kind) => ~ Spare(faults', {"get", "edit"})
  BY <1>1
<1> QED
  BY <1>2, <1>3, <1>4, <1>5

LEMMA GoneStep ==
    CardInv /\ SameInv /\ StageInv /\ FaultsInv /\ GoneInv /\ [Next]_vars => GoneInv'
<1> SUFFICES ASSUME CardInv, SameInv, StageInv, FaultsInv, GoneInv, [Next]_vars,
                    Fine(faults'), NEW s \in Server, NEW a \in Admin
             PROVE  Gone(s, a)'
  BY DEF GoneInv
<1>1. Gone(s, a)
  BY FineStays DEF GoneInv
<1>2. /\ faults' # Append(faults, "send") /\ faults' # Append(faults, "restart")
      /\ faults' = Append(faults, "save") => Spare(faults, {"get", "edit"})
      /\ \A kind \in {"get", "edit"} :
            faults' = Append(faults, kind) => ~ Spare(faults', {"get", "edit"})
  BY FineStays
<1>3. ASSUME Cards(chat', s, a) = Cards(chat, s, a), Reds(chat', s, a) = Reds(chat, s, a)
      PROVE  RedShown(chat', s, a) <=> RedShown(chat, s, a)
  BY <1>3, SameShown
<1>4. ASSUME NEW t \in Server, DownMove(t) \/ UpMove(t) PROVE Gone(s, a)'
  <2>1. /\ Cards(chat', s, a) = Cards(chat, s, a) /\ Reds(chat', s, a) = Reds(chat, s, a)
        /\ stored' = stored /\ card.at = "idle" /\ card'.at = "next" /\ card'.server = t
        /\ card'.todo = Admin
    BY <1>4 DEF DownMove, UpMove, Starts, SameCards
  <2>2. stored[s][a] \in Reds(chat, s, a) => Newest(Cards(chat, s, a), stored[s][a])
    BY <1>1, <2>1 DEF Gone
  <2>3. CASE s = t
    <3>1. card'.force => stored[s][a] \notin Reds(chat, s, a)
      <4>1. card'.force => s \notin incident
        BY <1>4, <2>3 DEF DownMove, UpMove
      <4>2. s \notin incident => ~ RedShown(chat, s, a)
        BY <1>1, <2>1 DEF Gone, Pending
      <4> QED
        BY <2>2, <4>1, <4>2 DEF RedShown
    <3>2. Pending(s, a)'
      BY <2>1, <2>3 DEF Pending
    <3> QED
      BY <2>1, <2>2, <3>1, <3>2 DEF Gone
  <2>4. CASE s # t
    <3>1. s \in incident' <=> s \in incident
      BY <1>4, <2>4 DEF DownMove, UpMove
    <3> QED
      BY <1>1, <1>3, <2>1, <2>2, <2>4, <3>1 DEF Gone, Pending
  <2> QED
    BY <2>3, <2>4
<1>5. ASSUME NEW b \in Admin, NextMove(b) PROVE Gone(s, a)'
  <2>1. /\ Cards(chat', s, a) = Cards(chat, s, a) /\ Reds(chat', s, a) = Reds(chat, s, a)
        /\ UNCHANGED <<incident, stored, faults>> /\ card.at = "next" /\ b \in card.todo
        /\ card'.at = IF card.force THEN "send" ELSE "get"
        /\ card'.admin = b /\ card'.todo = card.todo \ {b}
        /\ card'.server = card.server /\ card'.force = card.force
    BY <1>5 DEF NextMove, SameCards
  <2>2. Pending(s, a)' <=> Pending(s, a)
    BY <2>1 DEF Pending
  <2> QED
    BY <1>1, <1>3, <2>1, <2>2 DEF Gone, Serving
<1>6. CASE GetMove
  <2>1. /\ Cards(chat', s, a) = Cards(chat, s, a) /\ Reds(chat', s, a) = Reds(chat, s, a)
        /\ UNCHANGED <<incident, stored>> /\ card.at = "get" /\ StaysOn
        /\ card'.at \in {"edit", "send"}
    BY <1>6 DEF GetMove, SameCards
  <2>2. Pending(s, a)' <=> Pending(s, a)
    BY <2>1 DEF Pending, StaysOn
  <2>3. card'.at = "send" /\ Serving(s, a)
           => stored[s][a] \notin Reds(chat, s, a) \/ ~ Spare(faults', {"get", "edit"})
    <3>1. 0 \notin Reds(chat, s, a)
      BY DEF Reds, Cards, CardIn
    <3> QED
      BY <1>2, <1>6, <3>1 DEF GetMove, StoredHere, Serving
  <2> QED
    BY <1>1, <1>3, <2>1, <2>2, <2>3 DEF Gone, Serving, StaysOn
<1>7. CASE EditMove
  <2>1. /\ card.at = "edit" /\ StaysOn /\ UNCHANGED <<incident, stored>> /\ ~ card.force
        /\ card.id = StoredHere
    BY <1>7 DEF EditMove, CardInv, StageInv
  <2>2. CASE card'.at = "send" /\ SameCards
    <3>1. Cards(chat', s, a) = Cards(chat, s, a) /\ Reds(chat', s, a) = Reds(chat, s, a)
      BY <1>7, <2>2 DEF EditMove, SameCards
    <3>2. Pending(s, a)' <=> Pending(s, a)
      BY <2>1, <2>2 DEF Pending, StaysOn
    <3>3. Serving(s, a)
             => stored[s][a] \notin Reds(chat, s, a) \/ ~ Spare(faults', {"get", "edit"})
      BY <1>2, <1>7, <2>1, <2>2 DEF EditMove, StoredHere, RedsHere, Serving
    <3> QED
      BY <1>1, <1>3, <2>1, <2>2, <3>1, <3>2, <3>3 DEF Gone, Serving, StaysOn
  <2>3. CASE card'.at # "send" /\ Serving(s, a)
    <3>1. /\ Cards(chat', s, a) = Cards(chat, s, a) /\ card.id = stored[s][a]
          /\ Reds(chat', s, a) = Reds(chat, s, a) \ {stored[s][a]}
          /\ stored[s][a] \in Reds(chat, s, a) /\ card'.at = "next"
      BY <1>7, <2>1, <2>3 DEF EditMove, Serving, StoredHere, RedsHere
    <3>2. Newest(Cards(chat, s, a), stored[s][a])
      BY <1>1, <2>1, <3>1 DEF Gone
    <3>3. \A i : Newest(Cards(chat, s, a), i) => i = stored[s][a]
      <4>1. Cards(chat, s, a) \subseteq Nat
        BY DEF Cards
      <4> QED
        BY <3>2, <4>1 DEF Newest
    <3>4. ~ RedShown(chat', s, a)
      BY <3>1, <3>3 DEF RedShown
    <3> QED
      BY <2>1, <3>1, <3>4 DEF Gone, StaysOn
  <2>4. CASE card'.at # "send" /\ ~ Serving(s, a)
    <3>1. /\ Cards(chat', s, a) = Cards(chat, s, a) /\ Reds(chat', s, a) = Reds(chat, s, a)
          /\ card'.at = "next"
      BY <1>7, <2>4 DEF EditMove, Serving
    <3>2. Pending(s, a)' <=> Pending(s, a)
      BY <2>1, <2>4, <3>1 DEF Pending, StaysOn, Serving
    <3> QED
      BY <1>1, <1>3, <2>1, <2>4, <3>1, <3>2 DEF Gone, Serving, StaysOn
  <2>5. CASE card'.at = "send" /\ ~ SameCards /\ Serving(s, a)
    <3>1. Pending(s, a)'
      BY <2>1, <2>5 DEF Pending, StaysOn, Serving
    <3>2. ~ Spare(faults', {"get", "edit"})
      BY <1>2, <1>7, <2>5 DEF EditMove
    <3> QED
      BY <2>1, <2>5, <3>1, <3>2 DEF Gone, Serving, StaysOn
  <2>6. CASE card'.at = "send" /\ ~ SameCards /\ ~ Serving(s, a)
    <3>1. Cards(chat', s, a) = Cards(chat, s, a) /\ Reds(chat', s, a) = Reds(chat, s, a)
      BY <1>7, <2>6 DEF EditMove, Serving
    <3>2. Pending(s, a)' <=> Pending(s, a)
      BY <2>1, <2>6 DEF Pending, StaysOn
    <3> QED
      BY <1>1, <1>3, <2>1, <2>6, <3>1, <3>2 DEF Gone, Serving, StaysOn
  <2> QED
    BY <2>2, <2>3, <2>4, <2>5, <2>6
<1>8. CASE SendMove
  <2>1. /\ card.at = "send" /\ StaysOn /\ UNCHANGED <<incident, stored, faults>>
        /\ card'.at = "save" /\ Added(card'.id) /\ card.admin \notin card.todo
    BY <1>2, <1>8 DEF SendMove, StageInv
  <2>2. CASE Serving(s, a)
    <3>1. s \notin incident => ~ RedShown(chat', s, a)
      <4>1. s \notin incident => card.text # "red"
        BY <2>1, <2>2 DEF StageInv, Serving
      <4> QED
        BY <2>1, <2>2, <4>1, AddedNewest DEF Serving
    <3>2. stored[s][a] \notin Reds(chat, s, a) => stored[s][a] \notin Reds(chat', s, a)
      <4>1. stored[s][a] # 0 => stored[s][a] \in Cards(chat, s, a)
        BY DEF CardInv, Cards
      <4>2. \A i \in Cards(chat, s, a) : i # card'.id
        BY <2>1, <2>2 DEF Added, Serving, CardsHere, Cards
      <4>3. card'.id # 0 \/ 0 \notin Reds(chat', s, a)
        BY DEF Reds, Cards, CardIn
      <4>4. stored[s][a] \in Reds(chat', s, a)
               => stored[s][a] \in Reds(chat, s, a) \/ stored[s][a] = card'.id
        BY <2>1, <2>2 DEF Added, Serving, RedsHere
      <4> QED
        BY <4>1, <4>2, <4>3, <4>4
    <3>3. a \notin card.todo
      BY <2>1, <2>2 DEF Serving
    <3> QED
      BY <1>1, <2>1, <2>2, <3>1, <3>2, <3>3 DEF Gone, Serving, StaysOn
  <2>3. CASE ~ Serving(s, a)
    <3>1. Cards(chat', s, a) = Cards(chat, s, a) /\ Reds(chat', s, a) = Reds(chat, s, a)
      BY <2>1, <2>3 DEF Added, Serving
    <3>2. Pending(s, a)' <=> Pending(s, a)
      BY <2>1, <2>3 DEF Pending, StaysOn, Serving
    <3> QED
      BY <1>1, <1>3, <2>1, <2>3, <3>1, <3>2 DEF Gone, Serving, StaysOn
  <2> QED
    BY <2>2, <2>3
<1>9. CASE SaveMove
  <2>1. /\ card.at = "save" /\ StaysOn /\ card'.at = "next" /\ UNCHANGED incident
        /\ Cards(chat', s, a) = Cards(chat, s, a) /\ Reds(chat', s, a) = Reds(chat, s, a)
        /\ card.admin \notin card.todo
    BY <1>9 DEF SaveMove, SameCards, StageInv
  <2>2. Pending(s, a)' <=> Pending(s, a)
    BY <2>1 DEF Pending, StaysOn
  <2>3. CASE Serving(s, a)
    <3>1. CASE stored'[s][a] = card.id
      <4>1. Newest(Cards(chat, s, a), card.id)
        BY <2>1, <2>3 DEF StageInv, Serving, CardsHere
      <4> QED
        BY <1>1, <1>3, <2>1, <2>2, <2>3, <3>1, <4>1 DEF Gone, Serving, StaysOn
    <3>2. CASE UNCHANGED stored /\ faults' = Append(faults, "save")
      <4>1. stored[s][a] \notin Reds(chat, s, a)
        BY <1>1, <1>2, <2>1, <2>3, <3>2 DEF Gone
      <4> QED
        BY <1>1, <1>3, <2>1, <2>2, <2>3, <3>2, <4>1 DEF Gone, Serving, StaysOn
    <3> QED
      BY <1>9, <2>3, <3>1, <3>2 DEF SaveMove, Serving
  <2>4. CASE ~ Serving(s, a)
    <3>1. stored'[s][a] = stored[s][a]
      BY <1>9, <2>4 DEF SaveMove, Serving
    <3> QED
      BY <1>1, <1>3, <2>1, <2>2, <2>4, <3>1 DEF Gone, Serving, StaysOn
  <2> QED
    BY <2>3, <2>4
<1>10. CASE RestMove
  <2>1. /\ Cards(chat', s, a) = Cards(chat, s, a) /\ Reds(chat', s, a) = Reds(chat, s, a)
        /\ UNCHANGED <<incident, stored, card, faults>>
    BY <1>2, <1>10 DEF RestMove, SameCards
  <2> QED
    BY <1>1, <1>3, <2>1 DEF Gone, Serving, Pending
<1>11. CASE DoneMove
  <2>1. /\ Cards(chat', s, a) = Cards(chat, s, a) /\ Reds(chat', s, a) = Reds(chat, s, a)
        /\ UNCHANGED <<incident, stored>> /\ card.at = "next" /\ card.todo = {}
        /\ card'.at = "idle"
    BY <1>11 DEF DoneMove, SameCards
  <2> QED
    BY <1>1, <1>3, <2>1 DEF Gone, Pending
<1>12. CASE RestartMove
  BY <1>2, <1>12 DEF RestartMove
<1> QED
  BY <1>4, <1>5, <1>6, <1>7, <1>8, <1>9, <1>10, <1>11, <1>12, AlertMoves DEF ServeMove

-----------------------------------------------------------------------------
(* One card for an outage                                                    *)

\* An admin who is about to get a red card.
RedDue(s, a) ==
    \/ card.at = "idle" /\ call = <<"down", s>>
    \/ Pending(s, a) /\ card.text = "red"

\* An outage that may still be alerted.
Unused(s) == s \notin alerted /\ s \notin reach

\* Every card, the one on its way and the one still to come has an outage of its
\* own; the recovery finds the red card in the database, and edits it.
One(s, a) ==
    /\ Cardinality(Cards(chat, s, a)) + (IF RedDue(s, a) THEN 1 ELSE 0)
          + (IF Unused(s) THEN 1 ELSE 0) <= outages[s]
    /\ (s \in incident \/ Pending(s, a)) /\ ~ RedDue(s, a) /\ ~ (card.at = "save" /\ Serving(s, a))
          => stored[s][a] \in Reds(chat, s, a)

OneInv ==
    faults = <<>> =>
        /\ card.at # "idle" => (card.force <=> card.text = "red")
        /\ card.at \in {"send", "save"} => card.text = "red"
        /\ \A s \in Server : card.at = "idle" /\ call = <<"up", s>> => s \in incident
        /\ \A s \in Server, a \in Admin : One(s, a)

LEMMA CardsCounted ==
    ASSUME CardInv, NEW s \in Server, NEW a \in Admin
    PROVE  IsFiniteSet(Cards(chat, s, a)) /\ Cardinality(Cards(chat, s, a)) \in Nat
<1>1. Len(chat[a]) \in Nat
  BY DEF CardInv
<1>2. IsFiniteSet(1..Len(chat[a]))
  <2>1. 1 \in Int /\ Len(chat[a]) \in Int
    BY <1>1
  <2> QED
    BY <2>1, FS_Interval
<1>3. Cards(chat, s, a) \subseteq 1..Len(chat[a])
  BY DEF Cards, CardIn
<1> QED
  BY <1>2, <1>3, FS_Subset, FS_CardinalityType

\* What leaves the cards, the row, and the counts as they are keeps them.
LEMMA OneStays ==
    ASSUME NEW s \in Server, NEW a \in Admin, One(s, a),
           Cards(chat', s, a) = Cards(chat, s, a), Reds(chat', s, a) = Reds(chat, s, a),
           RedDue(s, a)' <=> RedDue(s, a), Unused(s)' <=> Unused(s),
           outages'[s] = outages[s], stored'[s][a] = stored[s][a],
           (s \in incident \/ Pending(s, a))' => s \in incident \/ Pending(s, a),
           card.at = "save" /\ Serving(s, a) => (card.at = "save" /\ Serving(s, a))'
    PROVE  One(s, a)'
BY DEF One

LEMMA NoFault ==
    ASSUME FaultsInv, [Next]_vars, faults' = <<>>
    PROVE  faults = <<>> /\ \A kind : faults' # Append(faults, kind)
<1>1. /\ faults \in Seq(Faults)
      /\ \A kind : Append(faults, kind) # <<>>
  <2>1. faults \in Seq(Faults) /\ Len(faults) \in Nat
    BY DEF FaultsInv
  <2>2. ASSUME NEW kind PROVE Append(faults, kind) # <<>>
    <3>1. Len(Append(faults, kind)) = Len(faults) + 1
      BY <2>1
    <3> QED
      BY <2>1, <3>1
  <2> QED
    BY <2>1, <2>2
<1> QED
  BY <1>1, FaultSteps

\* A step of the monitor moves an outage from those that may be alerted to the
\* cards on their way.
LEMMA OneCheck ==
    ASSUME CardInv, SameInv, MonitorTypes, OneInv, faults = <<>>, UNCHANGED <<alertVars>>,
           MonitorStep \/ Elapse, UNCHANGED outages
    PROVE  OneInv'
<1>1. UNCHANGED <<incident, stored, chat, card, faults, outages>>
  BY DEF alertVars
<1>2. \A s \in Server, a \in Admin : One(s, a)
      /\ Cards(chat', s, a) = Cards(chat, s, a) /\ Reds(chat', s, a) = Reds(chat, s, a)
      /\ (Pending(s, a)' <=> Pending(s, a)) /\ (Serving(s, a)' <=> Serving(s, a))
  BY <1>1 DEF OneInv, Pending, Serving
<1>3. CASE StartRound \/ Elapse
  <2>1. UNCHANGED <<call, alerted, reach>>
    BY <1>3 DEF StartRound, Elapse, srvState
  <2>2. \A s \in Server, a \in Admin : One(s, a)'
    BY <1>1, <1>2, <2>1, OneStays DEF RedDue, Unused
  <2> QED
    BY <1>1, <2>1, <2>2 DEF OneInv
<1>4. ASSUME NEW t \in Server, CheckFails(t) \/ CheckPasses(t) PROVE OneInv'
  <2>1. call = None /\ card.at = "idle" /\ incident = alerted /\ reach' = reach
    BY <1>4 DEF CheckFails, CheckPasses, Returned, SameInv, Busy, A!At
  <2>2. \A s \in Server, a \in Admin : ~ RedDue(s, a) /\ ~ Pending(s, a)
    BY <2>1, CallNone DEF RedDue, Pending
  <2>3. CASE CheckFails(t) /\ AlertDue(t)
    <3>1. /\ t \notin reach /\ t \notin alerted /\ alerted' = alerted \cup {t}
          /\ call' = <<"down", t>>
      BY <2>3 DEF CheckFails, AlertDue
    <3>2. ASSUME NEW s \in Server, NEW a \in Admin, s # t PROVE One(s, a)'
      BY <1>1, <1>2, <2>1, <2>2, <3>1, <3>2, OneStays DEF RedDue, Unused
    <3>3. ASSUME NEW a \in Admin PROVE One(t, a)'
      <4>1. RedDue(t, a)' /\ ~ Unused(t)' /\ Unused(t)
        BY <1>1, <2>1, <3>1 DEF RedDue, Unused
      <4>2. Cardinality(Cards(chat, t, a)) \in Nat
        BY CardsCounted
      <4> QED
        BY <1>1, <1>2, <2>2, <4>1, <4>2 DEF One
    <3> QED
      BY <1>1, <2>1, <3>1, <3>2, <3>3, CallNone DEF OneInv
  <2>4. CASE CheckFails(t) /\ ~ AlertDue(t)
    <3>1. UNCHANGED <<alerted, reach>> /\ call' = None
      BY <2>4 DEF CheckFails
    <3>2. \A s \in Server, a \in Admin : One(s, a)'
      BY <1>1, <1>2, <2>1, <3>1, OneStays DEF RedDue, Unused
    <3> QED
      BY <1>1, <3>1, <3>2, CallNone DEF OneInv
  <2>5. CASE CheckPasses(t)
    <3>1. /\ t \in reach /\ alerted' = alerted \ {t}
          /\ call' = IF t \in alerted THEN <<"up", t>> ELSE None
      BY <2>5 DEF CheckPasses
    <3>2. \A s \in Server, a \in Admin : ~ RedDue(s, a)' /\ (Unused(s)' <=> Unused(s))
      BY <1>1, <2>1, <3>1, CallNone DEF RedDue, Unused, Pending
    <3>3. \A s \in Server, a \in Admin : One(s, a)'
      BY <1>1, <1>2, <2>2, <3>2, OneStays
    <3>4. \A s \in Server : call' = <<"up", s>> => s \in incident
      BY <2>1, <3>1, CallNone
    <3> QED
      BY <1>1, <2>1, <3>3, <3>4 DEF OneInv
  <2> QED
    BY <1>4, <2>3, <2>4, <2>5
<1> QED
  BY <1>3, <1>4 DEF MonitorStep

LEMMA OneFlap ==
    ASSUME MonitorTypes, CardInv, OneInv, faults = <<>>, NEW t \in Server, Flap(t)
    PROVE  OneInv'
<1>1. UNCHANGED <<incident, stored, chat, card, faults, call, alerted>>
  BY DEF Flap, alertVars, GoesDown, ComesUp, srvState
<1>2. \A s \in Server, a \in Admin : One(s, a)
      /\ Cards(chat', s, a) = Cards(chat, s, a) /\ Reds(chat', s, a) = Reds(chat, s, a)
      /\ (Pending(s, a)' <=> Pending(s, a)) /\ (Serving(s, a)' <=> Serving(s, a))
      /\ (RedDue(s, a)' <=> RedDue(s, a))
  BY <1>1 DEF OneInv, Pending, Serving, RedDue
<1>3. ASSUME NEW s \in Server, NEW a \in Admin, s # t PROVE One(s, a)'
  <2>1. outages'[s] = outages[s] /\ (Unused(s)' <=> Unused(s))
    BY <1>1, <1>3 DEF Flap, GoesDown, ComesUp, Unused, MonitorTypes
  <2> QED
    BY <1>1, <1>2, <2>1, OneStays
<1>4. ASSUME NEW a \in Admin PROVE One(t, a)'
  <2>1. Cardinality(Cards(chat, t, a)) \in Nat /\ outages[t] \in Nat
    BY CardsCounted DEF MonitorTypes
  <2>2. \/ outages'[t] = outages[t] + 1 /\ ~ Unused(t)
        \/ outages'[t] = outages[t] /\ ~ Unused(t)'
    BY DEF Flap, GoesDown, ComesUp, Unused, MonitorTypes
  <2> QED
    BY <1>1, <1>2, <2>1, <2>2 DEF One
<1> QED
  BY <1>1, <1>3, <1>4 DEF OneInv

LEMMA OneCall ==
    ASSUME MonitorTypes, CardInv, SameInv, OneInv, faults = <<>>, Call
    PROVE  OneInv'
<1>1. UNCHANGED <<call, alerted, reach, outages>>
  BY DEF Call, monitorVars
<1>2. PICK t \in Server : DownMove(t) \/ UpMove(t)
  BY CallMoves
<1>3. /\ card.at = "idle" /\ card'.at = "next" /\ card'.server = t /\ card'.todo = Admin
      /\ UNCHANGED <<stored, faults>>
  BY <1>2 DEF DownMove, UpMove, Starts
<1>4. \A s \in Server, a \in Admin : One(s, a) /\ ~ Pending(s, a) /\ (Unused(s)' <=> Unused(s))
      /\ Cards(chat', s, a) = Cards(chat, s, a) /\ Reds(chat', s, a) = Reds(chat, s, a)
  BY <1>1, <1>2, <1>3 DEF DownMove, UpMove, Starts, SameCards, OneInv, Pending, Unused
<1>5. ASSUME NEW s \in Server, NEW a \in Admin, s # t PROVE One(s, a)'
  <2>1. ~ RedDue(s, a) /\ ~ RedDue(s, a)' /\ ~ Pending(s, a)'
    <3>1. call # <<"down", s>>
      BY <1>2, <1>5 DEF DownMove, UpMove
    <3> QED
      BY <1>3, <1>4, <1>5, <3>1 DEF RedDue, Pending
  <2>2. s \in incident' <=> s \in incident
    BY <1>2, <1>5 DEF DownMove, UpMove
  <2> QED
    BY <1>1, <1>3, <1>4, <2>1, <2>2, OneStays
<1>6. CASE DownMove(t)
  <2>1. ASSUME NEW a \in Admin PROVE One(t, a)'
    <3>1. RedDue(t, a) /\ RedDue(t, a)'
      BY <1>3, <1>6 DEF DownMove, Starts, RedDue, Pending
    <3> QED
      BY <1>1, <1>3, <1>4, <3>1 DEF One
  <2> QED
    BY <1>3, <1>5, <1>6, <2>1 DEF OneInv, DownMove, Starts
<1>7. CASE UpMove(t)
  <2>1. ASSUME NEW a \in Admin PROVE One(t, a)'
    <3>1. ~ RedDue(t, a) /\ ~ RedDue(t, a)'
      BY <1>3, <1>4, <1>7 DEF UpMove, Starts, RedDue, Pending
    <3>2. stored[t][a] \in Reds(chat, t, a)
      <4>1. t \in incident
        BY <1>3, <1>7 DEF UpMove, OneInv
      <4> QED
        BY <1>3, <1>4, <3>1, <4>1 DEF One
    <3> QED
      BY <1>1, <1>3, <1>4, <3>1, <3>2 DEF One
  <2> QED
    BY <1>3, <1>5, <1>7, <2>1 DEF OneInv, UpMove, Starts
<1> QED
  BY <1>2, <1>6, <1>7

LEMMA OneServe ==
    ASSUME MonitorTypes, CardInv, StageInv, OneInv, faults = <<>>, faults' = <<>>,
           \A kind : faults' # Append(faults, kind), Serve
    PROVE  OneInv'
<1>1. UNCHANGED <<call, alerted, reach, outages>>
  BY DEF Serve, monitorVars
<1>2. \A s \in Server, a \in Admin : One(s, a) /\ (Unused(s)' <=> Unused(s))
  BY <1>1 DEF OneInv, Unused
<1>3. /\ card.at # "idle" => (card.force <=> card.text = "red")
      /\ card.at \in {"send", "save"} => card.text = "red"
  BY DEF OneInv
<1>4. CASE RestMove
  <2>1. UNCHANGED <<incident, stored, card>> /\ SameCards
    BY <1>4 DEF RestMove
  <2>2. \A s \in Server, a \in Admin : One(s, a)'
    BY <1>1, <1>2, <2>1, OneStays DEF SameCards, RedDue, Pending, Serving
  <2> QED
    BY <1>1, <2>1, <2>2 DEF OneInv
<1>5. ASSUME NEW b \in Admin, NextMove(b) PROVE OneInv'
  <2>1. /\ UNCHANGED <<incident, stored>> /\ SameCards /\ card.at = "next" /\ b \in card.todo
        /\ card'.at = IF card.force THEN "send" ELSE "get"
        /\ card'.admin = b /\ card'.todo = card.todo \ {b}
        /\ card'.server = card.server /\ card'.text = card.text /\ card'.force = card.force
    BY <1>5 DEF NextMove
  <2>2. \A s \in Server, a \in Admin :
           (Pending(s, a)' <=> Pending(s, a)) /\ (RedDue(s, a)' <=> RedDue(s, a))
    BY <2>1 DEF Pending, RedDue
  <2>3. \A s \in Server, a \in Admin : One(s, a)'
    BY <1>1, <1>2, <2>1, <2>2, OneStays DEF SameCards
  <2> QED
    BY <1>3, <2>1, <2>3 DEF OneInv
<1>6. CASE GetMove
  <2>1. /\ card.at = "get" /\ StaysOn /\ UNCHANGED <<incident, stored>> /\ SameCards
        /\ card.server \in Server /\ card.admin \in Admin /\ card.text = "green"
    BY <1>6 DEF GetMove, CardInv, Busy, A!At, CardKind
  <2>2. StoredHere # 0
    <3>1. Pending(card.server, card.admin) /\ ~ RedDue(card.server, card.admin)
      BY <2>1 DEF Pending, RedDue
    <3>2. StoredHere \in Reds(chat, card.server, card.admin)
      BY <1>2, <2>1, <3>1 DEF One, StoredHere
    <3> QED
      BY <3>2 DEF Reds, Cards, CardIn
  <2>3. card'.at = "edit"
    BY <1>6, <2>2 DEF GetMove
  <2>4. \A s \in Server, a \in Admin :
           (Pending(s, a)' <=> Pending(s, a)) /\ (RedDue(s, a)' <=> RedDue(s, a))
    BY <2>1, <2>3 DEF Pending, RedDue, StaysOn
  <2>5. \A s \in Server, a \in Admin : One(s, a)'
    BY <1>1, <1>2, <2>1, <2>4, OneStays DEF SameCards
  <2> QED
    BY <1>3, <2>1, <2>3, <2>5 DEF OneInv, StaysOn
<1>7. CASE EditMove
  <2>1. /\ card.at = "edit" /\ StaysOn /\ UNCHANGED <<incident, stored>>
        /\ card.server \in Server /\ card.admin \in Admin /\ card.text = "green"
        /\ card.id = StoredHere /\ card.admin \notin card.todo /\ card.server \notin incident
    BY <1>7 DEF EditMove, CardInv, Busy, A!At, StageInv
  <2>2. card.id \in RedsHere
    <3>1. Pending(card.server, card.admin) /\ ~ RedDue(card.server, card.admin)
      BY <2>1 DEF Pending, RedDue
    <3> QED
      BY <1>2, <2>1, <3>1 DEF One, StoredHere, RedsHere
  <2>3. /\ card'.at = "next"
        /\ \A s \in Server, a \in Admin :
              /\ Cards(chat', s, a) = Cards(chat, s, a)
              /\ ~ Serving(s, a) => Reds(chat', s, a) = Reds(chat, s, a)
    BY <1>7, <2>2 DEF EditMove, Serving
  <2>4. ASSUME NEW s \in Server, NEW a \in Admin PROVE One(s, a)'
    <3>1. ~ RedDue(s, a) /\ ~ RedDue(s, a)'
      BY <2>1, <2>3 DEF RedDue, StaysOn
    <3>2. CASE Serving(s, a)
      <4>1. ~ (s \in incident \/ Pending(s, a))'
        BY <2>1, <2>3, <3>2 DEF Pending, Serving, StaysOn
      <4> QED
        BY <1>1, <1>2, <2>3, <3>1, <4>1 DEF One
    <3>3. CASE ~ Serving(s, a)
      <4>1. Pending(s, a)' <=> Pending(s, a)
        BY <2>1, <2>3, <3>3 DEF Pending, Serving, StaysOn
      <4> QED
        BY <1>1, <1>2, <2>1, <2>3, <3>1, <3>3, <4>1, OneStays
    <3> QED
      BY <3>2, <3>3
  <2> QED
    BY <1>3, <2>1, <2>3, <2>4 DEF OneInv, StaysOn
<1>8. CASE SendMove
  <2>1. /\ card.at = "send" /\ StaysOn /\ UNCHANGED <<incident, stored>>
        /\ card'.at = "save" /\ Added(card'.id) /\ card.text = "red"
        /\ card.admin \notin card.todo
    BY <1>3, <1>8 DEF SendMove, StageInv
  <2>2. ASSUME NEW s \in Server, NEW a \in Admin, Serving(s, a) PROVE One(s, a)'
    <3>1. RedDue(s, a) /\ ~ RedDue(s, a)'
      BY <2>1, <2>2 DEF RedDue, Pending, Serving, StaysOn
    <3>2. Cards(chat', s, a) = Cards(chat, s, a) \cup {card'.id}
          /\ card'.id \notin Cards(chat, s, a)
      BY <2>1, <2>2 DEF Added, Serving, CardsHere, Cards
    <3>3. /\ Cardinality(Cards(chat', s, a)) = Cardinality(Cards(chat, s, a)) + 1
          /\ Cardinality(Cards(chat, s, a)) \in Nat
      BY <3>2, CardsCounted, FS_AddElement
    <3>4. (card.at = "save" /\ Serving(s, a))'
      BY <2>1, <2>2 DEF Serving, StaysOn
    <3>5. outages[s] \in Nat
      BY DEF MonitorTypes
    <3> QED
      BY <1>1, <1>2, <3>1, <3>3, <3>4, <3>5 DEF One
  <2>3. ASSUME NEW s \in Server, NEW a \in Admin, ~ Serving(s, a) PROVE One(s, a)'
    <3>1. /\ Cards(chat', s, a) = Cards(chat, s, a) /\ Reds(chat', s, a) = Reds(chat, s, a)
          /\ (Pending(s, a)' <=> Pending(s, a)) /\ (RedDue(s, a)' <=> RedDue(s, a))
      BY <2>1, <2>3 DEF Added, Serving, Pending, RedDue, StaysOn
    <3> QED
      BY <1>1, <1>2, <2>1, <2>3, <3>1, OneStays
  <2> QED
    BY <1>3, <2>1, <2>2, <2>3 DEF OneInv, StaysOn
<1>9. CASE SaveMove
  <2>1. /\ card.at = "save" /\ StaysOn /\ card'.at = "next" /\ UNCHANGED incident
        /\ SameCards /\ card.text = "red" /\ card.id \in RedsHere
        /\ \A s \in Server, a \in Admin :
              stored'[s][a] = IF Serving(s, a) THEN card.id ELSE stored[s][a]
    BY <1>3, <1>9 DEF SaveMove, StageInv, Serving
  <2>2. \A s \in Server, a \in Admin :
           (Pending(s, a)' <=> Pending(s, a)) /\ (RedDue(s, a)' <=> RedDue(s, a))
    BY <2>1 DEF Pending, RedDue, StaysOn
  <2>3. ASSUME NEW s \in Server, NEW a \in Admin, Serving(s, a) PROVE One(s, a)'
    <3>1. stored'[s][a] \in Reds(chat', s, a)
      BY <2>1, <2>3 DEF RedsHere, Serving, SameCards
    <3> QED
      BY <1>1, <1>2, <2>1, <2>2, <3>1 DEF One, SameCards
  <2>4. ASSUME NEW s \in Server, NEW a \in Admin, ~ Serving(s, a) PROVE One(s, a)'
    BY <1>1, <1>2, <2>1, <2>2, <2>4, OneStays DEF SameCards
  <2> QED
    BY <1>3, <2>1, <2>3, <2>4 DEF OneInv, StaysOn
<1> QED
  BY <1>4, <1>5, <1>6, <1>7, <1>8, <1>9, ServeMoves DEF ServeMove

LEMMA OneStep ==
    MonitorTypes /\ CardInv /\ SameInv /\ StageInv /\ FaultsInv /\ OneInv /\ [Next]_vars
        => OneInv'
<1> SUFFICES ASSUME MonitorTypes, CardInv, SameInv, StageInv, FaultsInv, OneInv, [Next]_vars,
                    faults' = <<>>
             PROVE  OneInv'
  BY DEF OneInv
<1>1. faults = <<>> /\ \A kind : faults' # Append(faults, kind)
  BY NoFault
<1>2. CASE Call
  BY <1>1, <1>2, OneCall
<1>3. CASE Return
  <2>1. DoneMove /\ call' = None /\ UNCHANGED <<alerted, reach, outages>>
    BY <1>3, ChatKept DEF Return, A!UpdateDone, A!NoCard, A!At, DoneMove, CallReturns,
                          srvState
  <2>2. /\ card.at = "next" /\ card.todo = {} /\ card'.at = "idle" /\ SameCards
        /\ UNCHANGED <<incident, stored>>
    BY <2>1 DEF DoneMove
  <2>3. \A s \in Server, a \in Admin : /\ ~ Pending(s, a) /\ ~ Pending(s, a)'
                                       /\ ~ RedDue(s, a) /\ ~ RedDue(s, a)'
                                       /\ Unused(s)' <=> Unused(s)
    BY <2>1, <2>2, CallNone DEF Pending, RedDue, Unused
  <2>4. \A s \in Server, a \in Admin : One(s, a)'
    BY <1>1, <2>1, <2>2, <2>3, OneStays DEF SameCards, OneInv
  <2> QED
    BY <2>1, <2>2, <2>4, CallNone DEF OneInv
<1>4. CASE Check
  BY <1>1, <1>4, OneCheck DEF Check
<1>5. ASSUME NEW s \in Server, Flap(s) PROVE OneInv'
  BY <1>1, <1>5, OneFlap
<1>6. CASE Serve
  BY <1>1, <1>6, OneServe
<1>7. CASE Restart
  BY <1>1, <1>7 DEF Restart, A!Restart, A!Fault
<1>8. CASE UNCHANGED vars
  BY <1>8 DEF vars, monitorVars, alertVars, OneInv, One, RedDue, Unused, Pending, Serving,
              Cards, Reds, CardIn
<1> QED
  BY <1>2, <1>3, <1>4, <1>5, <1>6, <1>7, <1>8 DEF Next

-----------------------------------------------------------------------------
(* The chats have room, and a server that is alerted is not up               *)

RoomInv == \A a \in Admin : Len(chat[a]) <= MaxPosts

LEMMA RoomStep == CardInv /\ RoomInv /\ [Next]_vars => RoomInv'
<1> SUFFICES ASSUME CardInv, RoomInv, [Next]_vars PROVE RoomInv'
  OBVIOUS
<1>1. chat \in [Admin -> Seq(A!Post)] /\ MaxPosts \in Nat
  BY IncidentsAssumption DEF CardInv
<1>2. CASE UNCHANGED chat
  BY <1>2 DEF RoomInv
<1>3. ASSUME NEW b \in Admin, NEW t \in Server, NEW k \in A!Kind, A!Sent(b, t, k)
      PROVE  RoomInv'
  <2> DEFINE post == [server |-> t, kind |-> k]
             new == Append(chat[b], post)
  <2>1. post \in A!Post /\ chat[b] \in Seq(A!Post)
    BY <1>1 DEF A!Post
  <2>2. chat' = [chat EXCEPT ![b] = new] /\ Len(chat[b]) < MaxPosts
    BY <1>3 DEF A!Sent
  <2> HIDE DEF post
  <2>3. Len(new) = Len(chat[b]) + 1 /\ Len(chat[b]) \in Nat
    BY <2>1
  <2> HIDE DEF new
  <2>4. \A a \in Admin : Len(chat'[a]) <= MaxPosts
    BY <1>1, <2>2, <2>3 DEF RoomInv
  <2> QED
    BY <2>4 DEF RoomInv
<1>4. CASE A!EditMessage
  <2>1. card.admin \in Admin /\ card.id \in 1..Len(chat[card.admin])
    BY <1>4 DEF A!EditMessage, A!At, CardInv, CardIn
  <2>2. CASE chat' = [chat EXCEPT ![card.admin][card.id].kind = card.text]
    <3> DEFINE new == [chat[card.admin] EXCEPT
                          ![card.id] = [chat[card.admin][card.id] EXCEPT !.kind = card.text]]
    <3>1. Len(new) = Len(chat[card.admin])
      BY <1>1, <2>1
    <3>2. chat' = [chat EXCEPT ![card.admin] = new]
      BY <2>2
    <3> HIDE DEF new
    <3>3. \A a \in Admin : Len(chat'[a]) = Len(chat[a])
      BY <1>1, <3>1, <3>2
    <3> QED
      BY <3>3 DEF RoomInv
  <2> QED
    BY <1>2, <1>4, <2>2 DEF A!EditMessage
<1>5. CASE A!SendCard
  <2>1. card.admin \in Admin /\ card.server \in Server /\ card.text \in A!Kind
    BY <1>5 DEF A!SendCard, A!At, CardInv, CardKind, A!Kind, Busy
  <2> QED
    BY <1>2, <1>3, <1>5, <2>1 DEF A!SendCard, A!SendFails
<1>6. ASSUME NEW a \in Admin, A!SendComplaint(a) PROVE RoomInv'
  <2>1. complaint.server \in Server /\ "complaint" \in A!Kind
    BY <1>6 DEF A!SendComplaint, CardInv, A!Kind
  <2> QED
    BY <1>2, <1>3, <1>6, <2>1 DEF A!SendComplaint, A!SendFails
<1> QED
  BY <1>2, <1>4, <1>5, <1>6
  DEF Next, Call, Return, Check, Serve, Flap, Restart, vars, alertVars, A!ServerDown,
      A!ServerUp, A!UpdateDone, A!CardStep, A!NextAdmin, A!GetStatusMessage,
      A!SaveStatusMessage, A!ComplaintStep, A!StartComplaint, A!ComplaintDone, A!Restart

UpInv == \A s \in alerted : upSince[s] = 0

LEMMA UpStep == MonitorTypes /\ UpInv /\ [Next]_vars => UpInv'
<1> SUFFICES ASSUME MonitorTypes, UpInv, [Next]_vars PROVE UpInv'
  OBVIOUS
<1>1. ASSUME NEW s \in Server, CheckFails(s) \/ CheckPasses(s) PROVE UpInv'
  BY <1>1 DEF CheckFails, CheckPasses, MonitorTypes, UpInv
<1>2. CASE UNCHANGED <<alerted, upSince>>
  BY <1>2 DEF UpInv
<1>3. CASE MonitorRestart
  BY <1>3 DEF MonitorRestart, UpInv
<1> QED
  BY <1>1, <1>2, <1>3, MonitorMoves
  DEF StartRound, CallReturns, Elapse, Flap, GoesDown, ComesUp, srvState,
      monitorVars

-----------------------------------------------------------------------------
AlertsInv ==
    /\ IInv /\ MonitorInv /\ UpInv
    /\ StageInv /\ FaultsInv /\ RoomInv
    /\ ShownInv /\ GoneInv /\ OneInv

LEMMA AlertsInvAlways == Spec => []AlertsInv
<1> DEFINE Rest == UpInv /\ StageInv /\ FaultsInv /\ RoomInv /\ ShownInv /\ GoneInv /\ OneInv
<1>1. Init => Rest
  <2> SUFFICES ASSUME Init PROVE Rest
    OBVIOUS
  <2>1. /\ incident = {} /\ stored = [s \in Server |-> [a \in Admin |-> 0]]
        /\ chat = [a \in Admin |-> <<>>] /\ card = A!NoCard /\ faults = <<>>
        /\ alerted = {} /\ call = None
    BY DEF Init, A!Init, MonitorInit
  <2>2. card.at = "idle"
    BY <2>1 DEF A!NoCard
  <2>3. ASSUME NEW s \in Server, NEW a \in Admin
        PROVE  Cards(chat, s, a) = {} /\ Reds(chat, s, a) = {}
    <3>1. chat[a] = <<>>
      BY <2>1
    <3>2. \A i \in Nat : ~ CardIn(chat, s, a, i)
      BY <3>1 DEF CardIn
    <3> QED
      BY <3>2 DEF Cards, Reds
  <2>4. UpInv /\ StageInv /\ ShownInv
    BY <2>1, <2>2 DEF UpInv, StageInv, ShownInv, Shown
  <2>5. FaultsInv /\ RoomInv
    <3>1. Len(<<>>) = 0 /\ <<>> \in Seq(Faults) /\ MaxFaults \in Nat /\ MaxPosts \in Nat
      BY IncidentsAssumption
    <3> QED
      BY <2>1, <3>1 DEF FaultsInv, RoomInv
  <2>6. GoneInv
    BY <2>2, <2>3 DEF GoneInv, Gone, RedShown, Serving
  <2>7. ASSUME NEW s \in Server, NEW a \in Admin PROVE One(s, a)
    <3>1. Cardinality(Cards(chat, s, a)) = 0
      BY <2>3, FS_EmptySet
    <3>2. ~ RedDue(s, a) /\ ~ Pending(s, a)
      BY <2>1, <2>2, CallNone DEF RedDue, Pending
    <3>3. outages[s] = IF Unused(s) THEN 1 ELSE 0
      BY <2>1 DEF Init, Unused
    <3> QED
      BY <2>1, <3>1, <3>2, <3>3 DEF One
  <2>8. OneInv
    BY <2>1, <2>2, <2>7, CallNone DEF OneInv
  <2> QED
    BY <2>4, <2>5, <2>6, <2>8
<1>2. IInv /\ MonitorInv /\ Rest /\ [Next]_vars => Rest'
  <2> SUFFICES ASSUME IInv, MonitorInv, Rest, [Next]_vars PROVE Rest'
    OBVIOUS
  <2>1. SameInv /\ CardInv /\ MonitorTypes
    BY DEF IInv, MonitorInv
  <2> QED
    BY <2>1, StageStep, FaultsStep, ShownStep, GoneStep, OneStep, RoomStep, UpStep
<1> HIDE DEF Rest
<1>3. Spec => []Rest
  BY <1>1, <1>2, IInvAlways, MonitorInvAlways, PTL DEF Spec
<1>4. IInv /\ MonitorInv /\ Rest => AlertsInv
  BY DEF AlertsInv, Rest
<1> QED
  BY <1>3, <1>4, IInvAlways, MonitorInvAlways, PTL

\* The newest card of the model and of this module.
LEMMA CardsAre ==
    ASSUME CardInv, NEW s \in Server, NEW a \in Admin
    PROVE  /\ A!CardsOf(s, a) = Cards(chat, s, a)
           /\ A!NewestIs(s, a, "red") <=> RedShown(chat, s, a)
<1>1. chat[a] \in Seq(A!Post) /\ Len(chat[a]) \in Nat
  BY DEF CardInv
<1>2. \A i \in 1..Len(chat[a]) : chat[a][i].kind # "complaint" <=> chat[a][i].kind \in CardKind
  <2> SUFFICES ASSUME NEW i \in 1..Len(chat[a])
               PROVE  chat[a][i].kind # "complaint" <=> chat[a][i].kind \in CardKind
    OBVIOUS
  <2>1. chat[a][i] \in A!Post
    BY <1>1
  <2> QED
    BY <2>1 DEF A!Post, A!Kind, CardKind
<1>3. A!CardsOf(s, a) = Cards(chat, s, a)
  BY <1>1, <1>2 DEF A!CardsOf, Cards, CardIn
<1> QED
  BY <1>3 DEF A!NewestIs, RedShown, Reds, Newest

\* The newest card of every alerted server is red for every admin, if no message
\* failed to be sent: AlertShown.
THEOREM AlertsAreShown == Spec => []AlertShown
<1>1. AlertsInv => AlertShown
  <2> SUFFICES ASSUME AlertsInv, Quiet, A!Spared({"send"}),
                      NEW s \in alerted, NEW a \in Admin
               PROVE  A!NewestIs(s, a, "red")
    BY DEF AlertShown
  <2>1. s \in incident /\ card.at = "idle" /\ s \in Server /\ CardInv
    BY DEF AlertsInv, IInv, SameInv, Quiet, Busy, A!At, MonitorInv, MonitorTypes
  <2>2. Shown(s, a) /\ ~ Pending(s, a)
    BY <2>1, SparedIs DEF AlertsInv, ShownInv, Pending
  <2> QED
    BY <2>1, <2>2, CardsAre DEF Shown
<1> QED
  BY <1>1, AlertsInvAlways, PTL

\* The recovery of every server that is up is shown, unless the bot restarted, a
\* message could not be sent, or a row that was not saved met a card that could not
\* be read or edited: RecoveryShownWhileUp.
THEOREM RecoveriesAreShown == Spec => []RecoveryShownWhileUp
<1>1. AlertsInv => RecoveryShownWhileUp
  <2> SUFFICES ASSUME AlertsInv, Quiet,
                      \/ A!Spared({"send", "restart", "save"})
                      \/ A!Spared({"send", "restart", "get", "edit"}),
                      NEW s \in Server, NEW a \in Admin, upSince[s] # 0
               PROVE  ~ A!NewestIs(s, a, "red")
    BY DEF RecoveryShownWhileUp, RecoveryShown
  <2>1. s \notin incident /\ card.at = "idle" /\ CardInv
    BY DEF AlertsInv, IInv, SameInv, Quiet, Busy, A!At, UpInv
  <2>2. Gone(s, a) /\ ~ Pending(s, a)
    BY <2>1, SparedIs DEF AlertsInv, GoneInv, Fine, Pending
  <2> QED
    BY <2>1, <2>2, CardsAre DEF Gone
<1> QED
  BY <1>1, AlertsInvAlways, PTL

\* Without faults no admin gets more cards of a server than it had outages:
\* OneCardPerOutage.
THEOREM OutagesCostOneCard == Spec => []OneCardPerOutage
<1>1. AlertsInv => OneCardPerOutage
  <2> SUFFICES ASSUME AlertsInv, faults = <<>>, NEW s \in Server, NEW a \in Admin
               PROVE  Cardinality(A!CardsOf(s, a)) <= outages[s]
    BY DEF OneCardPerOutage
  <2>1. CardInv /\ One(s, a) /\ outages[s] \in Nat
    BY DEF AlertsInv, IInv, OneInv, MonitorInv, MonitorTypes
  <2>2. Cardinality(Cards(chat, s, a)) \in Nat
    BY <2>1, CardsCounted
  <2>3. Cardinality(Cards(chat, s, a)) <= outages[s]
    BY <2>1, <2>2 DEF One
  <2> QED
    BY <2>1, <2>3, CardsAre
<1> QED
  BY <1>1, AlertsInvAlways, PTL

\* The monitor and the alerts keep their types together: TypeOK.
THEOREM TypeCorrect == Spec => []TypeOK
<1>1. AlertsInv => TypeOK
  <2> SUFFICES ASSUME AlertsInv PROVE TypeOK
    OBVIOUS
  <2>1. SameInv /\ CardInv /\ MonitorTypes /\ FaultsInv /\ RoomInv
    BY DEF AlertsInv, IInv, MonitorInv
  <2>2. MonitorTypeOK
    <3>1. clock \in Time \ {0}
      BY <2>1, MonitorAssumption DEF MonitorTypes, Time
    <3>2. \A s \in Server : log[s] \in Seq([at : Time, ok : BOOLEAN])
      BY <2>1 DEF MonitorTypes, Logs
    <3> QED
      BY <2>1, <3>1, <3>2 DEF MonitorTypes, MonitorTypeOK, SameInv, Calls
  <2>3. A!TypeOK
    <3>1. \A a \in Admin : /\ chat[a] \in Seq(A!Post) /\ Len(chat[a]) \in Nat
                           /\ Len(chat[a]) <= MaxPosts
      BY <2>1 DEF CardInv, RoomInv
    <3>2. \A s \in Server, a \in Admin : stored[s][a] \in 0..Len(chat[a])
      BY <2>1, <3>1 DEF CardInv, CardIn
    <3>3. stored \in [Server -> [Admin -> 0..MaxPosts]]
      <4>1. MaxPosts \in Nat
        BY IncidentsAssumption
      <4>2. \A s \in Server, a \in Admin : stored[s][a] \in 0..MaxPosts
        BY <3>1, <3>2, <4>1
      <4> QED
        BY <2>1, <4>2 DEF CardInv
    <3>4. incident \subseteq Server
      <4>1. alerted \subseteq Server
        BY <2>1 DEF MonitorTypes
      <4>2. CASE Busy \/ call = None
        BY <2>1, <4>1, <4>2 DEF SameInv
      <4>3. CASE ~ Busy /\ call # None
        <5>1. PICK s \in Server : call = <<"down", s>> \/ call = <<"up", s>>
          BY <2>1, <4>3 DEF SameInv, Calls
        <5>2. CASE call = <<"down", s>>
          <6>1. alerted = incident \cup {s}
            BY <2>1, <4>3, <5>2 DEF SameInv
          <6> QED
            BY <4>1, <6>1
        <5>3. CASE call = <<"up", s>>
          <6>1. alerted = incident \ {s}
            BY <2>1, <4>3, <5>3 DEF SameInv
          <6> QED
            BY <4>1, <6>1
        <5> QED
          BY <5>1, <5>2, <5>3
      <4> QED
        BY <4>2, <4>3
    <3> QED
      BY <2>1, <3>1, <3>2, <3>3, <3>4 DEF A!TypeOK, FaultsInv, CardInv, CardIn, Busy, A!At, A!Card
  <2> QED
    BY <2>1, <2>2, <2>3 DEF TypeOK, MonitorTypes
<1> QED
  BY <1>1, AlertsInvAlways, PTL

-----------------------------------------------------------------------------
(* The monitor alone, for any servers, interval and threshold, and however  *)
(* slow its checks are                                                      *)

Checks == Seq([at : Nat, ok : BOOLEAN])

\* Check i starts the run of equal results that ends the log.
RunStarts(checks, i) ==
    /\ i \in 1..Len(checks)
    /\ \A j \in i..Len(checks) : checks[j].ok = checks[Len(checks)].ok
    /\ i = 1 \/ checks[i - 1].ok # checks[i].ok

LEMMA CheckRecord ==
    ASSUME NEW at \in Nat, NEW ok \in BOOLEAN
    PROVE  /\ [at |-> at, ok |-> ok] \in [at : Nat, ok : BOOLEAN]
           /\ [at |-> at, ok |-> ok].at = at
           /\ [at |-> at, ok |-> ok].ok = ok
OBVIOUS

LEMMA LastCheck ==
    ASSUME NEW checks \in Checks, checks # <<>>
    PROVE  LET last == checks[Len(checks)] IN last.at \in Nat /\ last.ok \in BOOLEAN
<1>1. Len(checks) \in 1..Len(checks)
  BY DEF Checks
<1> DEFINE Entry == [at : Nat, ok : BOOLEAN]
<1>2. checks \in Seq(Entry)
  BY DEF Checks
<1> HIDE DEF Entry
<1>3. checks[Len(checks)] \in Entry
  BY <1>1, <1>2
<1> QED
  BY <1>3 DEF Entry

LEMMA StartIsFirst ==
    ASSUME NEW checks \in Checks, NEW i, RunStarts(checks, i)
    PROVE  FirstOfRun(checks) = i
<1> DEFINE P(k) == /\ \A j \in k..Len(checks) : checks[j].ok = checks[Len(checks)].ok
                   /\ k = 1 \/ checks[k - 1].ok # checks[k].ok
<1>1. Len(checks) \in Nat
  BY DEF Checks
<1>2. ASSUME NEW k \in 1..Len(checks), P(k) PROVE k = i
  <2>1. CASE k < i
    <3>1. /\ i \in Nat /\ k \in Nat /\ i - 1 \in k..Len(checks) /\ i \in k..Len(checks)
          /\ i # 1
      BY <1>1, <1>2, <2>1 DEF RunStarts
    <3>2. checks[i - 1].ok = checks[i].ok
      BY <1>2, <3>1
    <3> QED
      BY <3>1, <3>2 DEF RunStarts
  <2>2. CASE i < k
    <3>1. /\ i \in Nat /\ k \in Nat /\ k - 1 \in i..Len(checks) /\ k \in i..Len(checks)
          /\ k # 1
      BY <1>1, <1>2, <2>2 DEF RunStarts
    <3>2. checks[k - 1].ok = checks[k].ok
      BY <3>1 DEF RunStarts
    <3> QED
      BY <1>2, <3>1, <3>2
  <2> QED
    BY <1>1, <1>2, <2>1, <2>2 DEF RunStarts
<1>3. i \in 1..Len(checks) /\ P(i)
  BY DEF RunStarts
<1> QED
  BY <1>2, <1>3 DEF FirstOfRun

\* A check that gives the result of the last one continues its run, and any other
\* starts a run.
LEMMA NextCheck ==
    ASSUME NEW checks \in Checks, NEW check \in [at : Nat, ok : BOOLEAN]
    PROVE  LET longer == Append(checks, check)
               n == Len(longer)
           IN /\ longer \in Checks /\ longer # <<>> /\ n \in Nat /\ n = Len(checks) + 1
              /\ longer[n] = check
              /\ \A i \in 1..Len(checks) : longer[i] = checks[i]
              /\ checks = <<>> => RunStarts(longer, n)
              /\ checks # <<>> /\ checks[Len(checks)].ok # check.ok => RunStarts(longer, n)
              /\ \A i : RunStarts(checks, i) /\ checks[Len(checks)].ok = check.ok
                            => RunStarts(longer, i)
<1> DEFINE longer == Append(checks, check)
           m == Len(checks)
<1>1. /\ longer \in Checks /\ m \in Nat /\ Len(longer) = m + 1
      /\ longer[m + 1] = check /\ \A i \in 1..m : longer[i] = checks[i]
      /\ checks = <<>> <=> m = 0
      /\ longer # <<>>
  BY DEF Checks
<1> HIDE DEF longer, m
<1>2. checks = <<>> => RunStarts(longer, m + 1)
  BY <1>1 DEF RunStarts
<1>3. checks # <<>> /\ checks[m].ok # check.ok => RunStarts(longer, m + 1)
  BY <1>1 DEF RunStarts
<1>4. ASSUME NEW i, RunStarts(checks, i), checks[m].ok = check.ok PROVE RunStarts(longer, i)
  <2>1. i \in Nat /\ 1 <= i /\ i <= m
    BY <1>1, <1>4 DEF RunStarts, m
  <2>2. \A j \in i..m : longer[j].ok = check.ok
    BY <1>1, <1>4, <2>1 DEF RunStarts, m
  <2>3. i = 1 \/ longer[i - 1].ok # longer[i].ok
    BY <1>1, <1>4, <2>1 DEF RunStarts
  <2> QED
    BY <1>1, <2>1, <2>2, <2>3 DEF RunStarts
<1> QED
  BY <1>1, <1>2, <1>3, <1>4 DEF longer, m

-----------------------------------------------------------------------------
\* What the monitor keeps of a server is the start of the run of results which
\* ends the log, the time of the last check and whether the threshold was over by
\* then.
ServerInv(s) ==
    /\ log[s] = <<>> => downSince[s] = 0 /\ upSince[s] = 0 /\ s \notin alerted
    /\ log[s] # <<>> =>
          LET last == log[s][Len(log[s])] IN
          /\ \E i : /\ RunStarts(log[s], i)
                    /\ ~ last.ok => /\ downSince[s] = log[s][i].at /\ downSince[s] # 0
                                    /\ upSince[s] = 0
                    /\ last.ok => /\ upSince[s] = log[s][i].at /\ upSince[s] # 0
                                  /\ downSince[s] = 0
          /\ lastCheck[s] = last.at /\ last.at <= clock
          /\ s \in alerted <=> ~ last.ok /\ last.at - downSince[s] >= Threshold

MonTypes ==
    /\ clock \in Nat \ {0}
    /\ reach \subseteq Server /\ alerted \subseteq Server /\ todo \subseteq Server
    /\ downSince \in [Server -> Nat]
    /\ upSince \in [Server -> Nat]
    /\ lastCheck \in [Server -> Nat]
    /\ log \in [Server -> Checks]

MInv == MonTypes /\ \A s \in Server : ServerInv(s)

LEMMA CheckKeeps ==
    ASSUME MInv, NEW s \in Server, CheckFails(s) \/ CheckPasses(s)
    PROVE  MInv'
<1> DEFINE check == [at |-> clock, ok |-> s \in reach]
           checks == log[s]
           longer == Append(checks, check)
           m == Len(checks)
<1>a. /\ clock \in Nat /\ clock # 0 /\ Threshold \in Nat /\ checks \in Checks
      /\ downSince[s] \in Nat /\ upSince[s] \in Nat
  BY MonitorAssumption DEF MInv, MonTypes
<1>b. /\ check \in [at : Nat, ok : BOOLEAN]
      /\ check.at = clock /\ (check.ok <=> s \in reach)
  <2> DEFINE ok == s \in reach
  <2>1. ok \in BOOLEAN
    OBVIOUS
  <2> HIDE DEF ok
  <2>2. /\ [at |-> clock, ok |-> ok] \in [at : Nat, ok : BOOLEAN]
        /\ [at |-> clock, ok |-> ok].at = clock /\ [at |-> clock, ok |-> ok].ok = ok
    BY <1>a, <2>1, CheckRecord
  <2>3. check = [at |-> clock, ok |-> ok]
    BY DEF ok
  <2> HIDE DEF check
  <2>4. check \in [at : Nat, ok : BOOLEAN] /\ check.at = clock /\ check.ok = ok
    BY <2>2, <2>3, Zenon
  <2> QED
    BY <2>4 DEF ok
<1>c. log' = [log EXCEPT ![s] = longer]
  BY DEF CheckFails, CheckPasses, Logged
<1>1. /\ clock \in Nat /\ clock # 0 /\ Threshold \in Nat
      /\ check \in [at : Nat, ok : BOOLEAN] /\ checks \in Checks
      /\ check.at = clock /\ (check.ok <=> s \in reach)
      /\ log' = [log EXCEPT ![s] = longer]
      /\ downSince[s] \in Nat /\ upSince[s] \in Nat
  BY <1>a, <1>b, <1>c
<1> HIDE DEF check, checks, m
<1>2. /\ longer \in Checks /\ longer # <<>> /\ Len(longer) = m + 1 /\ m \in Nat
      /\ longer[m + 1] = check
      /\ \A i \in 1..m : longer[i] = checks[i]
      /\ checks = <<>> => RunStarts(longer, m + 1)
      /\ checks # <<>> /\ checks[m].ok # check.ok => RunStarts(longer, m + 1)
      /\ \A i : RunStarts(checks, i) /\ checks[m].ok = check.ok => RunStarts(longer, i)
  <2>1. m \in Nat
    BY <1>1 DEF m, Checks
  <2> QED
    BY <1>1, <2>1, NextCheck DEF m, longer
<1> HIDE DEF longer
<1> USE DEF checks, m
<1>3. MonTypes'
  <2>1. log' \in [Server -> Checks] /\ UNCHANGED clock
    BY <1>1, <1>2 DEF MInv, MonTypes, CheckFails, CheckPasses
  <2>2. /\ reach' \subseteq Server /\ alerted' \subseteq Server /\ todo' \subseteq Server
        /\ lastCheck' \in [Server -> Nat]
    BY <1>1 DEF MInv, MonTypes, CheckFails, CheckPasses
  <2>3. downSince' \in [Server -> Nat] /\ upSince' \in [Server -> Nat]
    BY <1>1 DEF MInv, MonTypes, CheckFails, CheckPasses, FailingSince
  <2> QED
    BY <2>1, <2>2, <2>3 DEF MInv, MonTypes
<1>4. log'[s] = longer /\ UNCHANGED clock
  BY <1>1 DEF MInv, MonTypes, CheckFails, CheckPasses
<1>5. ASSUME NEW t \in Server \ {s} PROVE ServerInv(t)'
  <2>1. /\ log'[t] = log[t] /\ downSince'[t] = downSince[t] /\ upSince'[t] = upSince[t]
        /\ lastCheck'[t] = lastCheck[t] /\ (t \in alerted' <=> t \in alerted)
    BY <1>1, <1>5 DEF MInv, MonTypes, CheckFails, CheckPasses
  <2> QED
    BY <1>4, <1>5, <2>1 DEF MInv, ServerInv
<1>6. CASE CheckFails(s)
  <2>1. ~ check.ok
    BY <1>1, <1>6 DEF CheckFails
  <2>2. /\ upSince'[s] = 0 /\ lastCheck'[s] = clock
        /\ downSince'[s] = IF downSince[s] = 0 THEN clock ELSE downSince[s]
        /\ s \in alerted' <=> s \in alerted \/ clock - downSince'[s] >= Threshold
    BY <1>6 DEF MInv, MonTypes, CheckFails, FailingSince, AlertDue
  <2>3. \E i : RunStarts(longer, i) /\ longer[i].at = downSince'[s]
    <3>1. CASE downSince[s] # 0
      <4>1. checks # <<>> /\ ~ checks[m].ok
        BY <3>1 DEF MInv, ServerInv
      <4>2. PICK i : RunStarts(checks, i) /\ downSince[s] = checks[i].at
        BY <4>1 DEF MInv, ServerInv
      <4>3. RunStarts(longer, i) /\ i \in 1..m
        <5>1. checks[m].ok = check.ok
          BY <1>1, <2>1, <4>1, LastCheck
        <5> QED
          BY <1>2, <4>2, <5>1 DEF RunStarts
      <4> QED
        BY <1>2, <2>2, <3>1, <4>2, <4>3
    <3>2. CASE downSince[s] = 0
      <4>1. checks = <<>> \/ checks[m].ok
        BY <3>2 DEF MInv, ServerInv
      <4>2. RunStarts(longer, m + 1)
        BY <1>2, <2>1, <4>1
      <4> QED
        BY <1>1, <1>2, <2>2, <3>2, <4>2
    <3> QED
      BY <3>1, <3>2
  <2>4. downSince'[s] \in Nat /\ downSince'[s] # 0
    BY <1>1, <2>2
  <2>5. s \in alerted => clock - downSince'[s] >= Threshold
    <3> SUFFICES ASSUME s \in alerted PROVE clock - downSince'[s] >= Threshold
      OBVIOUS
    <3>1. /\ checks # <<>> /\ ~ checks[m].ok /\ checks[m].at <= clock
          /\ checks[m].at - downSince[s] >= Threshold /\ downSince[s] # 0
      BY DEF MInv, ServerInv
    <3>2. checks[m].at \in Nat
      BY <1>1, <3>1, LastCheck
    <3> QED
      BY <1>1, <2>2, <3>1, <3>2
  <2>6. ServerInv(s)'
    BY <1>1, <1>2, <1>4, <2>1, <2>2, <2>3, <2>4, <2>5 DEF ServerInv
  <2> QED
    BY <1>3, <1>5, <2>6 DEF MInv
<1>7. CASE CheckPasses(s)
  <2>1. check.ok
    BY <1>1, <1>7 DEF CheckPasses
  <2>2. /\ downSince'[s] = 0 /\ lastCheck'[s] = clock /\ s \notin alerted'
        /\ upSince'[s] = IF upSince[s] = 0 THEN clock ELSE upSince[s]
    BY <1>7 DEF MInv, MonTypes, CheckPasses
  <2>3. \E i : RunStarts(longer, i) /\ longer[i].at = upSince'[s]
    <3>1. CASE upSince[s] # 0
      <4>1. checks # <<>> /\ checks[m].ok
        BY <3>1 DEF MInv, ServerInv
      <4>2. PICK i : RunStarts(checks, i) /\ upSince[s] = checks[i].at
        BY <4>1 DEF MInv, ServerInv
      <4>3. checks[m].ok = check.ok
        BY <1>1, <2>1, <4>1, LastCheck
      <4>4. RunStarts(longer, i) /\ i \in 1..m
        BY <1>2, <4>2, <4>3 DEF RunStarts
      <4> QED
        BY <1>2, <2>2, <3>1, <4>2, <4>4
    <3>2. CASE upSince[s] = 0
      <4>1. checks = <<>> \/ ~ checks[m].ok
        BY <3>2 DEF MInv, ServerInv
      <4>2. RunStarts(longer, m + 1)
        BY <1>2, <2>1, <4>1
      <4> QED
        BY <1>1, <1>2, <2>2, <3>2, <4>2
    <3> QED
      BY <3>1, <3>2
  <2>4. upSince'[s] \in Nat /\ upSince'[s] # 0
    BY <1>1, <2>2
  <2>5. ServerInv(s)'
    BY <1>1, <1>2, <1>4, <2>1, <2>2, <2>3, <2>4 DEF ServerInv
  <2> QED
    BY <1>3, <1>5, <2>5 DEF MInv
<1> QED
  BY <1>6, <1>7

LEMMA MInvAlways == MonitorSpec => []MInv
<1>1. MonitorInit => MInv
  BY DEF MonitorInit, MInv, MonTypes, ServerInv, Never, Checks
<1>2. MInv /\ [MonitorNext]_monitorVars => MInv'
  <2> SUFFICES ASSUME MInv, [MonitorNext]_monitorVars PROVE MInv'
    OBVIOUS
  <2>1. CASE /\ UNCHANGED <<srvState, log>> /\ todo' \subseteq Server
             /\ reach' \subseteq Server /\ clock' \in {clock, clock + 1}
    <3>1. MonTypes'
      BY <2>1 DEF MInv, MonTypes, srvState
    <3>2. ASSUME NEW s \in Server PROVE ServerInv(s)'
      <4>1. log[s] # <<>> => log[s][Len(log[s])].at \in Nat
        BY LastCheck DEF MInv, MonTypes
      <4> QED
        BY <2>1, <4>1 DEF MInv, MonTypes, ServerInv, srvState
    <3> QED
      BY <3>1, <3>2 DEF MInv
  <2>2. CASE MonitorRestart
    BY <2>2 DEF MonitorRestart, MInv, MonTypes, ServerInv, Never, Checks
  <2>3. CASE StartRound \/ CallReturns \/ World \/ UNCHANGED monitorVars
    <3>1. /\ UNCHANGED <<srvState, log>> /\ todo' \subseteq Server
          /\ reach' \subseteq Server /\ clock' \in {clock, clock + 1}
      BY <2>3 DEF StartRound, CallReturns, World, Elapse, GoesDown, ComesUp,
                  monitorVars, srvState, MInv, MonTypes
    <3> QED
      BY <2>1, <3>1
  <2> QED
    BY <2>2, <2>3, CheckKeeps DEF MonitorNext, MonitorStep
<1> QED
  BY <1>1, <1>2, PTL DEF MonitorSpec

\* A server is alerted exactly when it has failed all its checks for the
\* threshold, whatever came before: AlertedIffFailing.
THEOREM AlertsAreJust == MonitorSpec => []AlertedIffFailing
<1>1. MInv => AlertedIffFailing
  <2> SUFFICES ASSUME MInv, NEW s \in Server, log[s] # <<>>
               PROVE  s \in alerted <=>
                         /\ ~ log[s][Len(log[s])].ok
                         /\ RunLength(log[s]) >= Threshold
    BY DEF AlertedIffFailing, MInv, ServerInv
  <2>1. PICK i : /\ RunStarts(log[s], i)
                 /\ ~ log[s][Len(log[s])].ok => downSince[s] = log[s][i].at
    BY DEF MInv, ServerInv
  <2>2. FirstOfRun(log[s]) = i
    BY <2>1, StartIsFirst DEF MInv, MonTypes
  <2> QED
    BY <2>1, <2>2 DEF MInv, ServerInv, RunLength
<1> QED
  BY <1>1, MInvAlways, PTL

\* What the administrator is shown of a server is the result of its last check,
\* and the time is that of the check which first gave it: SnapshotHonest.
THEOREM SnapshotIsHonest == MonitorSpec => []SnapshotHonest
<1>1. MInv => SnapshotHonest
  <2> SUFFICES ASSUME MInv, NEW s \in Server, log[s] # <<>>
               PROVE  /\ Down(s) <=> ~ log[s][Len(log[s])].ok
                      /\ Since(s) = log[s][FirstOfRun(log[s])].at
                      /\ lastCheck[s] = log[s][Len(log[s])].at
    BY DEF SnapshotHonest
  <2>1. PICK i : LET ok == log[s][Len(log[s])].ok IN
                 /\ RunStarts(log[s], i)
                 /\ ~ ok => downSince[s] = log[s][i].at /\ downSince[s] # 0
                 /\ ok => upSince[s] = log[s][i].at /\ downSince[s] = 0
    BY DEF MInv, ServerInv
  <2>2. FirstOfRun(log[s]) = i
    BY <2>1, StartIsFirst DEF MInv, MonTypes
  <2>3. log[s][Len(log[s])].ok \in BOOLEAN /\ lastCheck[s] = log[s][Len(log[s])].at
    BY LastCheck DEF MInv, MonTypes, ServerInv
  <2> QED
    BY <2>1, <2>2, <2>3 DEF Down, Since
<1> QED
  BY <1>1, MInvAlways, PTL

\* Put together, the two goroutines' calls restrict each component and add nothing
\* to it: what is said of the monitor alone and of the alerts alone stays true.
THEOREM ComponentsKept == Spec => MonitorSpec /\ A!Spec
<1>1. Init => MonitorInit /\ A!Init
  BY DEF Init
<1>2. [Next]_vars => [MonitorNext]_monitorVars
  <2> SUFFICES ASSUME [Next]_vars PROVE MonitorNext \/ UNCHANGED monitorVars
    OBVIOUS
  <2>1. ASSUME NEW s \in Server, Flap(s) PROVE MonitorNext
    BY <2>1 DEF Flap, MonitorNext, World
  <2>2. CASE UNCHANGED monitorVars
    BY <2>2 DEF monitorVars
  <2> QED
    BY <2>1, <2>2, MonitorMoves DEF MonitorNext, World, MonitorStep
<1>3. [Next]_vars => [A!Next]_(A!alertVars)
  <2> SUFFICES ASSUME [Next]_vars PROVE A!Next \/ UNCHANGED A!alertVars
    OBVIOUS
  <2>1. CASE Call
    BY <2>1 DEF Call, A!Next
  <2>2. CASE Return
    BY <2>2 DEF Return, A!Next
  <2>3. CASE Serve
    BY <2>3 DEF Serve, A!Next
  <2>4. CASE Restart
    BY <2>4 DEF Restart, A!Next
  <2>5. CASE UNCHANGED alertVars
    BY <2>5 DEF alertVars, A!alertVars
  <2>6. CASE Check \/ (\E s \in Server : Flap(s)) \/ UNCHANGED vars
    BY <2>5, <2>6 DEF Check, Flap, vars
  <2> QED
    BY <2>1, <2>2, <2>3, <2>4, <2>6 DEF Next
<1> QED
  BY <1>1, <1>2, <1>3, PTL DEF Spec, MonitorSpec, A!Spec
=============================================================================
