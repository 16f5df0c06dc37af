------------------------------- MODULE Alerts -------------------------------
(***************************************************************************)
(* The status cards of the administrators (internal/alerts/alerts.go).     *)
(* For each server and admin the database holds the message that is the    *)
(* current card; a card is sent, edited and stored in separate calls, and  *)
(* any of them may fail.  ServerDown and ServerUp are called by the        *)
(* monitor's goroutine and run one at a time; Complaint is called by the   *)
(* update loop and runs beside them.  downSince is lost on a restart, the  *)
(* database and the chats are not.                                         *)
(***************************************************************************)
EXTENDS Integers, Sequences

CONSTANTS
    Server,     \* servers
    Admin,      \* ADMIN_IDS; the chat of an admin has the same id
    Faults,     \* kinds of faults: "get", "edit", "send", "save", "restart"
    MaxFaults,  \* bound: faults in one behaviour
    MaxPosts,   \* bound: messages in one chat
    None        \* no server, no admin

VARIABLES
    incident,   \* downSince: servers with an incident, as the manager knows
    stored,     \* server_status_messages: message of the card, 0 without a row
    chat,       \* messages of each chat; an id is a place in the sequence
    card,       \* updateCards in progress
    complaint,  \* Complaint in progress: its server, and the admins left
    faults      \* kinds of the faults so far

alertVars == <<incident, stored, chat, card, complaint, faults>>

Kind == {"red", "green", "complaint"}
Post == [server : Server, kind : Kind]

\* One update of the cards of a server: the text made at its start, the admins
\* left, the admin being served and, once sent, the message to store.
Card == [at : {"idle", "next", "get", "edit", "send", "save"},
         server : Server \cup {None}, text : Kind, force : BOOLEAN,
         todo : SUBSET Admin, admin : Admin \cup {None}, id : Nat]

NoCard == [at |-> "idle", server |-> None, text |-> "green", force |-> FALSE,
           todo |-> {}, admin |-> None, id |-> 0]

\* A complaint on its way: the admins left.
NoComplaint == [server |-> None, todo |-> {}]

At(stage) == card.at = stage

Goto(stage) == card' = [card EXCEPT !.at = stage]

TypeOK ==
    /\ incident \subseteq Server
    /\ stored \in [Server -> [Admin -> 0..MaxPosts]]
    /\ \A a \in Admin : chat[a] \in Seq(Post) /\ Len(chat[a]) <= MaxPosts
    /\ card \in Card
    /\ complaint \in [server : Server \cup {None}, todo : SUBSET Admin]
    /\ faults \in Seq(Faults)
    /\ \A s \in Server, a \in Admin : stored[s][a] <= Len(chat[a])
    /\ ~ At("idle") => card.server \in Server
    /\ ~ At("idle") /\ ~ At("next") => card.admin \in Admin
    /\ At("edit") \/ At("save") => card.id \in 1..Len(chat[card.admin])

Init ==
    /\ incident = {}
    /\ stored = [s \in Server |-> [a \in Admin |-> 0]]
    /\ chat = [a \in Admin |-> <<>>]
    /\ card = NoCard
    /\ complaint = NoComplaint
    /\ faults = <<>>

-----------------------------------------------------------------------------
(* Helpers                                                                 *)

Fault(kind) ==
    /\ kind \in Faults
    /\ Len(faults) < MaxFaults
    /\ faults' = Append(faults, kind)

\* No fault of these kinds has happened.
Spared(kinds) == \A i \in 1..Len(faults) : faults[i] \notin kinds

\* The sender: a message is added to the chat, if the bound leaves room.
Sent(a, s, kind) ==
    /\ Len(chat[a]) < MaxPosts
    /\ chat' = [chat EXCEPT ![a] = Append(@, [server |-> s, kind |-> kind])]

\* A call that fails may have delivered its message all the same.
SendFails(a, s, kind) ==
    /\ Fault("send")
    /\ Sent(a, s, kind) \/ UNCHANGED chat

-----------------------------------------------------------------------------
(* ServerDown, ServerUp, updateCards                                       *)

StartUpdate(s, text, force) ==
    card' = [at |-> "next", server |-> s, text |-> text, force |-> force,
             todo |-> Admin, admin |-> None, id |-> 0]

\* Mutant: a new incident edits the card of the last one.
ServerDownEdits(s) ==
    /\ At("idle")
    /\ incident' = incident \cup {s}
    /\ StartUpdate(s, "red", FALSE)
    /\ UNCHANGED <<stored, chat, complaint, faults>>

\* Mutant: the card is made before the incident is recorded.
ServerDownStaleText(s) ==
    /\ At("idle")
    /\ incident' = incident \cup {s}
    /\ StartUpdate(s, IF s \in incident THEN "red" ELSE "green", s \notin incident)
    /\ UNCHANGED <<stored, chat, complaint, faults>>

\* The first call of an incident forces new messages.
ServerDown(s) ==
    /\ At("idle")
    /\ incident' = incident \cup {s}
    /\ StartUpdate(s, "red", s \notin incident)
    /\ UNCHANGED <<stored, chat, complaint, faults>>

\* Mutant: the incident is not deleted.
ServerUpKeepsIncident(s) ==
    /\ At("idle")
    /\ StartUpdate(s, "green", FALSE)
    /\ UNCHANGED <<incident, stored, chat, complaint, faults>>

\* Mutant: the recovery has a message of its own.
ServerUpSendsNew(s) ==
    /\ At("idle")
    /\ incident' = incident \ {s}
    /\ StartUpdate(s, "green", TRUE)
    /\ UNCHANGED <<stored, chat, complaint, faults>>

ServerUp(s) ==
    /\ At("idle")
    /\ incident' = incident \ {s}
    /\ StartUpdate(s, "green", FALSE)
    /\ UNCHANGED <<stored, chat, complaint, faults>>

NextAdmin(a) ==
    /\ At("next")
    /\ a \in card.todo
    /\ card' = [card EXCEPT !.at = IF card.force THEN "send" ELSE "get",
                            !.todo = @ \ {a}, !.admin = a, !.id = 0]
    /\ UNCHANGED <<incident, stored, chat, complaint, faults>>

\* Mutant: a missing row is taken for a row.
GetStatusMessageNoRow ==
    /\ At("get")
    /\ \/ /\ card' = [card EXCEPT !.at = "edit", !.id = stored[card.server][card.admin]]
          /\ UNCHANGED faults
       \/ /\ Fault("get")
          /\ Goto("send")
    /\ UNCHANGED <<incident, stored, chat, complaint>>

\* A row, no row, or an error: only a row leads to an edit.
GetStatusMessage ==
    /\ At("get")
    /\ \/ /\ stored[card.server][card.admin] # 0
          /\ card' = [card EXCEPT !.at = "edit", !.id = stored[card.server][card.admin]]
          /\ UNCHANGED faults
       \/ /\ stored[card.server][card.admin] = 0
          /\ Goto("send")
          /\ UNCHANGED faults
       \/ /\ Fault("get")
          /\ Goto("send")
    /\ UNCHANGED <<incident, stored, chat, complaint>>

\* Mutant: an edit that fails is only logged.
EditGivesUp ==
    /\ At("edit")
    /\ \/ chat' = [chat EXCEPT ![card.admin][card.id].kind = card.text] /\ UNCHANGED faults
       \/ Fault("edit") /\ UNCHANGED chat
    /\ Goto("next")
    /\ UNCHANGED <<incident, stored, complaint>>

\* Telegram refuses to edit a message into the text it already has; an edit that
\* fails otherwise may have been made all the same.
EditMessage ==
    LET old == chat[card.admin][card.id].kind IN
    /\ At("edit")
    /\ \/ /\ old # card.text
          /\ chat' = [chat EXCEPT ![card.admin][card.id].kind = card.text]
          /\ \/ Goto("next") /\ UNCHANGED faults
             \/ Goto("send") /\ Fault("edit")
       \/ /\ (old = card.text /\ UNCHANGED faults) \/ Fault("edit")
          /\ Goto("send")
          /\ UNCHANGED chat
    /\ UNCHANGED <<incident, stored, complaint>>

\* A message that cannot be sent is only logged.
SendCard ==
    /\ At("send")
    /\ \/ /\ Sent(card.admin, card.server, card.text)
          /\ card' = [card EXCEPT !.at = "save", !.id = Len(chat[card.admin]) + 1]
          /\ UNCHANGED faults
       \/ /\ SendFails(card.admin, card.server, card.text)
          /\ Goto("next")
    /\ UNCHANGED <<incident, stored, complaint>>

\* Mutant: the newest message of the chat, not the one that was sent.
SaveNewest ==
    /\ At("save")
    /\ stored' = [stored EXCEPT ![card.server][card.admin] = Len(chat[card.admin])]
    /\ Goto("next")
    /\ UNCHANGED <<incident, chat, complaint, faults>>

\* A row that cannot be saved is only logged; it may have been committed.
SaveStatusMessage ==
    /\ At("save")
    /\ \/ /\ stored' = [stored EXCEPT ![card.server][card.admin] = card.id]
          /\ UNCHANGED faults \/ Fault("save")
       \/ UNCHANGED stored /\ Fault("save")
    /\ Goto("next")
    /\ UNCHANGED <<incident, chat, complaint>>

\* updateCards returns to the monitor.
UpdateDone ==
    /\ At("next")
    /\ card.todo = {}
    /\ card' = NoCard
    /\ UNCHANGED <<incident, stored, chat, complaint, faults>>

-----------------------------------------------------------------------------
(* Complaint                                                               *)

StartComplaint(s) ==
    /\ complaint = NoComplaint
    /\ complaint' = [server |-> s, todo |-> Admin]
    /\ UNCHANGED <<incident, stored, chat, card, faults>>

\* A message of its own for every admin; one that cannot be sent is only logged.
SendComplaint(a) ==
    /\ a \in complaint.todo
    /\ \/ Sent(a, complaint.server, "complaint") /\ UNCHANGED faults
       \/ SendFails(a, complaint.server, "complaint")
    /\ complaint' = [complaint EXCEPT !.todo = @ \ {a}]
    /\ UNCHANGED <<incident, stored, card>>

\* Complaint returns, and the author is told that the admins are notified.
ComplaintDone ==
    /\ complaint # NoComplaint /\ complaint.todo = {}
    /\ complaint' = NoComplaint
    /\ UNCHANGED <<incident, stored, chat, card, faults>>

-----------------------------------------------------------------------------
Restart ==
    /\ Fault("restart")
    /\ incident' = {}
    /\ card' = NoCard
    /\ complaint' = NoComplaint
    /\ UNCHANGED <<stored, chat>>

CardStep ==
    \/ \E a \in Admin : NextAdmin(a)
    \/ GetStatusMessage \/ EditMessage \/ SendCard \/ SaveStatusMessage

ComplaintStep ==
    \/ \E s \in Server : StartComplaint(s)
    \/ \E a \in Admin : SendComplaint(a)
    \/ ComplaintDone

Next ==
    \/ \E s \in Server : ServerDown(s) \/ ServerUp(s)
    \/ CardStep \/ UpdateDone
    \/ ComplaintStep
    \/ Restart

Spec == Init /\ [][Next]_alertVars

-----------------------------------------------------------------------------
(* Properties                                                              *)

\* The messages of a chat that are cards of a server.
CardsOf(s, a) ==
    {i \in 1..Len(chat[a]) : chat[a][i].server = s /\ chat[a][i].kind # "complaint"}

\* A stored message is a card of its server: complaints sent meanwhile by the
\* update loop never take its place, so no complaint is ever overwritten.
StoredIsCard ==
    \A s \in Server, a \in Admin : stored[s][a] # 0 => stored[s][a] \in CardsOf(s, a)

\* The newest card of a server in the chat of an admin is of this kind.
NewestIs(s, a, kind) ==
    LET cards == CardsOf(s, a) IN
    \E i \in cards : chat[a][i].kind = kind /\ \A j \in cards : j <= i
=============================================================================
