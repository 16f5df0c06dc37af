------------------------------- MODULE Dialog -------------------------------
(***************************************************************************)
(* The dialogs of the bot (internal/tgbot): questions the bot asks with a  *)
(* button, the state in which it waits for the answer (state.go), and the  *)
(* handlers an answer goes to.  Updates of all users are handled one at a  *)
(* time, each to its end; what the service does with a request is the      *)
(* subject of PeerLifecycle and one effect here.  The states are lost on a *)
(* restart, the buttons under old messages are not.                        *)
(*                                                                         *)
(* A text is the id of a user, a username, Empty (a photo, a sticker) or   *)
(* Bad (several words).  A number is an id where an id is asked for, and a *)
(* limit where a limit is.                                                 *)
(***************************************************************************)
EXTENDS Integers

CONSTANTS
    User,     \* Telegram users, and the numbers that are their ids
    Admin,    \* the users of ADMIN_IDS
    Name,     \* usernames
    Owner,    \* Owner[name]: the known user of that name, or None
    TTL,      \* stateTTL
    MaxTime,  \* bound: readings of the clock
    Empty, Bad, None

ASSUME DialogAssumption ==
    /\ Admin \subseteq User
    /\ Owner \in [Name -> User \cup {None}]
    /\ TTL \in Nat
    /\ MaxTime \in Nat

VARIABLES
    clock,
    states,   \* states.m: what the bot waits for, per user
    enabled,  \* users with an enabled account
    buttons,  \* confirmation buttons under messages of the bot
    asked,    \* history: the last question each user was asked, if unanswered
    did       \* history: the effect of the last step

vars == <<clock, states, enabled, buttons, asked, did>>

Text == User \cup Name \cup {Empty, Bad}

UserQuestion == {"deviceName", "complaint"}
AdminQuestion == {"addUser", "disableUser", "limitUser"}
Question == UserQuestion \cup AdminQuestion \cup {"limitValue"}

State == [kind : Question \cup {"none"}, expires : Nat, target : User \cup {None}]
NoState == [kind |-> "none", expires |-> 0, target |-> None]

NotAsked == [kind |-> "none", at |-> 0, again |-> FALSE]

Nothing == [op |-> "nothing", by |-> None, to |-> "none"]

TypeOK ==
    /\ clock \in 0..MaxTime
    /\ states \in [User -> State]
    /\ \A u \in User : states[u].expires <= clock + TTL
    /\ \A u \in User : (states[u].target # None) <=> (states[u].kind = "limitValue")
    /\ enabled \subseteq User
    /\ buttons \subseteq [op : {"add", "disable"}, id : User]
    /\ asked \in [User -> [kind : Question \cup {"none"}, at : Nat, again : BOOLEAN]]
    /\ did \in [op : {"nothing", "create", "complaint", "invite", "confirm",
                      "add", "disable", "limit", "sentBack"},
                by : User \cup {None}, to : Question \cup {"none"}]

Init ==
    /\ clock = 0
    /\ states = [u \in User |-> NoState]
    /\ enabled \in SUBSET User
    /\ buttons = {}
    /\ asked = [u \in User |-> NotAsked]
    /\ did = Nothing

-----------------------------------------------------------------------------
(* state.go                                                                *)

\* Mutant: a state never expires.
LiveForever(u) == states[u]

\* live: a state is deleted once it is read after its time.
Live(u) == IF clock > states[u].expires THEN NoState ELSE states[u]

\* target: whose limit is asked for; None (id 0) when nothing is waited for.
Target(u) == Live(u).target

Clear(u) == states' = [states EXCEPT ![u] = NoState]

\* Mutant: a question without a target keeps the target of the one before.
SetKind(u, kind, target) ==
    states' = [states EXCEPT ![u].kind = kind, ![u].expires = clock + TTL,
                             ![u].target = IF target = None THEN @ ELSE target]

SetTarget(u, kind, target) ==
    states' = [states EXCEPT ![u] =
                  [kind |-> kind, expires |-> clock + TTL, target |-> target]]

-----------------------------------------------------------------------------
(* What the bot says and does                                              *)

\* A question is sent to the user; "again" when the answer was no good.
Ask(u, kind, again) ==
    asked' = [asked EXCEPT ![u] = [kind |-> kind, at |-> clock, again |-> again]]

\* The user has moved on, or is told something that is no question.
Drop(u) == asked' = [asked EXCEPT ![u] = NotAsked]

\* The effect of an answer to a question.
Does(u, op, question) == did' = [op |-> op, by |-> u, to |-> question]

\* An effect of a command or of a button.
Orders(u, op) == Does(u, op, "none")

UserAllowed(u) == u \in Admin \cup enabled

AdminOnly(u) == u \in Admin

-----------------------------------------------------------------------------
(* Buttons and commands                                                    *)

MayAsk(u, question) ==
    IF question \in AdminQuestion THEN AdminOnly(u) ELSE UserAllowed(u)

\* Mutant: the state is cleared after the button is handled.
ButtonClearsLate(u, question) ==
    /\ Clear(u)
    /\ IF MayAsk(u, question) THEN Ask(u, question, FALSE) ELSE Drop(u)
    /\ did' = Nothing
    /\ UNCHANGED <<clock, enabled, buttons>>

\* A button of the keyboard that asks a question, or is refused.
Button(u, question) ==
    /\ \/ /\ MayAsk(u, question)
          /\ SetTarget(u, question, None)
          /\ Ask(u, question, FALSE)
       \/ /\ ~ MayAsk(u, question)
          /\ Clear(u)
          /\ Drop(u)
    /\ did' = Nothing
    /\ UNCHANGED <<clock, enabled, buttons>>

\* A button of the keyboard that shows something.
ButtonShows(u) ==
    /\ Clear(u)
    /\ Drop(u)
    /\ did' = Nothing
    /\ UNCHANGED <<clock, enabled, buttons>>

\* "Create" under an empty list of devices.
InlineCreate(u) ==
    /\ UserAllowed(u)
    /\ SetTarget(u, "deviceName", None)
    /\ Ask(u, "deviceName", FALSE)
    /\ did' = Nothing
    /\ UNCHANGED <<clock, enabled, buttons>>

\* Disabling a user who has no account is refused: an order without effect.
Effect(u, op, id) ==
    /\ enabled' = CASE op = "add" -> enabled \cup {id}
                    [] op = "disable" -> enabled \ {id}
                    [] OTHER -> enabled
    /\ Orders(u, op)

\* Mutant: the press of a confirmation is not checked.
PressUnchecked(u, button) ==
    /\ button \in buttons
    /\ Effect(u, button.op, button.id)
    /\ UNCHANGED <<clock, states, buttons, asked>>

\* A confirmation may be pressed by whoever sees it, and again.
Press(u, button) ==
    /\ button \in buttons
    /\ AdminOnly(u)
    /\ Effect(u, button.op, button.id)
    /\ UNCHANGED <<clock, states, buttons, asked>>

\* /adduser, /disableuser, /setlimit: a command leaves the dialog alone.
Command(u, op, id) ==
    /\ AdminOnly(u)
    /\ Effect(u, op, id)
    /\ UNCHANGED <<clock, states, buttons, asked>>

-----------------------------------------------------------------------------
(* Answers                                                                 *)

Waits(u, question) == Live(u).kind = question

\* CreateConfig, which checks the name and the account: one word, a username or
\* a number, is a valid device name.
AnswerDeviceName(u, text) ==
    /\ Waits(u, "deviceName")
    /\ Clear(u)
    /\ Drop(u)
    /\ LET accepted == text \in Name \cup User /\ u \in enabled IN
       \/ accepted /\ Does(u, "create", "deviceName")
       \/ ~ accepted /\ did' = Nothing
    /\ UNCHANGED <<clock, enabled, buttons>>

\* An empty complaint is asked for again, but the state is gone.
AnswerComplaint(u, text) ==
    /\ Waits(u, "complaint")
    /\ Clear(u)
    /\ \/ text = Empty /\ Ask(u, "complaint", TRUE) /\ did' = Nothing
       \/ text # Empty /\ Drop(u) /\ Does(u, "complaint", "complaint")
    /\ UNCHANGED <<clock, enabled, buttons>>

\* The user a text names: by id, known or not, or by the name of a known user.
Named(text) ==
    IF text \in User THEN text ELSE IF text \in Name THEN Owner[text] ELSE None

Confirm(u, purpose, id) ==
    /\ buttons' = buttons \cup {[op |-> purpose, id |-> id]}
    /\ Clear(u)
    /\ Drop(u)

\* adminResolveUser for "add" and "disable": the user is shown with a button; a
\* name nobody is known by gets an invite, when a user is to be added; a text
\* that is no name is asked for again, but the state is gone.
AnswerUser(u, text, question, purpose) ==
    /\ Waits(u, question)
    /\ \/ /\ Named(text) # None
          /\ Confirm(u, purpose, Named(text))
          /\ Does(u, "confirm", question)
       \/ /\ Named(text) = None /\ text \in Name
          /\ Clear(u) /\ Drop(u)
          /\ IF purpose = "add" THEN Does(u, "invite", question) ELSE did' = Nothing
          /\ UNCHANGED buttons
       \/ /\ text \in {Empty, Bad}
          /\ Clear(u) /\ Ask(u, question, TRUE)
          /\ did' = Nothing
          /\ UNCHANGED buttons
    /\ UNCHANGED <<clock, enabled>>

\* adminResolveUser for "limit": the limit of the user is asked for next.
AnswerLimitUser(u, text) ==
    /\ Waits(u, "limitUser")
    /\ \/ /\ Named(text) # None
          /\ SetTarget(u, "limitValue", Named(text))
          /\ Ask(u, "limitValue", FALSE)
       \/ /\ Named(text) = None /\ text \in Name
          /\ Clear(u) /\ Drop(u)
       \/ /\ text \in {Empty, Bad}
          /\ Clear(u) /\ Ask(u, "limitUser", TRUE)
    /\ did' = Nothing
    /\ UNCHANGED <<clock, enabled, buttons>>

\* adminLimitValue reads the target once its caller has cleared the state: an
\* admin without a target is sent back to the button, a text that is no number
\* is refused, and a number is the new limit.
AnswerLimitValue(u, text) ==
    /\ Waits(u, "limitValue")
    /\ Clear(u)
    /\ Drop(u)
    /\ UNCHANGED <<clock, enabled, buttons>>
    /\ IF Target(u)' = None THEN Does(u, "sentBack", "limitValue")
       ELSE IF text \in User THEN Does(u, "limit", "limitValue")
       ELSE did' = Nothing

\* "I did not understand": nothing is waited for, or not any more.
Fallback(u) ==
    /\ Waits(u, "none")
    /\ Clear(u)
    /\ Drop(u)
    /\ did' = Nothing
    /\ UNCHANGED <<clock, enabled, buttons>>

Answer(u, text) ==
    \/ AnswerDeviceName(u, text)
    \/ AnswerComplaint(u, text)
    \/ AnswerUser(u, text, "addUser", "add")
    \/ AnswerUser(u, text, "disableUser", "disable")
    \/ AnswerLimitUser(u, text)
    \/ AnswerLimitValue(u, text)

-----------------------------------------------------------------------------
Elapse ==
    /\ clock < MaxTime
    /\ clock' = clock + 1
    /\ did' = Nothing
    /\ UNCHANGED <<states, enabled, buttons, asked>>

\* What was asked before a restart is forgotten, by the bot and by the history.
Restart ==
    /\ states' = [u \in User |-> NoState]
    /\ asked' = [u \in User |-> NotAsked]
    /\ did' = Nothing
    /\ UNCHANGED <<clock, enabled, buttons>>

Next ==
    \/ \E u \in User :
        \/ \E q \in UserQuestion \cup AdminQuestion : Button(u, q)
        \/ ButtonShows(u) \/ InlineCreate(u)
        \/ \E b \in buttons : Press(u, b)
        \/ \E op \in {"add", "disable", "limit"}, id \in User : Command(u, op, id)
        \/ \E text \in Text : Answer(u, text)
        \/ Fallback(u)
    \/ Elapse \/ Restart

Spec == Init /\ [][Next]_vars

-----------------------------------------------------------------------------
(* Properties                                                              *)

\* A text has an effect only as the answer to the last question its author was
\* asked, no more than stateTTL ago, after which the author has sent no other
\* text and pressed no button of the keyboard.
AnswersQuestion ==
    [][did'.to # "none" => LET q == asked[did'.by] IN
          /\ q.kind = did'.to /\ ~ q.again
          /\ clock - q.at <= TTL]_vars

\* Users are added, disabled, invited and given limits by administrators only,
\* along every path: commands, dialogs, and confirmations anyone may press.
OnlyAdminsRule ==
    did.op \in {"invite", "confirm", "add", "disable", "limit"} => did.by \in Admin

\* While a question is open, and was not one asked again, the bot waits for the
\* answer to that question and no other.
Open(u) == asked[u].kind # "none" /\ clock - asked[u].at <= TTL

FirstQuestionHeard ==
    \A u \in User : Open(u) /\ ~ asked[u].again => Waits(u, asked[u].kind)

\* A number sent in answer to "enter the new limit" sets the limit.
LimitSet ==
    [][\A u \in User, x \in User : AnswerLimitValue(u, x) => did'.op = "limit"]_vars
=============================================================================
