---------------------------- MODULE Dialog_proofs ----------------------------
(***************************************************************************)
(* What the dialogs promise, for any users, admins, names and time limit.  *)
(***************************************************************************)
EXTENDS Dialog, TLAPS

Kind == Question \cup {"none"}
Effects == {"nothing", "create", "complaint", "invite", "confirm", "add", "disable", "limit",
            "sentBack"}
OfAdmins == {"addUser", "disableUser", "limitUser", "limitValue"}
Ordered == {"invite", "confirm", "add", "disable", "limit"}

\* What the bot waits for is what the user was asked last, at the same time, by
\* whoever may be asked it; and what was asked, once, it waits for.
UserInv(u) ==
    /\ states[u].kind # "none" /\ clock <= states[u].expires
          => /\ asked[u].kind = states[u].kind /\ ~ asked[u].again
             /\ states[u].expires = asked[u].at + TTL
    /\ asked[u].kind # "none" /\ ~ asked[u].again /\ clock <= asked[u].at + TTL
          => /\ states[u].kind = asked[u].kind
             /\ states[u].expires = asked[u].at + TTL
    /\ states[u].kind \in OfAdmins => u \in Admin

TypeInv ==
    /\ clock \in Nat
    /\ states \in [User -> State]
    /\ asked \in [User -> [kind : Kind, at : Nat, again : BOOLEAN]]
    /\ buttons \subseteq [op : {"add", "disable"}, id : User]

DInv == TypeInv /\ (\A u \in User : UserInv(u)) /\ OnlyAdminsRule

\* The answer to a question is the one that was asked.
LEMMA WaitsAsked ==
    ASSUME TypeInv, NEW u \in User, UserInv(u), NEW q \in Question, Waits(u, q)
    PROVE  /\ asked[u].kind = q /\ ~ asked[u].again /\ clock - asked[u].at <= TTL
           /\ q \in OfAdmins => u \in Admin
<1>1. q # "none"
  BY DEF Question, UserQuestion, AdminQuestion
<1>2. ~ clock > states[u].expires /\ states[u].kind = q
  BY <1>1 DEF Waits, Live, NoState
<1>3. clock \in Nat /\ states[u].expires \in Nat /\ asked[u].at \in Nat /\ TTL \in Nat
  BY DialogAssumption DEF TypeInv, State
<1>4. clock <= states[u].expires
  BY <1>2, <1>3
<1> QED
  BY <1>1, <1>2, <1>3, <1>4 DEF UserInv

\* A handler of one user leaves the dialogs of the others alone.
LEMMA OneUser ==
    ASSUME TypeInv, \A v \in User : UserInv(v), NEW u \in User, clock' = clock,
           NEW s \in State, NEW q \in [kind : Kind, at : Nat, again : BOOLEAN],
           states' = [states EXCEPT ![u] = s], asked' = [asked EXCEPT ![u] = q],
           buttons' \subseteq [op : {"add", "disable"}, id : User],
           \/ s.kind = "none" /\ (q.kind = "none" \/ q.again)
           \/ /\ q.kind = s.kind /\ ~ q.again /\ s.expires = q.at + TTL
              /\ s.kind \in OfAdmins => u \in Admin
    PROVE  TypeInv' /\ \A v \in User : UserInv(v)'
<1>1. TypeInv'
  BY DEF TypeInv
<1>2. states'[u] = s /\ asked'[u] = q
  BY DEF TypeInv
<1>3. UserInv(u)'
  BY <1>2 DEF UserInv, OfAdmins
<1>4. ASSUME NEW v \in User \ {u} PROVE UserInv(v)'
  BY <1>4 DEF UserInv, TypeInv
<1> QED
  BY <1>1, <1>3, <1>4

\* The records a handler writes.
LEMMA Records ==
    ASSUME TypeInv
    PROVE  /\ NoState \in State /\ NoState.kind = "none"
           /\ NotAsked \in [kind : Kind, at : Nat, again : BOOLEAN]
           /\ NotAsked.kind = "none"
           /\ \A k \in Question, target \in User \cup {None} :
                 LET s == [kind |-> k, expires |-> clock + TTL, target |-> target] IN
                 s \in State /\ s.kind = k /\ s.expires = clock + TTL
           /\ \A k \in Question, again \in BOOLEAN :
                 LET q == [kind |-> k, at |-> clock, again |-> again] IN
                 /\ q \in [kind : Kind, at : Nat, again : BOOLEAN]
                 /\ q.kind = k /\ q.at = clock /\ q.again = again
BY DialogAssumption DEF TypeInv, NoState, NotAsked, State, Kind

\* The bot stops to wait, and asks nothing or asks again.
LEMMA Cleared ==
    ASSUME TypeInv, \A v \in User : UserInv(v), NEW u \in User, clock' = clock, Clear(u),
           Drop(u) \/ \E k \in Question : Ask(u, k, TRUE),
           buttons' \subseteq [op : {"add", "disable"}, id : User]
    PROVE  TypeInv' /\ \A v \in User : UserInv(v)'
<1>1. CASE Drop(u)
  BY <1>1, OneUser, Records DEF Clear, Drop
<1>2. ASSUME NEW k \in Question, Ask(u, k, TRUE)
      PROVE  TypeInv' /\ \A v \in User : UserInv(v)'
  BY <1>2, OneUser, Records DEF Clear, Ask
<1> QED
  BY <1>1, <1>2

\* The bot asks a question, and waits for its answer.
LEMMA Asked ==
    ASSUME TypeInv, \A v \in User : UserInv(v), NEW u \in User, clock' = clock,
           NEW k \in Question, k \in OfAdmins => u \in Admin,
           NEW target \in User \cup {None},
           SetTarget(u, k, target), Ask(u, k, FALSE), UNCHANGED buttons
    PROVE  TypeInv' /\ \A v \in User : UserInv(v)'
<1> DEFINE s == [kind |-> k, expires |-> clock + TTL, target |-> target]
           q == [kind |-> k, at |-> clock, again |-> FALSE]
<1>1. states' = [states EXCEPT ![u] = s] /\ asked' = [asked EXCEPT ![u] = q]
  BY DEF SetTarget, Ask
<1>2. /\ s \in State /\ s.kind = k /\ s.expires = clock + TTL
      /\ q \in [kind : Kind, at : Nat, again : BOOLEAN]
      /\ q.kind = k /\ q.at = clock /\ q.again = FALSE
  BY Records
<1>3. UNCHANGED buttons /\ buttons \subseteq [op : {"add", "disable"}, id : User]
  BY DEF TypeInv
<1> HIDE DEF s, q
<1> QED
  BY <1>1, <1>2, <1>3, OneUser

\* What one step does: it keeps the invariant, and its effect answers a question.
Answers == did'.to # "none" => LET q == asked[did'.by] IN
              q.kind = did'.to /\ ~ q.again /\ clock - q.at <= TTL

LEMMA NamedUser ==
    ASSUME NEW text \in Text
    PROVE  Named(text) \in User \cup {None}
BY DialogAssumption DEF Named

LEMMA Does1 ==
    ASSUME NEW u, NEW op, NEW q
    PROVE  /\ Does(u, op, q) => did'.op = op /\ did'.by = u /\ did'.to = q
           /\ did' = Nothing => did'.op = "nothing" /\ did'.to = "none"
BY DEF Does, Nothing

\* The effect of an answer is one its author may have.
LEMMA Outcome ==
    ASSUME TypeInv, NEW u \in User, UserInv(u), NEW q \in Question, Waits(u, q),
           TypeInv', \A v \in User : UserInv(v)',
           NEW op, op \in Ordered => q \in OfAdmins, Does(u, op, q)
    PROVE  DInv' /\ Answers
<1>1. /\ asked[u].kind = q /\ ~ asked[u].again /\ clock - asked[u].at <= TTL
      /\ q \in OfAdmins => u \in Admin
  BY WaitsAsked
<1>2. did'.op = op /\ did'.by = u /\ did'.to = q
  BY Does1
<1>3. Answers
  BY <1>1, <1>2 DEF Answers
<1>4. OnlyAdminsRule'
  BY <1>1, <1>2 DEF OnlyAdminsRule, Ordered
<1> QED
  BY <1>3, <1>4 DEF DInv

\* Nothing comes of it.
LEMMA NoOutcome ==
    ASSUME TypeInv', \A v \in User : UserInv(v)', did' = Nothing
    PROVE  DInv' /\ Answers
BY Does1 DEF DInv, OnlyAdminsRule, Answers, Nothing

LEMMA AnswerStep ==
    ASSUME DInv, NEW u \in User, NEW text \in Text, Answer(u, text)
    PROVE  DInv' /\ Answers
<1> USE DEF Question, UserQuestion, AdminQuestion, OfAdmins
<1>1. TypeInv /\ (\A v \in User : UserInv(v)) /\ UserInv(u)
  BY DEF DInv
<1>2. ASSUME UNCHANGED <<clock, buttons>>, Clear(u),
             Drop(u) \/ \E k \in Question : Ask(u, k, TRUE)
      PROVE  TypeInv' /\ \A v \in User : UserInv(v)'
  <2>1. buttons' \subseteq [op : {"add", "disable"}, id : User] /\ clock' = clock
    BY <1>1, <1>2 DEF TypeInv
  <2> QED
    BY <1>1, <1>2, <2>1, Cleared
<1>3. CASE AnswerDeviceName(u, text)
  <2>1. TypeInv' /\ \A v \in User : UserInv(v)'
    BY <1>2, <1>3 DEF AnswerDeviceName
  <2>2. did' = Nothing \/ Does(u, "create", "deviceName")
    BY <1>3 DEF AnswerDeviceName
  <2>3. Waits(u, "deviceName")
    BY <1>3 DEF AnswerDeviceName
  <2> QED
    BY <1>1, <2>1, <2>2, <2>3, Outcome, NoOutcome DEF Ordered
<1>4. CASE AnswerComplaint(u, text)
  <2>1. TypeInv' /\ \A v \in User : UserInv(v)'
    BY <1>2, <1>4 DEF AnswerComplaint
  <2>2. did' = Nothing \/ Does(u, "complaint", "complaint")
    BY <1>4 DEF AnswerComplaint
  <2>3. Waits(u, "complaint")
    BY <1>4 DEF AnswerComplaint
  <2> QED
    BY <1>1, <2>1, <2>2, <2>3, Outcome, NoOutcome DEF Ordered
<1>5. ASSUME NEW q \in {"addUser", "disableUser"}, NEW purpose \in {"add", "disable"},
             AnswerUser(u, text, q, purpose)
      PROVE  DInv' /\ Answers
  <2>1. Waits(u, q) /\ q \in Question /\ q \in OfAdmins /\ UNCHANGED clock
    BY <1>5 DEF AnswerUser
  <2>2. did' = Nothing \/ Does(u, "confirm", q) \/ Does(u, "invite", q)
    BY <1>5 DEF AnswerUser
  <2>3. ASSUME UNCHANGED buttons PROVE TypeInv' /\ \A v \in User : UserInv(v)'
    BY <1>2, <1>5, <2>1, <2>3 DEF AnswerUser, Confirm
  <2>4. ASSUME Named(text) # None, Confirm(u, purpose, Named(text))
        PROVE  TypeInv' /\ \A v \in User : UserInv(v)'
    <3>1. buttons' \subseteq [op : {"add", "disable"}, id : User]
      BY <1>1, <2>4, NamedUser DEF TypeInv, Confirm
    <3>2. Clear(u) /\ Drop(u) /\ clock' = clock
      BY <2>1, <2>4 DEF Confirm
    <3> QED
      BY <1>1, <3>1, <3>2, Cleared
  <2>5. TypeInv' /\ \A v \in User : UserInv(v)'
    BY <1>5, <2>3, <2>4 DEF AnswerUser
  <2> QED
    BY <1>1, <2>1, <2>2, <2>5, Outcome, NoOutcome
<1>6. CASE AnswerLimitUser(u, text)
  <2>1. Waits(u, "limitUser") /\ did' = Nothing /\ UNCHANGED <<clock, buttons>>
    BY <1>6 DEF AnswerLimitUser
  <2>2. u \in Admin
    BY <1>1, <2>1, WaitsAsked
  <2>3. ASSUME SetTarget(u, "limitValue", Named(text)), Ask(u, "limitValue", FALSE)
        PROVE  TypeInv' /\ \A v \in User : UserInv(v)'
    BY <1>1, <2>1, <2>2, <2>3, NamedUser, Asked
  <2>4. TypeInv' /\ \A v \in User : UserInv(v)'
    BY <1>2, <1>6, <2>1, <2>3 DEF AnswerLimitUser
  <2> QED
    BY <2>1, <2>4, NoOutcome
<1>7. CASE AnswerLimitValue(u, text)
  <2>1. TypeInv' /\ \A v \in User : UserInv(v)'
    BY <1>2, <1>7 DEF AnswerLimitValue
  <2>2. \/ did' = Nothing
        \/ \E op \in {"sentBack", "limit"} : Does(u, op, "limitValue")
    BY <1>7 DEF AnswerLimitValue
  <2>3. Waits(u, "limitValue")
    BY <1>7 DEF AnswerLimitValue
  <2> QED
    BY <1>1, <2>1, <2>2, <2>3, Outcome, NoOutcome
<1> QED
  BY <1>3, <1>4, <1>5, <1>6, <1>7 DEF Answer

\* Every other step is no answer.
LEMMA OtherStep ==
    ASSUME DInv, NEW u \in User,
           \/ \E q \in UserQuestion \cup AdminQuestion : Button(u, q)
           \/ ButtonShows(u) \/ InlineCreate(u)
           \/ \E b \in buttons : Press(u, b)
           \/ \E op \in {"add", "disable", "limit"}, id \in User : Command(u, op, id)
           \/ Fallback(u)
    PROVE  DInv' /\ Answers
<1> USE DEF Question, UserQuestion, AdminQuestion, OfAdmins
<1>1. /\ TypeInv /\ \A v \in User : UserInv(v)
      /\ buttons \subseteq [op : {"add", "disable"}, id : User]
  BY DEF DInv, TypeInv
<1>2. ASSUME did' = Nothing, TypeInv' /\ \A v \in User : UserInv(v)' PROVE DInv' /\ Answers
  BY <1>2, NoOutcome
<1>3. ASSUME NEW q \in UserQuestion \cup AdminQuestion, Button(u, q) PROVE DInv' /\ Answers
  <2>1. CASE MayAsk(u, q) /\ SetTarget(u, q, None) /\ Ask(u, q, FALSE)
    <3>1. q \in OfAdmins => u \in Admin
      BY <2>1 DEF MayAsk, AdminOnly
    <3> QED
      BY <1>1, <1>2, <1>3, <2>1, <3>1, Asked DEF Button
  <2>2. CASE Clear(u) /\ Drop(u)
    BY <1>1, <1>2, <1>3, <2>2, Cleared DEF Button
  <2> QED
    BY <1>3, <2>1, <2>2 DEF Button
<1>4. CASE ButtonShows(u)
  BY <1>1, <1>2, <1>4, Cleared DEF ButtonShows
<1>5. CASE InlineCreate(u)
  BY <1>1, <1>2, <1>5, Asked DEF InlineCreate
<1>6. ASSUME NEW op, NEW id, u \in Admin, Effect(u, op, id),
             UNCHANGED <<clock, states, buttons, asked>>
      PROVE  DInv' /\ Answers
  <2>1. TypeInv' /\ \A v \in User : UserInv(v)'
    BY <1>1, <1>6 DEF TypeInv, UserInv
  <2>2. did'.by = u /\ did'.to = "none"
    BY <1>6, Does1 DEF Effect, Orders
  <2> QED
    BY <1>6, <2>1, <2>2 DEF DInv, OnlyAdminsRule, Answers
<1>7. CASE Fallback(u)
  BY <1>1, <1>2, <1>7, Cleared DEF Fallback
<1> QED
  BY <1>3, <1>4, <1>5, <1>6, <1>7 DEF Press, Command, AdminOnly

LEMMA DInvStep == DInv /\ [Next]_vars => DInv' /\ (Answers \/ UNCHANGED vars)
<1> SUFFICES ASSUME DInv, [Next]_vars PROVE DInv' /\ (Answers \/ UNCHANGED vars)
  OBVIOUS
<1>1. CASE Elapse
  <2>1. clock \in Nat /\ clock' = clock + 1 /\ UNCHANGED <<states, buttons, asked>>
    BY <1>1 DEF Elapse, DInv, TypeInv
  <2>2. TypeInv'
    BY <2>1 DEF DInv, TypeInv
  <2>3. ASSUME NEW u \in User PROVE UserInv(u)'
    <3>1. states[u].expires \in Nat /\ asked[u].at \in Nat /\ TTL \in Nat
      BY <2>3, DialogAssumption DEF DInv, TypeInv, State
    <3> QED
      BY <2>1, <3>1 DEF DInv, UserInv
  <2> QED
    BY <1>1, <2>2, <2>3, Does1 DEF Elapse, DInv, OnlyAdminsRule, Answers
<1>2. CASE Restart
  <2>1. TypeInv'
    BY <1>2, Records DEF Restart, DInv, TypeInv
  <2>2. \A u \in User : UserInv(u)'
    BY <1>2, Records DEF Restart, UserInv, OfAdmins, DInv
  <2> QED
    BY <1>2, <2>1, <2>2, Does1 DEF Restart, DInv, OnlyAdminsRule, Answers
<1>3. CASE UNCHANGED vars
  BY <1>3 DEF vars, DInv, TypeInv, UserInv, OnlyAdminsRule
<1> QED
  BY <1>1, <1>2, <1>3, AnswerStep, OtherStep DEF Next

LEMMA DInvAlways == Spec => []DInv
<1>1. Init => DInv
  <2> SUFFICES ASSUME Init PROVE DInv
    OBVIOUS
  <2>1. TypeInv
    BY Records, DialogAssumption DEF Init, TypeInv, NoState, NotAsked, State, Kind
  <2>2. \A u \in User : UserInv(u)
    BY DEF Init, UserInv, NoState, NotAsked, OfAdmins
  <2> QED
    BY <2>1, <2>2 DEF Init, DInv, OnlyAdminsRule, Nothing
<1> QED
  BY <1>1, DInvStep, PTL DEF Spec

\* Nobody but an administrator adds, disables, invites or limits a user, along any
\* path of the dialogs: OnlyAdminsRule.
THEOREM AdminsOnly == Spec => []OnlyAdminsRule
<1>1. DInv => OnlyAdminsRule
  BY DEF DInv
<1> QED
  BY <1>1, DInvAlways, PTL

\* The bot waits for the answer to the question it has asked: FirstQuestionHeard.
THEOREM QuestionIsHeard == Spec => []FirstQuestionHeard
<1>1. DInv => FirstQuestionHeard
  <2> SUFFICES ASSUME DInv, NEW u \in User, Open(u), ~ asked[u].again
               PROVE  Waits(u, asked[u].kind)
    BY DEF FirstQuestionHeard
  <2>1. clock \in Nat /\ asked[u].at \in Nat /\ TTL \in Nat
    BY DialogAssumption DEF DInv, TypeInv
  <2>2. states[u].kind = asked[u].kind /\ ~ clock > states[u].expires
    BY <2>1 DEF DInv, UserInv, Open
  <2> QED
    BY <2>2 DEF Waits, Live
<1> QED
  BY <1>1, DInvAlways, PTL

\* A text has an effect only as the answer to the last question of its author,
\* in time: AnswersQuestion.
THEOREM AnswersLastQuestion == Spec => AnswersQuestion
<1>1. DInv /\ [Next]_vars => [Answers]_vars
  BY DInvStep
<1> QED
  BY <1>1, DInvAlways, PTL DEF AnswersQuestion, Answers, Spec

-----------------------------------------------------------------------------
(* A dialog has a target exactly while a limit is asked for                *)

\* A state lives no longer than stateTTL, and is about somebody only when it waits
\* for a limit.
StateInv ==
    \A u \in User : /\ states[u].expires <= clock + TTL
                    /\ (states[u].target # None) <=> (states[u].kind = "limitValue")

\* What a handler of a user does to the dialogs, and what comes of it.
Handled(u) ==
    /\ UNCHANGED clock /\ enabled' \subseteq User
    /\ \/ UNCHANGED states \/ Clear(u)
       \/ \E q \in Question, target \in User \cup {None} :
             (target # None <=> q = "limitValue") /\ SetTarget(u, q, target)
    /\ \/ did' = Nothing
       \/ \E op \in Effects, q \in Kind : Does(u, op, q)

\* No handler of a user leaves the dialogs ill-formed.
LEMMA StateKept ==
    ASSUME TypeInv, StateInv, NEW u \in User, Handled(u)
    PROVE  StateInv'
<1>1. clock \in Nat /\ TTL \in Nat /\ clock' = clock /\ states \in [User -> State]
  BY DialogAssumption DEF Handled, TypeInv
<1>2. CASE UNCHANGED states
  BY <1>1, <1>2 DEF StateInv
<1>3. CASE Clear(u)
  <2>1. /\ NoState.expires <= clock + TTL
        /\ NoState.target = None /\ NoState.kind # "limitValue"
    BY <1>1 DEF NoState
  <2>2. \A v \in User : states'[v] = IF v = u THEN NoState ELSE states[v]
    BY <1>1, <1>3 DEF Clear
  <2> QED
    BY <1>1, <2>1, <2>2 DEF StateInv
<1>4. ASSUME NEW q \in Question, NEW target \in User \cup {None},
             target # None <=> q = "limitValue", SetTarget(u, q, target)
      PROVE  StateInv'
  <2>1. \A v \in User : v # u => states'[v] = states[v]
    BY <1>1, <1>4 DEF SetTarget
  <2>2. /\ states'[u].expires = clock + TTL
        /\ states'[u].target = target /\ states'[u].kind = q
    BY <1>1, <1>4 DEF SetTarget
  <2> QED
    BY <1>1, <1>4, <2>1, <2>2 DEF StateInv
<1> QED
  BY <1>2, <1>3, <1>4 DEF Handled

\* The steps of a user, one by one.
LEMMA HandledStep ==
    ASSUME TypeInv, enabled \subseteq User, NEW u \in User,
           \/ \E q \in UserQuestion \cup AdminQuestion : Button(u, q)
           \/ ButtonShows(u) \/ InlineCreate(u)
           \/ \E b \in buttons : Press(u, b)
           \/ \E op \in {"add", "disable", "limit"}, id \in User : Command(u, op, id)
           \/ \E text \in Text : Answer(u, text)
           \/ Fallback(u)
    PROVE  Handled(u)
<1> USE DEF Question, UserQuestion, AdminQuestion, Effects, Kind
<1>1. ASSUME NEW q \in UserQuestion \cup AdminQuestion, Button(u, q) PROVE Handled(u)
  BY <1>1 DEF Button, Handled
<1>2. CASE ButtonShows(u)
  BY <1>2 DEF ButtonShows, Handled
<1>3. CASE InlineCreate(u)
  BY <1>3 DEF InlineCreate, Handled
<1>4. ASSUME NEW op \in {"add", "disable", "limit"}, NEW id \in User, Effect(u, op, id),
             UNCHANGED <<clock, states>>
      PROVE  Handled(u)
  <2>1. enabled' \subseteq User
    BY <1>4 DEF Effect
  <2>2. Does(u, op, "none") /\ op \in Effects /\ "none" \in Kind
    BY <1>4 DEF Effect, Orders
  <2> QED
    BY <1>4, <2>1, <2>2 DEF Handled
<1>5. ASSUME NEW b \in buttons, Press(u, b) PROVE Handled(u)
  <2>1. b.op \in {"add", "disable"} /\ b.id \in User
    BY <1>5 DEF TypeInv
  <2> QED
    BY <1>4, <1>5, <2>1 DEF Press
<1>6. ASSUME NEW op \in {"add", "disable", "limit"}, NEW id \in User, Command(u, op, id)
      PROVE  Handled(u)
  BY <1>4, <1>6 DEF Command
<1>7. ASSUME NEW text \in Text, Answer(u, text) PROVE Handled(u)
  <2>1. CASE AnswerDeviceName(u, text)
    BY <2>1 DEF AnswerDeviceName, Handled
  <2>2. CASE AnswerComplaint(u, text)
    BY <2>2 DEF AnswerComplaint, Handled
  <2>3. ASSUME NEW q \in {"addUser", "disableUser"}, NEW purpose,
               AnswerUser(u, text, q, purpose)
        PROVE  Handled(u)
    BY <2>3 DEF AnswerUser, Confirm, Handled
  <2>4. CASE AnswerLimitUser(u, text)
    <3>1. Named(text) \in User \cup {None}
      BY <1>7, NamedUser
    <3> QED
      BY <2>4, <3>1 DEF AnswerLimitUser, Handled
  <2>5. CASE AnswerLimitValue(u, text)
    BY <2>5 DEF AnswerLimitValue, Handled
  <2> QED
    BY <1>7, <2>1, <2>2, <2>3, <2>4, <2>5 DEF Answer
<1>8. CASE Fallback(u)
  BY <1>8 DEF Fallback, Handled
<1> QED
  BY <1>1, <1>2, <1>3, <1>5, <1>6, <1>7, <1>8

\* Every variable has its type, a dialog has a target exactly while a limit is
\* asked for, and no state outlives stateTTL: TypeOK.
THEOREM TypeCorrect == Spec => []TypeOK
<1>1. Init => TypeOK
  <2> SUFFICES ASSUME Init PROVE TypeOK
    OBVIOUS
  <2>1. TypeInv
    BY Records, DialogAssumption DEF Init, TypeInv, NoState, NotAsked, State, Kind
  <2>2. clock \in 0..MaxTime /\ enabled \subseteq User /\ StateInv
    BY DialogAssumption DEF Init, StateInv, NoState
  <2>3. did \in [op : Effects, by : User \cup {None}, to : Kind]
    BY DEF Init, Nothing, Effects, Kind
  <2> QED
    BY <2>1, <2>2, <2>3 DEF TypeOK, TypeInv, StateInv, Effects, Kind
<1>2. DInv /\ TypeOK /\ DInv' /\ [Next]_vars => TypeOK'
  <2> SUFFICES ASSUME DInv, TypeOK, DInv', [Next]_vars PROVE TypeOK'
    OBVIOUS
  <2>1. TypeInv /\ TypeInv' /\ StateInv
    BY DEF DInv, TypeOK, StateInv
  <2>2. /\ clock \in 0..MaxTime /\ enabled \subseteq User /\ MaxTime \in Nat /\ TTL \in Nat
        /\ did \in [op : Effects, by : User \cup {None}, to : Kind]
    BY DialogAssumption DEF TypeOK, Effects, Kind
  <2>3. ASSUME clock' \in 0..MaxTime, enabled' \subseteq User, StateInv',
               did' \in [op : Effects, by : User \cup {None}, to : Kind]
        PROVE  TypeOK'
    BY <2>1, <2>3 DEF TypeOK, TypeInv, StateInv, Effects, Kind
  <2>4. Nothing \in [op : Effects, by : User \cup {None}, to : Kind]
    BY DEF Nothing, Effects, Kind
  <2>5. ASSUME NEW u \in User, Handled(u) PROVE TypeOK'
    <3>1. did' \in [op : Effects, by : User \cup {None}, to : Kind]
      BY <2>4, <2>5 DEF Handled, Does
    <3>2. clock' \in 0..MaxTime /\ enabled' \subseteq User
      BY <2>2, <2>5 DEF Handled
    <3> QED
      BY <2>1, <2>3, <2>5, <3>1, <3>2, StateKept
  <2>6. CASE Elapse
    <3>1. clock' = clock + 1 /\ clock' \in 0..MaxTime /\ UNCHANGED states
      BY <2>2, <2>6 DEF Elapse
    <3>2. \A u \in User : states[u].expires \in Nat
      BY <2>1 DEF TypeInv, State
    <3>3. StateInv'
      BY <2>1, <2>2, <3>1, <3>2 DEF StateInv
    <3> QED
      BY <2>2, <2>3, <2>4, <2>6, <3>1, <3>3 DEF Elapse
  <2>7. CASE Restart
    <3>1. StateInv'
      BY <2>2, <2>7 DEF Restart, StateInv, NoState
    <3> QED
      BY <2>2, <2>3, <2>4, <2>7, <3>1 DEF Restart
  <2>8. CASE UNCHANGED vars
    BY <2>1, <2>2, <2>3, <2>8 DEF vars, StateInv
  <2> QED
    BY <2>1, <2>2, <2>5, <2>6, <2>7, <2>8, HandledStep DEF Next
<1> QED
  BY <1>1, <1>2, DInvAlways, PTL DEF Spec
=============================================================================
