------------------------------ MODULE Incidents ------------------------------
(***************************************************************************)
(* The monitor and the alerts together: the goroutine of the monitor runs  *)
(* ServerDown and ServerUp itself, so a call it makes is carried out, card *)
(* by card, before its next check; complaints come from the update loop in *)
(* between.  A restart stops both at once.                                 *)
(***************************************************************************)
EXTENDS Monitor, FiniteSets

CONSTANTS Admin, Faults, MaxFaults, MaxPosts,
          MaxOutages   \* bound: outages of one server

ASSUME IncidentsAssumption ==
    /\ None \notin Server \cup Admin \cup ({"down", "up"} \X Server)
    /\ MaxOutages \in Nat \ {0}
    /\ {MaxFaults, MaxPosts} \subseteq Nat

VARIABLES incident, stored, chat, card, complaint, faults,  \* the alerts
          outages   \* history: outages of each server so far

A == INSTANCE Alerts

alertVars == <<incident, stored, chat, card, complaint, faults>>
vars == <<monitorVars, alertVars, outages>>

TypeOK == MonitorTypeOK /\ A!TypeOK /\ outages \in [Server -> 0..MaxOutages]

Init ==
    /\ MonitorInit
    /\ A!Init
    /\ outages = [s \in Server |-> IF s \in reach THEN 0 ELSE 1]

\* The call made by the monitor starts ...
Call ==
    /\ \E s \in Server : \/ call = <<"down", s>> /\ A!ServerDown(s)
                         \/ call = <<"up", s>> /\ A!ServerUp(s)
    /\ UNCHANGED <<monitorVars, outages>>

\* ... and ends, once, when every admin has been served.
Return ==
    /\ A!UpdateDone
    /\ CallReturns
    /\ UNCHANGED outages

Check ==
    /\ MonitorStep \/ Elapse
    /\ UNCHANGED <<alertVars, outages>>

Flap(s) ==
    /\ \/ /\ GoesDown(s)
          /\ outages[s] < MaxOutages
          /\ outages' = [outages EXCEPT ![s] = @ + 1]
       \/ ComesUp(s) /\ UNCHANGED outages
    /\ UNCHANGED alertVars

Serve ==
    /\ A!CardStep \/ A!ComplaintStep
    /\ UNCHANGED <<monitorVars, outages>>

Restart ==
    /\ MonitorRestart
    /\ A!Restart
    /\ UNCHANGED outages

Next ==
    \/ Call \/ Return \/ Check \/ Serve \/ Restart
    \/ \E s \in Server : Flap(s)

Spec == Init /\ [][Next]_vars

-----------------------------------------------------------------------------
(* Properties                                                              *)

Quiet == call = None

\* The monitor and the alerts agree on what is an incident, although each keeps
\* its own record: so ServerDown always starts a new one.
SameIncidents == Quiet => incident = alerted

\* While a server is alerted the newest card every admin has of it is red, even
\* if cards could not be read, edited or stored and the bot was restarted: only
\* a message that cannot be sent is missing.
AlertShown ==
    Quiet /\ A!Spared({"send"})
        => \A s \in alerted, a \in Admin : A!NewestIs(s, a, "red")

\* Once a server has passed a check, no admin's newest card of it is red.
RecoveryShown ==
    Quiet => \A s \in Server, a \in Admin : upSince[s] # 0 => ~ A!NewestIs(s, a, "red")

\* RecoveryShown holds as long as the bot is not restarted, its messages can be
\* sent, and either every card sent was stored or every stored one could be read
\* and edited: a red card that a green one replaced in the chat, but not in the
\* database, would be edited after the next outage in place of the newest.
RecoveryShownWhileUp ==
    A!Spared({"send", "restart", "save"}) \/ A!Spared({"send", "restart", "get", "edit"})
        => RecoveryShown

\* While nothing fails an outage costs each admin one message at most, however
\* long it lasts and however often the server flaps: what follows edits it.
OneCardPerOutage ==
    faults = <<>> =>
        \A s \in Server, a \in Admin : Cardinality(A!CardsOf(s, a)) <= outages[s]

\* No card turns from green to red, and no message changes otherwise: a new
\* incident is always news in the chat.
RedIsNew ==
    [][\A a \in Admin, i \in 1..MaxPosts :
          i <= Len(chat[a]) /\ chat'[a][i] # chat[a][i]
              => /\ chat'[a][i].server = chat[a][i].server
                 /\ chat[a][i].kind = "red" /\ chat'[a][i].kind = "green"]_vars

\* What the database holds as the card of a server is one (StoredIsCard).
StoredIsCard == A!StoredIsCard
=============================================================================
