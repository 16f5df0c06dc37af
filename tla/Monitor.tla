------------------------------- MODULE Monitor -------------------------------
(***************************************************************************)
(* The availability monitor (internal/monitor/monitor.go): one goroutine   *)
(* checks every server over SSH at each tick of its ticker, and calls the  *)
(* alerts when a server has failed its checks for the threshold, and when  *)
(* such a server answers again.  The call is made after the lock is given  *)
(* up and returns before the next server is checked; another goroutine     *)
(* reads Snapshot at any time.  All its state is lost on a restart.        *)
(***************************************************************************)
EXTENDS Integers, Sequences

CONSTANTS
    Server,       \* enabled servers
    Interval,     \* check_interval
    Threshold,    \* down_threshold
    SlowChecks,   \* may time pass while a round of checks runs?
    MaxTime,      \* bound: readings of the clock
    MaxRestarts,  \* bound: restarts of the bot
    None          \* no call

ASSUME MonitorAssumption ==
    /\ Interval \in Nat \ {0}
    /\ Threshold \in Nat
    /\ SlowChecks \in BOOLEAN
    /\ MaxTime \in Nat \ {0}
    /\ MaxRestarts \in Nat

VARIABLES
    \* The world.
    clock,     \* now(); 0 is the zero time.Time
    reach,     \* servers that would pass a health check
    \* The monitor.
    downSince, upSince, lastCheck, alerted,   \* srvState
    todo,      \* servers this round has still to check
    tick,      \* when the ticker fires next
    call,      \* the call to the alerts in progress
    \* History and bounds.
    outage,    \* since when a server is unreachable under this process, or 0
    log,       \* every check of this process and its result
    restarts   \* restarts left

srvState == <<downSince, upSince, lastCheck, alerted>>
monitorVars == <<clock, reach, downSince, upSince, lastCheck, alerted, todo, tick,
                 call, outage, log, restarts>>

Time == 0..MaxTime

MonitorTypeOK ==
    /\ clock \in Time \ {0}
    /\ reach \subseteq Server
    /\ downSince \in [Server -> 0..clock]
    /\ upSince \in [Server -> 0..clock]
    /\ lastCheck \in [Server -> 0..clock]
    /\ alerted \subseteq Server
    /\ todo \subseteq Server
    /\ tick \in Nat
    /\ call \in ({"down", "up"} \X Server) \cup {None}
    /\ outage \in [Server -> 0..clock]
    /\ \A s \in Server : log[s] \in Seq([at : Time, ok : BOOLEAN])
    /\ restarts \in 0..MaxRestarts

Never == [s \in Server |-> 0]

\* The first CheckNow runs before the first tick.
MonitorInit ==
    /\ clock = 1
    /\ reach \in SUBSET Server
    /\ downSince = Never /\ upSince = Never /\ lastCheck = Never
    /\ alerted = {}
    /\ todo = Server
    /\ tick = clock + Interval
    /\ call = None
    /\ outage = [s \in Server |-> IF s \in reach THEN 0 ELSE clock]
    /\ log = [s \in Server |-> <<>>]
    /\ restarts = MaxRestarts

-----------------------------------------------------------------------------
(* The monitor                                                             *)

Returned == call = None

\* The ticker keeps one tick for a receiver that is late and drops the others.
StartRound ==
    /\ Returned /\ todo = {}
    /\ clock >= tick
    /\ todo' = Server
    /\ tick' = tick + Interval * ((clock - tick) \div Interval + 1)
    /\ UNCHANGED <<clock, reach, srvState, call, outage, log, restarts>>

Logged(s) == log' = [log EXCEPT ![s] = Append(@, [at |-> clock, ok |-> s \in reach])]

\* Mutant: the time of the last failure, not of the first.
FailingSinceLast(s) == clock

FailingSince(s) == IF downSince[s] = 0 THEN clock ELSE downSince[s]

\* Mutant: the alert waits for one check more.
AlertDueLate(s) == s \notin alerted /\ clock - FailingSince(s) > Threshold

AlertDue(s) == s \notin alerted /\ clock - FailingSince(s) >= Threshold

\* checkServer when HealthCheck fails.
CheckFails(s) ==
    /\ Returned /\ s \in todo \ reach
    /\ todo' = todo \ {s}
    /\ lastCheck' = [lastCheck EXCEPT ![s] = clock]
    /\ upSince' = [upSince EXCEPT ![s] = 0]
    /\ downSince' = [downSince EXCEPT ![s] = FailingSince(s)]
    /\ alerted' = IF AlertDue(s) THEN alerted \cup {s} ELSE alerted
    /\ call' = IF AlertDue(s) THEN <<"down", s>> ELSE None
    /\ Logged(s)
    /\ UNCHANGED <<clock, reach, tick, outage, restarts>>

\* Mutant: a good check does not end a run of failures that was not alerted.
CheckPassesKeepsDown(s) ==
    /\ Returned /\ s \in todo \cap reach
    /\ todo' = todo \ {s}
    /\ lastCheck' = [lastCheck EXCEPT ![s] = clock]
    /\ downSince' = IF s \in alerted THEN [downSince EXCEPT ![s] = 0] ELSE downSince
    /\ upSince' = [upSince EXCEPT ![s] = IF @ = 0 THEN clock ELSE @]
    /\ alerted' = alerted \ {s}
    /\ call' = IF s \in alerted THEN <<"up", s>> ELSE None
    /\ Logged(s)
    /\ UNCHANGED <<clock, reach, tick, outage, restarts>>

\* checkServer when HealthCheck succeeds.
CheckPasses(s) ==
    /\ Returned /\ s \in todo \cap reach
    /\ todo' = todo \ {s}
    /\ lastCheck' = [lastCheck EXCEPT ![s] = clock]
    /\ downSince' = [downSince EXCEPT ![s] = 0]
    /\ upSince' = [upSince EXCEPT ![s] = IF @ = 0 THEN clock ELSE @]
    /\ alerted' = alerted \ {s}
    /\ call' = IF s \in alerted THEN <<"up", s>> ELSE None
    /\ Logged(s)
    /\ UNCHANGED <<clock, reach, tick, outage, restarts>>

CallReturns ==
    /\ ~ Returned
    /\ call' = None
    /\ UNCHANGED <<clock, reach, srvState, todo, tick, outage, log, restarts>>

\* Snapshot: what the admin is shown of a server.
Down(s) == downSince[s] # 0
Since(s) == IF Down(s) THEN downSince[s] ELSE upSince[s]

-----------------------------------------------------------------------------
(* The world                                                               *)

\* Unless SlowChecks, a round of checks takes no time and starts at its tick.
Elapse ==
    /\ clock < MaxTime
    /\ SlowChecks \/ (Returned /\ todo = {} /\ clock < tick)
    /\ clock' = clock + 1
    /\ UNCHANGED <<reach, srvState, todo, tick, call, outage, log, restarts>>

GoesDown(s) ==
    /\ s \in reach
    /\ reach' = reach \ {s}
    /\ outage' = [outage EXCEPT ![s] = clock]
    /\ UNCHANGED <<clock, srvState, todo, tick, call, log, restarts>>

ComesUp(s) ==
    /\ s \notin reach
    /\ reach' = reach \cup {s}
    /\ outage' = [outage EXCEPT ![s] = 0]
    /\ UNCHANGED <<clock, srvState, todo, tick, call, log, restarts>>

\* The bot stops and is started again, here at once.
MonitorRestart ==
    /\ restarts > 0
    /\ restarts' = restarts - 1
    /\ downSince' = Never /\ upSince' = Never /\ lastCheck' = Never
    /\ alerted' = {}
    /\ todo' = Server
    /\ tick' = clock + Interval
    /\ call' = None
    /\ outage' = [s \in Server |-> IF s \in reach THEN 0 ELSE clock]
    /\ log' = [s \in Server |-> <<>>]
    /\ UNCHANGED <<clock, reach>>

MonitorStep ==
    \/ StartRound
    \/ \E s \in Server : CheckFails(s) \/ CheckPasses(s)

World ==
    \/ Elapse
    \/ \E s \in Server : GoesDown(s) \/ ComesUp(s)

MonitorNext == MonitorStep \/ CallReturns \/ World \/ MonitorRestart

MonitorSpec == MonitorInit /\ [][MonitorNext]_monitorVars

-----------------------------------------------------------------------------
(* Properties                                                              *)

\* The first check of the unbroken run of equal results that ends a log.
FirstOfRun(checks) ==
    CHOOSE i \in 1..Len(checks) :
        /\ \A j \in i..Len(checks) : checks[j].ok = checks[Len(checks)].ok
        /\ i = 1 \/ checks[i - 1].ok # checks[i].ok

RunLength(checks) == checks[Len(checks)].at - checks[FirstOfRun(checks)].at

\* A server is alerted exactly when all the checks of at least the last
\* Threshold have failed, whatever flaps and restarts came before.
AlertedIffFailing ==
    \A s \in Server :
        s \in alerted <=> /\ log[s] # <<>>
                          /\ ~ log[s][Len(log[s])].ok
                          /\ RunLength(log[s]) >= Threshold

\* The status an admin sees dates from the check that first gave it.
SnapshotHonest ==
    \A s \in Server : log[s] # <<>> =>
        /\ Down(s) <=> ~ log[s][Len(log[s])].ok
        /\ Since(s) = log[s][FirstOfRun(log[s])].at
        /\ lastCheck[s] = log[s][Len(log[s])].at

\* The longest an unreachable server may stay without an alert: it is noticed
\* within one interval, and the threshold is seen to be over at a check.
Delay == Interval + Interval * ((Threshold + Interval - 1) \div Interval)

\* While checks are fast, a server that stays unreachable is alerted within
\* Delay of the start of the outage, or of the process.
AlertInTime ==
    \A s \in Server :
        outage[s] # 0 /\ clock - outage[s] > Delay => s \in alerted
=============================================================================
