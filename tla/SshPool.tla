------------------------------- MODULE SshPool -------------------------------
(***************************************************************************)
(* The SSH connections of internal/vpn/sshprovider: one per server, kept   *)
(* in a map under a mutex that is held while dialling by the       *)
(* update loop and the monitor, and evicted by whoever sees a command fail *)
(* on it.  A connection is a number, which is used again once nobody has   *)
(* the connection any more.                                                *)
(***************************************************************************)
EXTENDS Naturals, Sequences, FiniteSets

CONSTANTS
    Server,     \* servers of the configuration
    Enabled,    \* those it enables
    Bot,        \* the update loop
    Monitor,    \* the monitor
    MaxFaults,  \* bound: faults in one behaviour
    MaxConns,   \* bound: connections at a time
    None        \* no server, no goroutine

Goroutine == {Bot, Monitor}

ASSUME PoolAssumption ==
    /\ Enabled \subseteq Server
    /\ Bot # Monitor
    /\ {MaxFaults, MaxConns} \subseteq Nat
    /\ None \notin Server \cup Goroutine

VARIABLES
    state,    \* the state of each connection
    conns,    \* Provider.conns: the connection of each server, or 0
    mutex,    \* the goroutine that holds Provider.mu to dial
    call,     \* what each goroutine is doing
    failed,   \* the goroutines for which each connection has failed
    fails,    \* calls that have failed, of each goroutine
    faults    \* faults so far

Conn == 1..MaxConns
vars == <<state, conns, mutex, call, failed, fails, faults>>

\* A connection is none, open, broken, silent (its far end no longer answers) or closed.
Idle == [at |-> "idle", server |-> None, conn |-> 0]

Init ==
    /\ state = [c \in Conn |-> "none"]
    /\ conns = [s \in Server |-> 0]
    /\ mutex = None
    /\ call = [g \in Goroutine |-> Idle]
    /\ failed = [c \in Conn |-> {}]
    /\ fails = [g \in Goroutine |-> 0]
    /\ faults = 0

At(g, stage) == call[g].at = stage
Goto(g, stage) == call' = [call EXCEPT ![g].at = stage]

Fault == faults < MaxFaults /\ faults' = faults + 1

Return(g) == call' = [call EXCEPT ![g] = Idle] /\ UNCHANGED fails
ReturnError(g) ==
    /\ call' = [call EXCEPT ![g] = Idle]
    /\ fails' = [fails EXCEPT ![g] = @ + 1]

-----------------------------------------------------------------------------
(* Provider.run, in the order of its steps                                 *)

\* The update loop has a peer to add or to remove; the monitor checks the enabled
\* servers in turn.
Start(g, s) ==
    /\ At(g, "idle")
    /\ g = Monitor => s \in Enabled
    /\ call' = [call EXCEPT ![g] = [at |-> "lock", server |-> s, conn |-> 0]]
    /\ UNCHANGED <<state, conns, mutex, failed, fails, faults>>

\* client: a connection of the map is used; a server the configuration does not
\* enable is refused; else the mutex is kept to dial.
Client(g) ==
    /\ At(g, "lock")
    /\ mutex = None
    /\ LET s == call[g].server IN
       \/ /\ conns[s] # 0
          /\ call' = [call EXCEPT ![g].at = "run", ![g].conn = conns[s]]
          /\ UNCHANGED <<mutex, fails>>
       \/ /\ conns[s] = 0 /\ s \notin Enabled
          /\ Return(g)
          /\ UNCHANGED mutex
       \/ /\ conns[s] = 0 /\ s \in Enabled
          /\ Goto(g, "dial")
          /\ mutex' = g
          /\ UNCHANGED fails
    /\ UNCHANGED <<state, conns, failed, faults>>

DialOk(g) ==
    /\ At(g, "dial")
    /\ \E c \in Conn : state[c] = "none"
    /\ LET c == CHOOSE c \in Conn : state[c] = "none" IN
       /\ state' = [state EXCEPT ![c] = "open"]
       /\ conns' = [conns EXCEPT ![call[g].server] = c]
       /\ call' = [call EXCEPT ![g].at = "run", ![g].conn = c]
    /\ mutex' = None
    /\ UNCHANGED <<failed, fails, faults>>

DialFails(g) ==
    /\ At(g, "dial")
    /\ Fault
    /\ ReturnError(g)
    /\ mutex' = None
    /\ UNCHANGED <<state, conns, failed>>

\* The timeout is one of the TCP connection: a server that accepts it and says
\* nothing more is waited for.
DialSticks(g) ==
    /\ At(g, "dial")
    /\ Fault
    /\ Goto(g, "stuck")
    /\ UNCHANGED <<state, conns, mutex, failed, fails>>

\* The far end may drop the connection at last, which nothing promises.
DialDropped(g) ==
    /\ At(g, "stuck")
    /\ ReturnError(g)
    /\ mutex' = None
    /\ UNCHANGED <<state, conns, failed, faults>>

RunOk(g) ==
    /\ At(g, "run")
    /\ state[call[g].conn] = "open"
    /\ Return(g)
    /\ UNCHANGED <<state, conns, mutex, failed, faults>>

\* The connection is gone, or the script ends with a status other than 0, as it
\* does for a peer that is not there.
RunFails(g) ==
    /\ At(g, "run")
    /\ \/ state[call[g].conn] \in {"broken", "closed"} /\ UNCHANGED faults
       \/ state[call[g].conn] = "open" /\ Fault
    /\ failed' = [failed EXCEPT ![call[g].conn] = @ \cup {g}]
    /\ Goto(g, "evict")
    /\ UNCHANGED <<state, conns, mutex, fails>>

\* Mutant: a failed connection stays in the map.
EvictNothing(g) ==
    /\ At(g, "evict")
    /\ mutex = None
    /\ Goto(g, "close")
    /\ UNCHANGED <<state, conns, mutex, failed, fails, faults>>

\* Mutant: a command that failed is tried again on the connection of the map.
EvictRetries(g) ==
    /\ At(g, "evict")
    /\ mutex = None
    /\ Goto(g, "lock")
    /\ UNCHANGED <<state, conns, mutex, failed, fails, faults>>

\* Whatever connection the map has for the server is taken out of it ...
Evict(g) ==
    /\ At(g, "evict")
    /\ mutex = None
    /\ conns' = [conns EXCEPT ![call[g].server] = 0]
    /\ Goto(g, "close")
    /\ UNCHANGED <<state, mutex, failed, fails, faults>>

\* Mutant: the connection is dropped from the map and never closed.
CloseNothing(g) ==
    /\ At(g, "close")
    /\ ReturnError(g)
    /\ UNCHANGED <<state, conns, mutex, failed, faults>>

\* ... and the one that failed is closed, under whoever else uses it.
Close(g) ==
    /\ At(g, "close")
    /\ LET c == call[g].conn
           last == /\ \A h \in Goroutine \ {g} : call[h].conn # c
                   /\ \A s \in Server : conns[s] # c
       IN /\ state' = [state EXCEPT ![c] = IF last THEN "none" ELSE "closed"]
          /\ failed' = [failed EXCEPT ![c] = IF last THEN {} ELSE @]
    /\ ReturnError(g)
    /\ UNCHANGED <<conns, mutex, faults>>

\* A connection breaks, or its far end no longer answers.
Trouble(now) ==
    /\ Fault
    /\ \E c \in {c \in Conn : state[c] = "open"} :
           state' = [state EXCEPT ![c] = now]
    /\ UNCHANGED <<conns, mutex, call, failed, fails>>

SilentDropped ==
    /\ \E c \in {c \in Conn : state[c] = "silent"} :
           state' = [state EXCEPT ![c] = "broken"]
    /\ UNCHANGED <<conns, mutex, call, failed, fails, faults>>

-----------------------------------------------------------------------------
Dial(g) == DialOk(g) \/ DialFails(g) \/ DialSticks(g)
Run(g) == RunOk(g) \/ RunFails(g)

Next ==
    \/ \E g \in Goroutine :
        \/ \E s \in Server : Start(g, s)
        \/ Client(g) \/ Dial(g) \/ DialDropped(g) \/ Run(g) \/ Evict(g) \/ Close(g)
    \/ Trouble("broken") \/ Trouble("silent") \/ SilentDropped

\* A command on a connection that is not silent ends, a dial
\* ends unless it sticks, and sync.Mutex lets no goroutine starve.
Fairness ==
    \A g \in Goroutine :
        /\ WF_vars(Dial(g)) /\ WF_vars(Run(g)) /\ WF_vars(Close(g))
        /\ SF_vars(Client(g)) /\ SF_vars(Evict(g))

Spec == Init /\ [][Next]_vars /\ Fairness

-----------------------------------------------------------------------------
(* Properties                                                              *)

\* Connections somebody can still reach: in the map, or in the hands of a goroutine.
Reachable == {conns[s] : s \in Server} \cup {call[g].conn : g \in Goroutine}

\* A connection is left open and forgotten only when both goroutines have failed on
\* one, and the second evicts what the first has dialled since: one fault leaks one
\* connection at most, however long the two share, evict and close them.
OneLeakPerFault ==
    Cardinality({c \in Conn : /\ state[c] \in {"open", "broken", "silent"}
                              /\ c \notin Reachable}) <= faults

\* One fault fails at most one call of each goroutine, although a failed command
\* closes the connection of the other: a command that a script refuses cannot make
\* a healthy server fail two checks in a row, as an alert needs.
OneFaultOneFailure == \A g \in Goroutine : fails[g] <= faults

\* A call returns, unless it waits for a silent connection or for a handshake, its
\* own or that of the goroutine which holds the mutex.
Waits(g) ==
    \/ At(g, "run") /\ state[call[g].conn] = "silent"
    \/ mutex # None /\ At(mutex, "stuck")

Returns == \A g \in Goroutine : ~ At(g, "idle") ~> At(g, "idle") \/ Waits(g)
=============================================================================
