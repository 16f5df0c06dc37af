---------------------------- MODULE SshPool_proofs ----------------------------
(***************************************************************************)
(* What the cache of connections keeps, for any servers and any number of  *)
(* faults and of connections.                                              *)
(***************************************************************************)
EXTENDS SshPool, FiniteSetTheorems, TLAPS

Stage == {"idle", "lock", "dial", "stuck", "run", "evict", "close"}
InHand == {"run", "evict", "close"}

TypeInv ==
    /\ state \in [Conn -> {"none", "open", "broken", "silent", "closed"}]
    /\ conns \in [Server -> Conn \cup {0}]
    /\ mutex \in Goroutine \cup {None}
    /\ call \in [Goroutine -> [at : Stage, server : Server \cup {None}, conn : Conn \cup {0}]]
    /\ failed \in [Conn -> SUBSET Goroutine]
    /\ fails \in [Goroutine -> Nat]
    /\ faults \in Nat

\* Who has a server has a server, who has a connection has one, and whoever dials
\* holds the mutex and has found no connection in the map.
CallInv ==
    \A g \in Goroutine :
        /\ ~ At(g, "idle") => call[g].server \in Server
        /\ call[g].at \in InHand <=> call[g].conn # 0
        /\ At(g, "dial") \/ At(g, "stuck") <=> mutex = g
        /\ mutex = g => conns[call[g].server] = 0

\* A connection is of one server, and is not made anew while somebody has it.
OwnInv ==
    /\ \A s, t \in Server : conns[s] # 0 /\ conns[s] = conns[t] => s = t
    /\ \A s \in Server, g \in Goroutine :
          conns[s] # 0 /\ call[g].conn = conns[s] => call[g].server = s
    /\ \A c \in Conn : c \in Reachable => state[c] # "none"
    /\ \A c \in Conn : state[c] = "none" => failed[c] = {}

\* Whoever has failed on a connection finds it in the map no more.
FailedInv ==
    /\ \A g \in Goroutine : At(g, "evict") \/ At(g, "close") => g \in failed[call[g].conn]
    /\ \A g \in Goroutine : At(g, "run") => g \notin failed[call[g].conn]
    /\ \A g \in Goroutine, s \in Server :
          conns[s] # 0 /\ g \in failed[conns[s]] => At(g, "evict") /\ call[g].conn = conns[s]

Alive(c) == state[c] \in {"open", "broken", "silent"}
InMap(c) == \E s \in Server : conns[s] = c
Busy(c) == \E g \in Goroutine : call[g].conn = c /\ call[g].at \in {"run", "evict"}
Closing(c) == \E g \in Goroutine : call[g].conn = c /\ call[g].at \in {"evict", "close"}

\* A connection that nobody will close unless a command fails on it first, and one
\* whose failure may still make a goroutine evict another.
Forgotten(c) == Alive(c) /\ ~ InMap(c) /\ ~ Closing(c)
Doubtful(c) ==
    /\ state[c] \in {"broken", "silent", "closed"} \/ failed[c] # {}
    /\ InMap(c) \/ Busy(c)

\* A fault makes one connection doubtful; who evicts another for it forgets one at
\* most, and has then done with the doubtful one, which nobody else is about to evict.
Debt == {c \in Conn : Forgotten(c) \/ Doubtful(c)}

OnceInv ==
    \A c \in Conn, g, h \in Goroutine :
        /\ ~ InMap(c)
        /\ call[g].conn = c /\ call[g].at \in {"run", "evict"}
        /\ call[h].conn = c /\ call[h].at \in {"run", "evict"}
        => g = h

DebtInv == Cardinality(Debt) <= faults

\* The connections on which a goroutine may still fail for a fault of the past: each
\* pays for one failure.
Charged(g) == {c \in Conn : /\ state[c] # "none" /\ g \notin failed[c]
                            /\ state[c] # "open" \/ failed[c] # {}}

Pending(g) == IF call[g].at \in {"stuck", "evict", "close"} THEN 1 ELSE 0

PaidInv == \A g \in Goroutine : fails[g] + Pending(g) + Cardinality(Charged(g)) <= faults

PInv == TypeInv /\ CallInv /\ OwnInv /\ FailedInv /\ OnceInv /\ DebtInv /\ PaidInv

-----------------------------------------------------------------------------
LEMMA ConnNotZero == \A c \in Conn : c \in Nat /\ c # 0
<1>1. MaxConns \in Nat
  BY PoolAssumption
<1> QED
  BY <1>1 DEF Conn

\* The calls of the goroutines.
CallType == [at : Stage, server : Server \cup {None}, conn : Conn \cup {0}]

\* A call that goes on to another stage stays a call.
LEMMA GoneOn ==
    ASSUME NEW r \in CallType, NEW stage \in Stage, NEW c \in Conn \cup {0}
    PROVE  /\ [r EXCEPT !.at = stage] \in CallType
           /\ [r EXCEPT !.at = stage, !.conn = c] \in CallType
BY DEF CallType

LEMMA TypeStep == TypeInv /\ CallInv /\ [Next]_vars => TypeInv'
<1> SUFFICES ASSUME TypeInv, CallInv, [Next]_vars PROVE TypeInv'
  OBVIOUS
<1> USE PoolAssumption DEF TypeInv, Stage, At, Goto, Return, ReturnError, Idle, Fault
<1>1. ASSUME NEW g \in Goroutine, NEW s \in Server, Start(g, s) PROVE TypeInv'
  <2> DEFINE new == [at |-> "lock", server |-> s, conn |-> 0]
  <2>1. new \in [at : Stage, server : Server \cup {None}, conn : Conn \cup {0}]
    OBVIOUS
  <2>2. call' = [call EXCEPT ![g] = new]
    BY <1>1 DEF Start
  <2> HIDE DEF new
  <2> QED
    BY <1>1, <2>1, <2>2 DEF Start
<1>2. ASSUME NEW g \in Goroutine, Client(g) PROVE TypeInv'
  <2> DEFINE s == call[g].server
             open == [call[g] EXCEPT !.at = "run", !.conn = conns[s]]
             dial == [call[g] EXCEPT !.at = "dial"]
  <2>1. conns[s] \in Conn \cup {0}
    BY <1>2 DEF Client, CallInv
  <2>2. call[g] \in CallType /\ Idle \in CallType
    BY DEF CallType
  <2>3. open \in CallType /\ dial \in CallType
    BY <2>1, <2>2, GoneOn
  <2>4. \/ call' = [call EXCEPT ![g] = open]
        \/ call' = [call EXCEPT ![g] = Idle]
        \/ call' = [call EXCEPT ![g] = dial]
    BY <1>2 DEF Client
  <2>5. /\ mutex' \in Goroutine \cup {None}
        /\ UNCHANGED <<state, conns, failed, fails, faults>>
    BY <1>2 DEF Client
  <2> HIDE DEF open, dial, Idle
  <2>6. call' \in [Goroutine -> CallType]
    BY <2>2, <2>3, <2>4 DEF CallType
  <2> QED
    BY <2>5, <2>6 DEF CallType
<1>3. ASSUME NEW g \in Goroutine, DialOk(g) PROVE TypeInv'
  <2> DEFINE c == CHOOSE c \in Conn : state[c] = "none"
  <2>1. c \in Conn
    BY <1>3 DEF DialOk
  <2>2. /\ state' = [state EXCEPT ![c] = "open"]
        /\ conns' = [conns EXCEPT ![call[g].server] = c]
        /\ call' = [call EXCEPT ![g] = [call[g] EXCEPT !.at = "run", !.conn = c]]
        /\ mutex' = None /\ UNCHANGED <<failed, fails, faults>>
    BY <1>3 DEF DialOk
  <2> HIDE DEF c
  <2>3. call[g] \in CallType /\ "run" \in Stage
    BY DEF CallType
  <2>4. [call[g] EXCEPT !.at = "run", !.conn = c] \in CallType
    BY <2>1, <2>3, GoneOn
  <2>5. call' \in [Goroutine -> CallType]
    BY <2>2, <2>4 DEF CallType
  <2>6. /\ state' \in [Conn -> {"none", "open", "broken", "silent", "closed"}]
        /\ conns' \in [Server -> Conn \cup {0}]
    BY <2>1, <2>2
  <2> QED
    BY <2>2, <2>5, <2>6 DEF CallType
<1>4. ASSUME NEW g \in Goroutine, DialFails(g) \/ DialSticks(g) \/ DialDropped(g)
      PROVE  TypeInv'
  <2>1. Idle \in [at : Stage, server : Server \cup {None}, conn : Conn \cup {0}]
    OBVIOUS
  <2>2. CASE DialSticks(g)
    BY <2>2 DEF DialSticks
  <2> HIDE DEF Idle
  <2>3. CASE DialFails(g)
    BY <2>1, <2>3 DEF DialFails
  <2>4. CASE DialDropped(g)
    BY <2>1, <2>4 DEF DialDropped
  <2> QED
    BY <1>4, <2>2, <2>3, <2>4
<1>5. ASSUME NEW g \in Goroutine, RunOk(g) \/ RunFails(g) PROVE TypeInv'
  <2>1. Idle \in [at : Stage, server : Server \cup {None}, conn : Conn \cup {0}]
    OBVIOUS
  <2>2. CASE RunFails(g)
    <3>1. call[g].conn \in Conn
      BY <2>2 DEF RunFails, CallInv, InHand
    <3> QED
      BY <2>2, <3>1 DEF RunFails
  <2> HIDE DEF Idle
  <2>3. CASE RunOk(g)
    BY <2>1, <2>3 DEF RunOk
  <2> QED
    BY <1>5, <2>2, <2>3
<1>6. ASSUME NEW g \in Goroutine, Evict(g) PROVE TypeInv'
  BY <1>6 DEF Evict
<1>7. ASSUME NEW g \in Goroutine, Close(g) PROVE TypeInv'
  <2>1. Idle \in [at : Stage, server : Server \cup {None}, conn : Conn \cup {0}]
    OBVIOUS
  <2>2. call[g].conn \in Conn
    BY <1>7 DEF Close, CallInv, InHand
  <2> HIDE DEF Idle
  <2>3. /\ state' \in [Conn -> {"none", "open", "broken", "silent", "closed"}]
        /\ failed' \in [Conn -> SUBSET Goroutine]
    BY <1>7, <2>2 DEF Close
  <2> QED
    BY <1>7, <2>1, <2>3 DEF Close
<1>8. CASE Trouble("broken") \/ Trouble("silent") \/ SilentDropped
  BY <1>8 DEF Trouble, SilentDropped
<1>9. CASE UNCHANGED vars
  BY <1>9 DEF vars
<1> QED
  BY <1>1, <1>2, <1>3, <1>4, <1>5, <1>6, <1>7, <1>8, <1>9 DEF Next, Dial, Run

LEMMA CallStep == TypeInv /\ CallInv /\ [Next]_vars => CallInv'
<1> SUFFICES ASSUME TypeInv, CallInv, [Next]_vars PROVE CallInv'
  OBVIOUS
<1> USE PoolAssumption
    DEF TypeInv, CallInv, InHand, Stage, At, Goto, Return, ReturnError, Idle, Fault
<1>1. ASSUME NEW g \in Goroutine, NEW s \in Server, Start(g, s) PROVE CallInv'
  BY <1>1 DEF Start
<1>2. ASSUME NEW g \in Goroutine, Client(g) PROVE CallInv'
  BY <1>2 DEF Client
<1>3. ASSUME NEW g \in Goroutine, DialOk(g) PROVE CallInv'
  <2> DEFINE c == CHOOSE c \in Conn : state[c] = "none"
  <2>1. c \in Conn
    BY <1>3 DEF DialOk
  <2>2. c # 0
    BY <2>1, ConnNotZero
  <2> HIDE DEF c
  <2> QED
    BY <1>3, <2>1, <2>2 DEF DialOk, c
<1>4. ASSUME NEW g \in Goroutine, DialFails(g) \/ DialSticks(g) \/ DialDropped(g)
      PROVE  CallInv'
  BY <1>4 DEF DialFails, DialSticks, DialDropped
<1>5. ASSUME NEW g \in Goroutine, RunOk(g) \/ RunFails(g) PROVE CallInv'
  BY <1>5 DEF RunOk, RunFails
<1>6. ASSUME NEW g \in Goroutine, Evict(g) PROVE CallInv'
  BY <1>6 DEF Evict
<1>7. ASSUME NEW g \in Goroutine, Close(g) PROVE CallInv'
  BY <1>7 DEF Close
<1>8. CASE Trouble("broken") \/ Trouble("silent") \/ SilentDropped
  BY <1>8 DEF Trouble, SilentDropped
<1>9. CASE UNCHANGED vars
  BY <1>9 DEF vars
<1> QED
  BY <1>1, <1>2, <1>3, <1>4, <1>5, <1>6, <1>7, <1>8, <1>9 DEF Next, Dial, Run
LEMMA OwnStep == TypeInv /\ CallInv /\ OwnInv /\ [Next]_vars => OwnInv'
<1> SUFFICES ASSUME TypeInv, CallInv, OwnInv, [Next]_vars PROVE OwnInv'
  OBVIOUS
<1> USE PoolAssumption
    DEF TypeInv, CallInv, OwnInv, Reachable, InHand,
        At, Goto, Return, ReturnError, Idle, Fault
<1>1. ASSUME NEW g \in Goroutine, NEW s \in Server, Start(g, s) PROVE OwnInv'
  BY <1>1 DEF Start
<1>2. ASSUME NEW g \in Goroutine, Client(g) PROVE OwnInv'
  <2> DEFINE s == call[g].server
  <2>1. /\ UNCHANGED <<state, conns, failed>>
        /\ \A h \in Goroutine \ {g} : call'[h] = call[h]
    BY <1>2 DEF Client
  <2>2. s \in Server /\ call[g].conn = 0
    BY <1>2 DEF Client
  <2>3. \/ call'[g].conn = conns[s] /\ conns[s] # 0 /\ call'[g].server = s
        \/ call'[g].conn = 0
    BY <1>2, <2>2 DEF Client
  <2> HIDE DEF s
  <2>4. 0 \notin Conn
    BY ConnNotZero
  <2> QED
    BY <2>1, <2>2, <2>3, <2>4
<1>3. ASSUME NEW g \in Goroutine, DialOk(g) PROVE OwnInv'
  <2> DEFINE c == CHOOSE c \in Conn : state[c] = "none"
  <2>1. c \in Conn /\ state[c] = "none"
    BY <1>3 DEF DialOk
  <2>2. c # 0
    BY <2>1, ConnNotZero
  <2>3. /\ At(g, "dial") /\ state' = [state EXCEPT ![c] = "open"]
        /\ conns' = [conns EXCEPT ![call[g].server] = c]
        /\ call' = [call EXCEPT ![g].at = "run", ![g].conn = c]
        /\ UNCHANGED <<failed, fails, faults>>
    BY <1>3 DEF DialOk
  <2> HIDE DEF c
  <2> QED
    BY <2>1, <2>2, <2>3
<1>4. ASSUME NEW g \in Goroutine, DialFails(g) \/ DialSticks(g) \/ DialDropped(g)
      PROVE  OwnInv'
  BY <1>4 DEF DialFails, DialSticks, DialDropped
<1>5. ASSUME NEW g \in Goroutine, RunOk(g) PROVE OwnInv'
  <2>1. /\ call'[g].conn = 0 /\ \A h \in Goroutine \ {g} : call'[h] = call[h]
        /\ UNCHANGED <<state, conns, failed>>
    BY <1>5 DEF RunOk
  <2>2. 0 \notin Conn
    BY ConnNotZero
  <2> QED
    BY <2>1, <2>2
<1>6. ASSUME NEW g \in Goroutine, RunFails(g) PROVE OwnInv'
  BY <1>6 DEF RunFails
<1>7. ASSUME NEW g \in Goroutine, Evict(g) PROVE OwnInv'
  <2>1. /\ \A h \in Goroutine : call'[h].conn = call[h].conn /\ call'[h].server = call[h].server
        /\ \A s \in Server : conns'[s] \in {0, conns[s]}
        /\ UNCHANGED <<state, failed>>
    BY <1>7 DEF Evict
  <2>2. 0 \notin Conn
    BY ConnNotZero
  <2> QED
    BY <2>1, <2>2
<1>8. ASSUME NEW g \in Goroutine, Close(g) PROVE OwnInv'
  <2> DEFINE c == call[g].conn
             last == /\ \A h \in Goroutine \ {g} : call[h].conn # c
                     /\ \A s \in Server : conns[s] # c
  <2>1. /\ call'[g].conn = 0 /\ \A h \in Goroutine \ {g} : call'[h] = call[h]
        /\ UNCHANGED conns
    BY <1>8 DEF Close
  <2>2. c \in Conn
    BY <1>8 DEF Close
  <2>3. /\ state'[c] = IF last THEN "none" ELSE "closed"
        /\ failed'[c] = IF last THEN {} ELSE failed[c]
        /\ \A d \in Conn \ {c} : state'[d] = state[d] /\ failed'[d] = failed[d]
    BY <1>8, <2>2 DEF Close
  <2>4. 0 \notin Conn
    BY ConnNotZero
  <2>5. ASSUME NEW d \in Conn, d \in Reachable' PROVE state'[d] # "none"
    <3>1. d \in Reachable /\ (d = c => ~ last)
      BY <2>1, <2>4, <2>5
    <3> QED
      BY <2>3, <3>1
  <2>6. \A d \in Conn : state'[d] = "none" => failed'[d] = {}
    BY <2>3
  <2> QED
    BY <2>1, <2>2, <2>4, <2>5, <2>6
<1>9. CASE Trouble("broken") \/ Trouble("silent") \/ SilentDropped
  BY <1>9 DEF Trouble, SilentDropped
<1>10. CASE UNCHANGED vars
  BY <1>10 DEF vars
<1> QED
  BY <1>1, <1>2, <1>3, <1>4, <1>5, <1>6, <1>7, <1>8, <1>9, <1>10 DEF Next, Dial, Run

LEMMA FailedStep == TypeInv /\ CallInv /\ OwnInv /\ FailedInv /\ [Next]_vars => FailedInv'
<1> SUFFICES ASSUME TypeInv, CallInv, OwnInv, FailedInv, [Next]_vars PROVE FailedInv'
  OBVIOUS
<1> USE PoolAssumption
    DEF TypeInv, CallInv, OwnInv, FailedInv, Reachable, InHand,
        At, Goto, Return, ReturnError, Idle, Fault
<1>1. ASSUME NEW g \in Goroutine, NEW s \in Server, Start(g, s) PROVE FailedInv'
  BY <1>1 DEF Start
<1>2. ASSUME NEW g \in Goroutine, Client(g) PROVE FailedInv'
  <2> DEFINE s == call[g].server
  <2>1. UNCHANGED <<state, conns, failed>> /\ \A h \in Goroutine \ {g} : call'[h] = call[h]
    BY <1>2 DEF Client
  <2>2. \/ call'[g].at = "run" /\ call'[g].conn = conns[s] /\ conns[s] # 0
        \/ call'[g].at = "idle"
        \/ call'[g].at = "dial"
    BY <1>2 DEF Client
  <2>3. At(g, "lock") /\ s \in Server
    BY <1>2 DEF Client
  <2> HIDE DEF s
  <2>4. ASSUME NEW h \in Goroutine, call'[h].at \in {"evict", "close"}
        PROVE  h \in failed'[call'[h].conn]
    BY <2>1, <2>2, <2>4
  <2>5. ASSUME NEW h \in Goroutine, call'[h].at = "run"
        PROVE  h \notin failed'[call'[h].conn]
    <3>1. CASE h = g
      BY <2>1, <2>2, <2>3, <2>5, <3>1
    <3>2. CASE h # g
      BY <2>1, <2>5, <3>2
    <3> QED
      BY <3>1, <3>2
  <2>6. ASSUME NEW h \in Goroutine, NEW t \in Server, conns'[t] # 0, h \in failed'[conns'[t]]
        PROVE  call'[h].at = "evict" /\ call'[h].conn = conns'[t]
    BY <2>1, <2>3, <2>6
  <2> QED
    BY <2>1, <2>4, <2>5, <2>6
<1>3. ASSUME NEW g \in Goroutine, DialOk(g) PROVE FailedInv'
  <2> DEFINE c == CHOOSE c \in Conn : state[c] = "none"
  <2>1. c \in Conn /\ state[c] = "none"
    BY <1>3 DEF DialOk
  <2>2. c # 0
    BY <2>1, ConnNotZero
  <2>3. /\ At(g, "dial") /\ state' = [state EXCEPT ![c] = "open"]
        /\ conns' = [conns EXCEPT ![call[g].server] = c]
        /\ call' = [call EXCEPT ![g].at = "run", ![g].conn = c]
        /\ UNCHANGED <<failed, fails, faults>>
    BY <1>3 DEF DialOk
  <2> HIDE DEF c
  <2> QED
    BY <2>1, <2>2, <2>3
<1>4. ASSUME NEW g \in Goroutine, DialFails(g) \/ DialSticks(g) \/ DialDropped(g)
      PROVE  FailedInv'
  BY <1>4 DEF DialFails, DialSticks, DialDropped
<1>5. ASSUME NEW g \in Goroutine, RunOk(g) PROVE FailedInv'
  BY <1>5 DEF RunOk
<1>6. ASSUME NEW g \in Goroutine, RunFails(g) PROVE FailedInv'
  <2> DEFINE c == call[g].conn
  <2>1. /\ \A h \in Goroutine : call'[h].conn = call[h].conn
        /\ call'[g].at = "evict" /\ \A h \in Goroutine \ {g} : call'[h].at = call[h].at
        /\ At(g, "run") /\ UNCHANGED conns
    BY <1>6 DEF RunFails
  <2>2. c \in Conn
    BY <1>6 DEF RunFails
  <2>3. /\ failed'[c] = failed[c] \cup {g}
        /\ \A d \in Conn \ {c} : failed'[d] = failed[d]
    BY <1>6, <2>2 DEF RunFails
  <2> HIDE DEF c
  <2>5. \A h \in Goroutine : call'[h].at \in {"evict", "close"} => h \in failed'[call'[h].conn]
    BY <2>1, <2>2, <2>3 DEF c
  <2>6. \A h \in Goroutine : call'[h].at = "run" => h \notin failed'[call'[h].conn]
    BY <2>1, <2>2, <2>3 DEF c
  <2>7. ASSUME NEW h \in Goroutine, NEW s \in Server, conns'[s] # 0, h \in failed'[conns'[s]]
        PROVE  call'[h].at = "evict" /\ call'[h].conn = conns'[s]
    BY <2>1, <2>2, <2>3, <2>7 DEF c
  <2> QED
    BY <2>5, <2>6, <2>7
<1>7. ASSUME NEW g \in Goroutine, Evict(g) PROVE FailedInv'
  BY <1>7 DEF Evict
<1>8. ASSUME NEW g \in Goroutine, Close(g) PROVE FailedInv'
  BY <1>8 DEF Close
<1>9. CASE Trouble("broken") \/ Trouble("silent") \/ SilentDropped
  BY <1>9 DEF Trouble, SilentDropped
<1>10. CASE UNCHANGED vars
  BY <1>10 DEF vars
<1> QED
  BY <1>1, <1>2, <1>3, <1>4, <1>5, <1>6, <1>7, <1>8, <1>9, <1>10 DEF Next, Dial, Run

-----------------------------------------------------------------------------
LEMMA ConnSets ==
    ASSUME NEW A \in SUBSET Conn
    PROVE  /\ Cardinality(A) \in Nat
           /\ \A B \in SUBSET A : Cardinality(B) <= Cardinality(A)
           /\ \A B \in SUBSET Conn, c \in Conn :
                 B \subseteq A \cup {c} => Cardinality(B) <= Cardinality(A) + 1
           /\ \A B, c : c \in A /\ B \subseteq A \ {c} => Cardinality(B) <= Cardinality(A) - 1
<1>1. IsFiniteSet(Conn)
  <2>1. 1 \in Int /\ MaxConns \in Int
    BY PoolAssumption
  <2> QED
    BY <2>1, FS_Interval DEF Conn
<1>2. IsFiniteSet(A) /\ Cardinality(A) \in Nat
  BY <1>1, FS_Subset, FS_CardinalityType
<1>3. ASSUME NEW B \in SUBSET A PROVE Cardinality(B) <= Cardinality(A)
  BY <1>2, FS_Subset
<1>4. ASSUME NEW B \in SUBSET Conn, NEW c \in Conn, B \subseteq A \cup {c}
      PROVE  Cardinality(B) <= Cardinality(A) + 1
  <2>1. /\ IsFiniteSet(A \cup {c})
        /\ Cardinality(A \cup {c}) = IF c \in A THEN Cardinality(A) ELSE Cardinality(A) + 1
    BY <1>2, FS_AddElement
  <2>2. Cardinality(B) <= Cardinality(A \cup {c})
    BY <1>4, <2>1, FS_Subset
  <2>3. Cardinality(B) \in Nat
    BY <1>1, FS_Subset, FS_CardinalityType
  <2> QED
    BY <1>2, <2>1, <2>2, <2>3
<1>5. ASSUME NEW B, NEW c, c \in A, B \subseteq A \ {c}
      PROVE  Cardinality(B) <= Cardinality(A) - 1
  <2>1. IsFiniteSet(A \ {c}) /\ Cardinality(A \ {c}) = Cardinality(A) - 1
    BY <1>2, <1>5, FS_RemoveElement
  <2> QED
    BY <1>5, <2>1, FS_Subset
<1> QED
  BY <1>2, <1>3, <1>4, <1>5

\* Out of the map a connection is with one goroutine at most that may still evict.
LEMMA OnceStep ==
    TypeInv /\ CallInv /\ OwnInv /\ FailedInv /\ OnceInv /\ [Next]_vars => OnceInv'
<1> SUFFICES ASSUME TypeInv, CallInv, OwnInv, FailedInv, OnceInv, [Next]_vars PROVE OnceInv'
  OBVIOUS
<1> USE PoolAssumption DEF TypeInv, OnceInv, InMap
<1>1. ASSUME \A g \in Goroutine :
                 call'[g].at \in {"run", "evict"}
                     => call[g].at \in {"run", "evict"} /\ call'[g].conn = call[g].conn,
             UNCHANGED conns
      PROVE  OnceInv'
  BY <1>1
<1>2. ASSUME NEW g \in Goroutine, NEW s \in Server, Start(g, s) PROVE OnceInv'
  <2>1. \A h \in Goroutine : h # g => call'[h] = call[h]
    BY <1>2 DEF Start
  <2>2. call'[g].at = "lock" /\ UNCHANGED conns
    BY <1>2 DEF Start
  <2> QED
    BY <1>1, <2>1, <2>2
<1>3. ASSUME NEW g \in Goroutine, Client(g) PROVE OnceInv'
  <2>1. UNCHANGED conns /\ \A h \in Goroutine : h # g => call'[h] = call[h]
    BY <1>3 DEF Client, Return, Goto
  <2>2. \/ call'[g].conn = conns[call[g].server] /\ call[g].server \in Server
        \/ call'[g].at \in {"idle", "dial"}
    BY <1>3 DEF Client, Return, Goto, Idle, CallInv, At
  <2> QED
    BY <2>1, <2>2
<1>4. ASSUME NEW g \in Goroutine, DialOk(g) PROVE OnceInv'
  <2> DEFINE c == CHOOSE c \in Conn : state[c] = "none"
             s == call[g].server
  <2>1. c \in Conn /\ state[c] = "none" /\ At(g, "dial") /\ s \in Server
    BY <1>4 DEF DialOk, CallInv, At
  <2>2. conns[s] = 0 /\ c # 0
    BY <2>1, ConnNotZero DEF CallInv
  <2>3. /\ conns' = [conns EXCEPT ![s] = c]
        /\ call' = [call EXCEPT ![g].at = "run", ![g].conn = c]
    BY <1>4 DEF DialOk
  <2> HIDE DEF c, s
  <2>4. ASSUME NEW d \in Conn, InMap(d) PROVE InMap(d)'
    <3>1. PICK u \in Server : conns[u] = d
      BY <2>4
    <3>2. u # s
      BY <2>2, <3>1, ConnNotZero
    <3>3. conns'[u] = d
      BY <2>3, <3>1, <3>2
    <3> QED
      BY <3>3
  <2>5. \E u \in Server : conns'[u] = c
    BY <2>1, <2>3
  <2>6. \A h \in Goroutine : h # g => call'[h] = call[h]
    BY <1>4 DEF DialOk
  <2>7. call'[g].conn = c
    BY <1>4, <2>3
  <2>8. ASSUME NEW d \in Conn, ~ InMap(d)' PROVE d # c /\ ~ InMap(d)
    BY <2>4, <2>5, <2>8
  <2> QED
    BY <2>6, <2>7, <2>8
<1>5. ASSUME NEW g \in Goroutine, DialFails(g) \/ DialSticks(g) \/ DialDropped(g)
      PROVE  OnceInv'
  BY <1>1, <1>5 DEF DialFails, DialSticks, DialDropped, ReturnError, Goto, Idle
<1>6. ASSUME NEW g \in Goroutine, RunOk(g) PROVE OnceInv'
  BY <1>1, <1>6 DEF RunOk, Return, Idle
<1>7. ASSUME NEW g \in Goroutine, RunFails(g) PROVE OnceInv'
  BY <1>1, <1>7 DEF RunFails, Goto, At
<1>8. ASSUME NEW g \in Goroutine, Evict(g) PROVE OnceInv'
  <2> DEFINE s == call[g].server
  <2>1. /\ conns' = [conns EXCEPT ![s] = 0] /\ s \in Server
        /\ call'[g].at = "close" /\ g \in failed[call[g].conn] /\ call[g].conn \in Conn
        /\ \A h \in Goroutine : h # g => call'[h] = call[h]
    BY <1>8 DEF Evict, Goto, At, CallInv, FailedInv, InHand
  <2> SUFFICES ASSUME NEW c \in Conn, NEW h \in Goroutine, NEW i \in Goroutine, ~ InMap(c)',
                      call'[h].conn = c, call'[h].at \in {"run", "evict"},
                      call'[i].conn = c, call'[i].at \in {"run", "evict"}
               PROVE  h = i
    OBVIOUS
  <2>2. h # g /\ i # g
    BY <2>1
  <2> QED
    BY <2>2 DEF Goroutine
<1>9. ASSUME NEW g \in Goroutine, Close(g) PROVE OnceInv'
  BY <1>1, <1>9 DEF Close, ReturnError, Idle
<1>10. CASE Trouble("broken") \/ Trouble("silent") \/ SilentDropped
  BY <1>10 DEF Trouble, SilentDropped
<1>11. CASE UNCHANGED vars
  BY <1>11 DEF vars
<1> QED
  BY <1>2, <1>3, <1>4, <1>5, <1>6, <1>7, <1>8, <1>9, <1>10, <1>11 DEF Next, Dial, Run

\* What a step may do to the debt.
LEMMA DebtSteps ==
    ASSUME TypeInv, CallInv, OwnInv, FailedInv, OnceInv, [Next]_vars
    PROVE  \/ Debt' \subseteq Debt /\ faults' \in {faults, faults + 1}
           \/ \E c \in Conn : Debt' \subseteq Debt \cup {c} /\ faults' = faults + 1
           \/ \E c \in Debt, d \in Conn : Debt' \subseteq (Debt \ {c}) \cup {d}
                                          /\ faults' = faults
<1> USE PoolAssumption DEF TypeInv
<1> DEFINE Less == Debt' \subseteq Debt
<1>1. ASSUME UNCHANGED <<state, failed, conns>>,
             \A g \in Goroutine :
                 call'[g] = call[g] \/ (call'[g].conn = 0 /\ call[g].conn = 0)
      PROVE  Less
  <2>1. \A c \in Conn : /\ InMap(c)' <=> InMap(c)
                        /\ Busy(c)' <=> Busy(c)
                        /\ Closing(c)' <=> Closing(c)
    BY <1>1, ConnNotZero DEF InMap, Busy, Closing
  <2> QED
    BY <1>1, <2>1 DEF Debt, Forgotten, Doubtful, Alive
<1>2. ASSUME NEW g \in Goroutine, NEW s \in Server, Start(g, s) PROVE Less /\ faults' = faults
  <2>1. call[g].conn = 0 /\ call'[g].conn = 0 /\ \A h \in Goroutine : h # g => call'[h] = call[h]
    BY <1>2 DEF Start, CallInv, At, InHand
  <2> QED
    BY <1>1, <1>2, <2>1 DEF Start
<1>3. ASSUME NEW g \in Goroutine, Client(g) PROVE Less /\ faults' = faults
  <2> DEFINE s == call[g].server
  <2>1. /\ UNCHANGED <<state, failed, conns, faults>> /\ s \in Server /\ call[g].conn = 0
        /\ \A h \in Goroutine : h # g => call'[h] = call[h]
    BY <1>3 DEF Client, Return, Goto, CallInv, At, InHand
  <2>2. CASE conns[s] = 0
    <3>1. call'[g].conn = 0
      BY <1>3, <2>1, <2>2 DEF Client, Return, Goto, Idle
    <3> QED
      BY <1>1, <2>1, <3>1
  <2>3. CASE conns[s] # 0
    <3>1. call'[g].at = "run" /\ call'[g].conn = conns[s]
      BY <1>3, <2>3 DEF Client
    <3>2. \A c \in Conn : /\ InMap(c)' <=> InMap(c)
                          /\ Closing(c)' <=> Closing(c)
                          /\ Busy(c)' => Busy(c) \/ InMap(c)
      BY <2>1, <3>1, ConnNotZero DEF InMap, Busy, Closing
    <3> QED
      BY <2>1, <3>2 DEF Debt, Forgotten, Doubtful, Alive
  <2> QED
    BY <2>2, <2>3
<1>4. ASSUME NEW g \in Goroutine, DialOk(g) PROVE Less /\ faults' = faults
  <2> DEFINE c == CHOOSE c \in Conn : state[c] = "none"
             s == call[g].server
  <2>1. c \in Conn /\ state[c] = "none" /\ At(g, "dial") /\ s \in Server
    BY <1>4 DEF DialOk, CallInv, At
  <2>2. conns[s] = 0 /\ c # 0 /\ call[g].conn = 0 /\ failed[c] = {}
    BY <2>1, ConnNotZero DEF CallInv, OwnInv, At, InHand
  <2>3. /\ conns' = [conns EXCEPT ![s] = c]
        /\ call' = [call EXCEPT ![g].at = "run", ![g].conn = c]
        /\ state' = [state EXCEPT ![c] = "open"] /\ UNCHANGED <<failed, faults>>
    BY <1>4 DEF DialOk
  <2> HIDE DEF c, s
  <2>4. c \notin Debt'
    BY <2>1, <2>2, <2>3 DEF Debt, Forgotten, Doubtful, Alive, InMap
  <2>5. \A h \in Goroutine : h # g => call'[h] = call[h]
    BY <2>3
  <2>6. call'[g].conn = c /\ call'[g].at = "run"
    BY <2>3
  <2>7. \A d \in Conn : d # c => /\ InMap(d)' <=> InMap(d)
                                 /\ Closing(d)' <=> Closing(d)
                                 /\ Busy(d)' <=> Busy(d)
                                 /\ state'[d] = state[d]
    BY <2>1, <2>2, <2>3, <2>5, <2>6, ConnNotZero DEF InMap, Busy, Closing
  <2> QED
    BY <2>3, <2>4, <2>7 DEF Debt, Forgotten, Doubtful, Alive
<1>5. ASSUME NEW g \in Goroutine, DialFails(g) \/ DialSticks(g) \/ DialDropped(g)
      PROVE  Less /\ faults' \in {faults, faults + 1}
  <2>1. /\ call[g].conn = 0 /\ call'[g].conn = 0
        /\ \A h \in Goroutine : h # g => call'[h] = call[h]
    BY <1>5 DEF DialFails, DialSticks, DialDropped, ReturnError, Goto, Idle, CallInv, At,
                InHand
  <2> QED
    BY <1>1, <1>5, <2>1 DEF DialFails, DialSticks, DialDropped, Fault
<1>6. ASSUME NEW g \in Goroutine, RunOk(g) PROVE Less /\ faults' = faults
  <2> DEFINE c == call[g].conn
  <2>1. /\ UNCHANGED <<state, failed, conns, faults>> /\ At(g, "run") /\ call'[g].at = "idle"
        /\ \A h \in Goroutine : h # g => call'[h] = call[h]
    BY <1>6 DEF RunOk, Return, Idle
  <2>2. \A d \in Conn : /\ InMap(d)' <=> InMap(d)
                        /\ Closing(d)' <=> Closing(d)
                        /\ Busy(d)' => Busy(d)
    BY <2>1 DEF InMap, Busy, Closing, At
  <2> QED
    BY <2>1, <2>2 DEF Debt, Forgotten, Doubtful, Alive
<1>7. ASSUME NEW g \in Goroutine, RunFails(g)
      PROVE  \/ Less /\ faults' = faults
             \/ \E c \in Conn : Debt' \subseteq Debt \cup {c} /\ faults' = faults + 1
  <2> DEFINE c == call[g].conn
  <2>1. /\ UNCHANGED <<state, conns>> /\ At(g, "run") /\ c \in Conn
        /\ call'[g].at = "evict" /\ call'[g].conn = c
        /\ \A h \in Goroutine : h # g => call'[h] = call[h]
    BY <1>7 DEF RunFails, Goto, CallInv, At, InHand
  <2>2. \A d \in Conn : d # c => failed'[d] = failed[d]
    BY <1>7, <2>1 DEF RunFails
  <2>3. \A d \in Conn : /\ InMap(d)' <=> InMap(d)
                        /\ Busy(d)' <=> Busy(d)
                        /\ Closing(d) => Closing(d)'
    BY <2>1 DEF InMap, Busy, Closing, At
  <2>4. Debt' \subseteq Debt \cup {c}
    BY <2>1, <2>2, <2>3 DEF Debt, Forgotten, Doubtful, Alive
  <2>5. CASE state[c] \in {"broken", "closed"} /\ UNCHANGED faults
    <3>1. c \in Debt
      BY <2>1, <2>5 DEF Debt, Doubtful, Busy, At
    <3> QED
      BY <2>4, <2>5, <3>1
  <2>6. CASE Fault
    BY <2>1, <2>4, <2>6 DEF Fault
  <2> QED
    BY <1>7, <2>5, <2>6 DEF RunFails
<1>8. ASSUME NEW g \in Goroutine, Evict(g)
      PROVE  \/ Less /\ faults' = faults
             \/ \E c \in Debt, d \in Conn : Debt' \subseteq (Debt \ {c}) \cup {d}
                                            /\ faults' = faults
  <2> DEFINE c == call[g].conn
             s == call[g].server
  <2>1. /\ conns' = [conns EXCEPT ![s] = 0] /\ s \in Server
        /\ At(g, "evict") /\ call'[g].at = "close" /\ call'[g].conn = c
        /\ g \in failed[c] /\ c \in Conn
        /\ UNCHANGED <<state, failed, faults>>
        /\ \A h \in Goroutine : h # g => call'[h] = call[h]
    BY <1>8 DEF Evict, Goto, At, CallInv, FailedInv, InHand
  <2>2. \A d \in Conn : /\ InMap(d)' => InMap(d)
                        /\ d # conns[s] => (InMap(d) => InMap(d)')
                        /\ Busy(d)' => Busy(d)
                        /\ Closing(d)' <=> Closing(d)
    BY <2>1, ConnNotZero DEF InMap, Busy, Closing, At
  <2>3. Closing(c) /\ Busy(c)
    BY <2>1 DEF Closing, Busy, At
  <2>4. CASE conns[s] = c
    <3> SUFFICES ASSUME NEW d \in Conn, d \in Debt' PROVE d \in Debt
      BY <2>1 DEF Debt
    <3>1. CASE d = c
      BY <2>1, <2>3, <3>1 DEF Debt, Doubtful
    <3>2. CASE d # c
      BY <2>1, <2>2, <2>4, <3>2 DEF Debt, Forgotten, Doubtful, Alive
    <3> QED
      BY <3>1, <3>2
  <2>5. CASE conns[s] # c
    <3>1. ~ InMap(c)
      BY <2>1, <2>5, ConnNotZero DEF InMap, OwnInv
    <3>2. ~ Busy(c)'
      BY <2>1, <3>1 DEF Busy, OnceInv, At
    <3>3. c \in Debt /\ c \notin Debt'
      BY <2>1, <2>2, <2>3, <3>1, <3>2 DEF Debt, Forgotten, Doubtful, Alive
    <3>4. CASE conns[s] = 0
      <4>1. Debt' \subseteq Debt
        BY <2>1, <2>2, <3>4, ConnNotZero DEF Debt, Forgotten, Doubtful, Alive
      <4> QED
        BY <2>1, <4>1
    <3>5. CASE conns[s] # 0
      <4>1. conns[s] \in Conn
        BY <2>1, <3>5
      <4>2. Debt' \subseteq Debt \cup {conns[s]}
        BY <2>1, <2>2 DEF Debt, Forgotten, Doubtful, Alive
      <4>3. Debt' \subseteq (Debt \ {c}) \cup {conns[s]}
        BY <3>3, <4>2
      <4> QED
        BY <2>1, <3>3, <4>1, <4>3
    <3> QED
      BY <3>4, <3>5
  <2> QED
    BY <2>1, <2>4, <2>5
<1>9. ASSUME NEW g \in Goroutine, Close(g) PROVE Less /\ faults' = faults
  <2> DEFINE c == call[g].conn
  <2>1. /\ UNCHANGED <<conns, faults>> /\ At(g, "close") /\ c \in Conn
        /\ call'[g].at = "idle" /\ call'[g].conn = 0 /\ g \in failed[c]
        /\ \A h \in Goroutine : h # g => call'[h] = call[h]
    BY <1>9 DEF Close, ReturnError, Idle, CallInv, FailedInv, At, InHand
  <2>2. /\ state'[c] \in {"none", "closed"}
        /\ \A d \in Conn : d # c => state'[d] = state[d] /\ failed'[d] = failed[d]
    BY <1>9, <2>1 DEF Close
  <2>3. \A d \in Conn : /\ InMap(d)' <=> InMap(d)
                        /\ Busy(d)' => Busy(d)
                        /\ d # c => (Closing(d) => Closing(d)')
    BY <2>1, ConnNotZero DEF InMap, Busy, Closing, At
  <2>4. c \in Debt' => c \in Debt
    BY <2>1, <2>2, <2>3 DEF Debt, Forgotten, Doubtful, Alive
  <2>5. \A d \in Conn : d # c /\ d \in Debt' => d \in Debt
    BY <2>2, <2>3 DEF Debt, Forgotten, Doubtful, Alive
  <2> QED
    BY <2>1, <2>4, <2>5 DEF Debt
<1>10. ASSUME NEW now \in {"broken", "silent"}, Trouble(now)
       PROVE  \E c \in Conn : Debt' \subseteq Debt \cup {c} /\ faults' = faults + 1
  <2>1. PICK c \in Conn : state[c] = "open" /\ state' = [state EXCEPT ![c] = now]
    BY <1>10 DEF Trouble
  <2>2. UNCHANGED <<conns, call, failed>> /\ faults' = faults + 1
    BY <1>10 DEF Trouble, Fault
  <2> QED
    BY <2>1, <2>2 DEF Debt, Forgotten, Doubtful, Alive, InMap, Busy, Closing
<1>11. CASE SilentDropped
  <2>1. PICK c \in Conn : state[c] = "silent" /\ state' = [state EXCEPT ![c] = "broken"]
    BY <1>11 DEF SilentDropped
  <2>2. UNCHANGED <<conns, call, failed, faults>>
    BY <1>11 DEF SilentDropped
  <2> QED
    BY <2>1, <2>2 DEF Debt, Forgotten, Doubtful, Alive, InMap, Busy, Closing
<1>12. CASE UNCHANGED vars
  BY <1>1, <1>12 DEF vars
<1> HIDE DEF Less
<1>13. CASE Less /\ faults' \in {faults, faults + 1}
  BY <1>13 DEF Less
<1> QED
  BY <1>2, <1>3, <1>4, <1>5, <1>6, <1>7, <1>8, <1>9, <1>10, <1>11, <1>12, <1>13
  DEF Next, Dial, Run

LEMMA DebtStep ==
    TypeInv /\ CallInv /\ OwnInv /\ FailedInv /\ OnceInv /\ DebtInv /\ [Next]_vars => DebtInv'
<1> SUFFICES ASSUME TypeInv, CallInv, OwnInv, FailedInv, OnceInv, DebtInv, [Next]_vars
             PROVE  Cardinality(Debt') <= faults'
  BY DEF DebtInv
<1>1. /\ Cardinality(Debt) \in Nat /\ Cardinality(Debt') \in Nat /\ faults \in Nat
      /\ Cardinality(Debt) <= faults /\ Debt \in SUBSET Conn /\ Debt' \in SUBSET Conn
  <2>1. Debt \in SUBSET Conn /\ Debt' \in SUBSET Conn
    BY DEF Debt
  <2> QED
    BY <2>1, ConnSets DEF DebtInv, TypeInv
<1>2. CASE Debt' \subseteq Debt /\ faults' \in {faults, faults + 1}
  <2>1. Cardinality(Debt') <= Cardinality(Debt)
    BY <1>1, <1>2, ConnSets
  <2> QED
    BY <1>1, <1>2, <2>1
<1>3. ASSUME NEW c \in Conn, Debt' \subseteq Debt \cup {c}, faults' = faults + 1
      PROVE  Cardinality(Debt') <= faults'
  <2>1. Cardinality(Debt') <= Cardinality(Debt) + 1
    BY <1>1, <1>3, ConnSets
  <2> QED
    BY <1>1, <1>3, <2>1
<1>4. ASSUME NEW c \in Debt, NEW d \in Conn, Debt' \subseteq (Debt \ {c}) \cup {d},
             faults' = faults
      PROVE  Cardinality(Debt') <= faults'
  <2> DEFINE rest == Debt \ {c}
  <2>1. rest \in SUBSET Conn /\ Cardinality(rest) <= Cardinality(Debt) - 1
    BY <1>1, ConnSets
  <2>2. Cardinality(rest) \in Nat /\ Cardinality(Debt') <= Cardinality(rest) + 1
    BY <1>1, <1>4, <2>1, ConnSets
  <2> QED
    BY <1>1, <1>4, <2>1, <2>2
<1> QED
  BY <1>2, <1>3, <1>4, DebtSteps

\* A step that adds at most what the faults allow.
LEMMA Paid ==
    ASSUME TypeInv, PaidInv, NEW h \in Goroutine,
           NEW dp \in Int, NEW dc \in Int, NEW df \in Int, NEW d \in Int,
           Pending(h)' = Pending(h) + dp, Cardinality(Charged(h)') <= Cardinality(Charged(h)) + dc,
           fails'[h] = fails[h] + df, faults' = faults + d, dp + dc + df <= d
    PROVE  fails'[h] + Pending(h)' + Cardinality(Charged(h)') <= faults'
<1>1. /\ Cardinality(Charged(h)) \in Nat /\ Pending(h) \in Nat /\ fails[h] \in Nat
      /\ faults \in Nat
  BY ConnSets DEF Charged, Pending, TypeInv
<1>2. Cardinality(Charged(h)') \in Nat
  <2>1. Charged(h)' \in SUBSET Conn
    BY DEF Charged
  <2> QED
    BY <2>1, ConnSets
<1>3. fails[h] + Pending(h) + Cardinality(Charged(h)) <= faults
  BY DEF PaidInv
<1> HIDE DEF Charged, Pending
<1> QED
  BY <1>1, <1>2, <1>3
LEMMA PaidStep ==
    TypeInv /\ CallInv /\ OwnInv /\ FailedInv /\ PaidInv /\ [Next]_vars => PaidInv'
<1> SUFFICES ASSUME TypeInv, CallInv, OwnInv, FailedInv, PaidInv, [Next]_vars,
                    NEW h \in Goroutine
             PROVE  fails'[h] + Pending(h)' + Cardinality(Charged(h)') <= faults'
  BY DEF PaidInv
<1> DEFINE Goal == fails'[h] + Pending(h)' + Cardinality(Charged(h)') <= faults'
           n == Cardinality(Charged(h))
<1>1. /\ n \in Nat /\ fails[h] \in Nat /\ faults \in Nat /\ Charged(h) \in SUBSET Conn
      /\ Charged(h)' \in SUBSET Conn
  BY ConnSets DEF TypeInv, Charged
<1>2. Charged(h)' \subseteq Charged(h) => Cardinality(Charged(h)') <= n + 0
  BY <1>1, ConnSets
<1>3. \A c \in Conn : Charged(h)' \subseteq Charged(h) \cup {c} => Cardinality(Charged(h)') <= n + 1
  BY <1>1, ConnSets
<1>4. \A c \in Charged(h) : Charged(h)' \subseteq Charged(h) \ {c}
                               => Cardinality(Charged(h)') <= n + (-1)
  BY <1>1, ConnSets
<1>5. ASSUME NEW dp \in Int, NEW dc \in Int, NEW df \in Int, NEW d \in Int,
             Pending(h)' = Pending(h) + dp, Cardinality(Charged(h)') <= n + dc,
             fails'[h] = fails[h] + df, faults' = faults + d, dp + dc + df <= d
      PROVE  Goal
  BY <1>5, Paid
<1> HIDE DEF n, Goal
<1>6. ASSUME call'[h].at = call[h].at \/ Pending(h)' = Pending(h), fails'[h] = fails[h]
      PROVE  /\ Charged(h)' \subseteq Charged(h) /\ faults' \in {faults, faults + 1} => Goal
             /\ \A c \in Conn : Charged(h)' \subseteq Charged(h) \cup {c} /\ faults' = faults + 1
                                   => Goal
  <2>1. Pending(h)' = Pending(h) + 0 /\ fails'[h] = fails[h] + 0
    BY <1>1, <1>6 DEF Pending
  <2>2. CASE Charged(h)' \subseteq Charged(h) /\ faults' = faults
    BY <1>1, <1>2, <1>5, <2>1, <2>2
  <2>3. CASE Charged(h)' \subseteq Charged(h) /\ faults' = faults + 1
    BY <1>1, <1>2, <1>5, <2>1, <2>3
  <2>4. ASSUME NEW c \in Conn, Charged(h)' \subseteq Charged(h) \cup {c}, faults' = faults + 1
        PROVE  Goal
    BY <1>1, <1>3, <1>5, <2>1, <2>4
  <2> QED
    BY <2>2, <2>3, <2>4
<1> USE DEF At, Goto, Return, ReturnError, Idle, Fault
<1>7. ASSUME NEW g \in Goroutine, NEW s \in Server, Start(g, s) PROVE Goal
  <2>1. Pending(h)' = Pending(h) /\ UNCHANGED <<state, failed, fails, faults>>
    BY <1>7 DEF Start, Pending, TypeInv
  <2> QED
    BY <1>6, <2>1 DEF Charged
<1>8. ASSUME NEW g \in Goroutine, Client(g) PROVE Goal
  <2>1. Pending(h)' = Pending(h) /\ UNCHANGED <<state, failed, faults>>
    BY <1>8 DEF Client, Pending, TypeInv
  <2>2. UNCHANGED fails
    BY <1>8 DEF Client
  <2> QED
    BY <1>6, <2>1, <2>2 DEF Charged
<1>9. ASSUME NEW g \in Goroutine, DialOk(g) PROVE Goal
  <2> DEFINE c == CHOOSE c \in Conn : state[c] = "none"
  <2>1. c \in Conn /\ state[c] = "none"
    BY <1>9 DEF DialOk
  <2>2. /\ At(g, "dial") /\ state' = [state EXCEPT ![c] = "open"]
        /\ call' = [call EXCEPT ![g].at = "run", ![g].conn = c]
        /\ UNCHANGED <<failed, fails, faults>>
    BY <1>9 DEF DialOk
  <2> HIDE DEF c
  <2>3. Pending(h)' = Pending(h)
    BY <2>2 DEF Pending, TypeInv
  <2>4. Charged(h)' \subseteq Charged(h)
    BY <2>1, <2>2 DEF Charged, TypeInv, OwnInv
  <2> QED
    BY <1>6, <2>2, <2>3, <2>4
<1>10. ASSUME NEW g \in Goroutine, DialFails(g) PROVE Goal
  <2>1. Charged(h)' \subseteq Charged(h) /\ faults' = faults + 1
    BY <1>10 DEF DialFails, Charged
  <2>2. CASE h = g
    <3>1. Pending(h)' = Pending(h) + 0 /\ fails'[h] = fails[h] + 1
      BY <1>1, <1>10, <2>2 DEF DialFails, Pending, TypeInv
    <3> QED
      BY <1>2, <1>5, <2>1, <3>1
  <2>3. CASE h # g
    BY <1>6, <1>10, <2>1, <2>3 DEF DialFails, TypeInv
  <2> QED
    BY <2>2, <2>3
<1>11. ASSUME NEW g \in Goroutine, DialSticks(g) PROVE Goal
  <2>1. faults' = faults + 1 /\ UNCHANGED <<state, failed>>
    BY <1>11 DEF DialSticks
  <2>2. Charged(h)' \subseteq Charged(h)
    BY <2>1 DEF Charged
  <2>3. CASE h = g
    <3>1. Pending(h)' = Pending(h) + 1 /\ fails'[h] = fails[h] + 0
      BY <1>1, <1>11, <2>3 DEF DialSticks, Pending, TypeInv
    <3>2. Cardinality(Charged(h)') <= n + 0
      BY <1>2, <2>2
    <3> QED
      BY <1>2, <1>5, <2>1, <2>2, <3>1, <3>2
  <2>4. CASE h # g
    BY <1>6, <1>11, <2>1, <2>2, <2>4 DEF DialSticks, TypeInv
  <2> QED
    BY <2>3, <2>4
<1>12. ASSUME NEW g \in Goroutine, DialDropped(g) PROVE Goal
  <2>1. Charged(h)' \subseteq Charged(h)
    BY <1>12 DEF DialDropped, Charged
  <2>2. CASE h = g
    <3>1. Pending(h)' = Pending(h) + (-1) /\ fails'[h] = fails[h] + 1 /\ faults' = faults + 0
      BY <1>1, <1>12, <2>2 DEF DialDropped, Pending, TypeInv
    <3>2. Cardinality(Charged(h)') <= n + 0
      BY <1>2, <2>1
    <3> QED
      BY <1>5, <3>1, <3>2
  <2>3. CASE h # g
    BY <1>6, <1>12, <2>1, <2>3 DEF DialDropped, TypeInv
  <2> QED
    BY <2>2, <2>3
<1>13. ASSUME NEW g \in Goroutine, RunOk(g) PROVE Goal
  <2>1. Pending(h)' = Pending(h) /\ UNCHANGED <<state, failed, fails, faults>>
    BY <1>13 DEF RunOk, Pending, TypeInv
  <2> QED
    BY <1>6, <2>1 DEF Charged
<1>14. ASSUME NEW g \in Goroutine, RunFails(g) PROVE Goal
  <2> DEFINE c == call[g].conn
  <2>1. /\ c \in Conn /\ At(g, "run") /\ g \notin failed[c]
        /\ UNCHANGED <<state, fails>>
    BY <1>14 DEF RunFails, TypeInv, CallInv, InHand, FailedInv
  <2>2. /\ failed'[c] = failed[c] \cup {g}
        /\ \A d \in Conn \ {c} : failed'[d] = failed[d]
    BY <1>14, <2>1 DEF RunFails, TypeInv
  <2>3. /\ call'[g].at = "evict"
        /\ \A k \in Goroutine \ {g} : call'[k].at = call[k].at
    BY <1>14 DEF RunFails, TypeInv
  <2>4. \/ state[c] \in {"broken", "closed"} /\ faults' = faults
        \/ state[c] = "open" /\ faults' = faults + 1
    BY <1>14 DEF RunFails
  <2> HIDE DEF c
  <2>5. CASE h = g
    <3>1. Pending(h)' = Pending(h) + 1 /\ fails'[h] = fails[h] + 0
      BY <1>1, <2>1, <2>3, <2>5 DEF Pending
    <3>2. Charged(h)' \subseteq Charged(h) \ {c}
      BY <2>1, <2>2, <2>5 DEF Charged
    <3>3. CASE state[c] \in {"broken", "closed"} /\ faults' = faults
      <4>1. c \in Charged(h)
        BY <2>1, <2>5, <3>3 DEF Charged
      <4>2. faults' = faults + 0
        BY <1>1, <3>3
      <4> QED
        BY <1>4, <1>5, <3>1, <3>2, <4>1, <4>2
    <3>4. CASE faults' = faults + 1
      BY <1>2, <1>5, <3>1, <3>2, <3>4
    <3> QED
      BY <2>4, <3>3, <3>4
  <2>6. CASE h # g
    <3>1. CASE state[c] \in {"broken", "closed"} /\ faults' = faults
      <4>1. Charged(h)' \subseteq Charged(h)
        BY <2>1, <2>2, <2>6, <3>1 DEF Charged
      <4> QED
        BY <1>6, <2>1, <2>3, <2>6, <3>1, <4>1
    <3>2. CASE faults' = faults + 1
      <4>1. Charged(h)' \subseteq Charged(h) \cup {c}
        BY <2>1, <2>2 DEF Charged
      <4> QED
        BY <1>6, <2>1, <2>3, <2>6, <3>2, <4>1
    <3> QED
      BY <2>4, <3>1, <3>2
  <2> QED
    BY <2>5, <2>6
<1>15. ASSUME NEW g \in Goroutine, Evict(g) PROVE Goal
  <2>1. Pending(h)' = Pending(h) /\ UNCHANGED <<state, failed, fails, faults>>
    BY <1>15 DEF Evict, Pending, TypeInv
  <2> QED
    BY <1>6, <2>1 DEF Charged
<1>16. ASSUME NEW g \in Goroutine, Close(g) PROVE Goal
  <2> DEFINE c == call[g].conn
             last == /\ \A k \in Goroutine \ {g} : call[k].conn # c
                     /\ \A s \in Server : conns[s] # c
  <2>1. c \in Conn /\ At(g, "close") /\ g \in failed[c] /\ state[c] # "none"
    BY <1>16 DEF Close, TypeInv, CallInv, InHand, FailedInv, OwnInv, Reachable
  <2>2. /\ state'[c] = IF last THEN "none" ELSE "closed"
        /\ failed'[c] = IF last THEN {} ELSE failed[c]
        /\ \A d \in Conn \ {c} : state'[d] = state[d] /\ failed'[d] = failed[d]
    BY <1>16, <2>1 DEF Close, TypeInv
  <2>3. /\ call'[g].at = "idle" /\ fails'[g] = fails[g] + 1 /\ faults' = faults
        /\ \A k \in Goroutine \ {g} : call'[k].at = call[k].at /\ fails'[k] = fails[k]
    BY <1>16 DEF Close, TypeInv
  <2> HIDE DEF c, last
  <2>4. Charged(h)' \subseteq Charged(h)
    BY <2>1, <2>2 DEF Charged
  <2>5. CASE h = g
    <3>1. /\ Pending(h)' = Pending(h) + (-1) /\ fails'[h] = fails[h] + 1
          /\ faults' = faults + 0
      BY <1>1, <2>1, <2>3, <2>5 DEF Pending
    <3> QED
      BY <1>2, <1>5, <2>4, <3>1
  <2>6. CASE h # g
    BY <1>6, <2>3, <2>4, <2>6
  <2> QED
    BY <2>5, <2>6
<1>17. ASSUME NEW now, Trouble(now) PROVE Goal
  <2>1. PICK c \in Conn : state' = [state EXCEPT ![c] = now]
    BY <1>17 DEF Trouble
  <2>2. UNCHANGED <<call, failed, fails>> /\ faults' = faults + 1
    BY <1>17 DEF Trouble
  <2>3. Charged(h)' \subseteq Charged(h) \cup {c}
    BY <2>1, <2>2 DEF Charged, TypeInv
  <2> QED
    BY <1>6, <2>2, <2>3
<1>18. ASSUME SilentDropped PROVE Goal
  <2>1. PICK c \in Conn : state[c] = "silent" /\ state' = [state EXCEPT ![c] = "broken"]
    BY <1>18 DEF SilentDropped
  <2>2. UNCHANGED <<call, failed, fails, faults>>
    BY <1>18 DEF SilentDropped
  <2>3. Charged(h)' \subseteq Charged(h)
    BY <2>1, <2>2 DEF Charged, TypeInv
  <2> QED
    BY <1>6, <2>2, <2>3
<1>19. ASSUME UNCHANGED vars PROVE Goal
  BY <1>6, <1>19 DEF vars, Charged
<1> QED
  BY <1>7, <1>8, <1>9, <1>10, <1>11, <1>12, <1>13, <1>14, <1>15, <1>16, <1>17, <1>18,
     <1>19
  DEF Next, Dial, Run, Goal

-----------------------------------------------------------------------------
LEMMA PInvAlways == Spec => []PInv
<1>1. Init => PInv
  <2> SUFFICES ASSUME Init PROVE PInv
    OBVIOUS
  <2> USE PoolAssumption DEF Init
  <2>1. \A c \in Conn : c # 0
    BY ConnNotZero
  <2>2. TypeInv
    BY DEF TypeInv, Stage, Idle
  <2>3. CallInv /\ OwnInv /\ FailedInv
    BY <2>1 DEF CallInv, OwnInv, FailedInv, Reachable, Idle, At, InHand
  <2>5. OnceInv /\ DebtInv
    <3>1. Debt = {}
      BY DEF Debt, Forgotten, Doubtful, Alive, InMap, Busy, Idle
    <3> QED
      BY <3>1, FS_EmptySet DEF OnceInv, DebtInv, Idle
  <2>4. PaidInv
    <3>1. \A g \in Goroutine : Charged(g) = {} /\ Pending(g) = 0
      BY DEF Charged, Pending, Idle
    <3> QED
      BY <3>1, FS_EmptySet DEF PaidInv
  <2> QED
    BY <2>2, <2>3, <2>4, <2>5 DEF PInv
<1>2. PInv /\ [Next]_vars => PInv'
  BY TypeStep, CallStep, OwnStep, FailedStep, OnceStep, DebtStep, PaidStep DEF PInv
<1> QED
  BY <1>1, <1>2, PTL DEF Spec

\* Of the connections that are left open and out of reach there are no more than
\* faults: OneLeakPerFault.
THEOREM FaultsPayForLeaks == Spec => []OneLeakPerFault
<1>1. PInv => OneLeakPerFault
  <2> SUFFICES ASSUME PInv PROVE OneLeakPerFault
    OBVIOUS
  <2> DEFINE leaks == {c \in Conn : /\ state[c] \in {"open", "broken", "silent"}
                                    /\ c \notin Reachable}
  <2>1. leaks \in SUBSET Debt /\ Debt \in SUBSET Conn
    BY DEF Debt, Forgotten, Alive, InMap, Closing, Reachable
  <2>2. /\ Cardinality(leaks) \in Nat /\ Cardinality(Debt) \in Nat
        /\ Cardinality(leaks) <= Cardinality(Debt)
    BY <2>1, ConnSets
  <2> QED
    BY <2>2 DEF PInv, DebtInv, TypeInv, OneLeakPerFault
<1> QED
  BY <1>1, PInvAlways, PTL

\* A fault fails one call of each goroutine at most, however they share and close
\* connections: OneFaultOneFailure.
THEOREM FaultsPayForFailures == Spec => []OneFaultOneFailure
<1>1. PInv => OneFaultOneFailure
  <2> SUFFICES ASSUME PInv, NEW g \in Goroutine PROVE fails[g] <= faults
    BY DEF OneFaultOneFailure
  <2>1. /\ Cardinality(Charged(g)) \in Nat /\ Pending(g) \in Nat /\ fails[g] \in Nat
        /\ faults \in Nat
    BY ConnSets DEF Charged, Pending, PInv, TypeInv
  <2>2. fails[g] + Pending(g) + Cardinality(Charged(g)) <= faults
    BY DEF PInv, PaidInv
  <2> HIDE DEF Pending, Charged
  <2> QED
    BY <2>1, <2>2
<1> QED
  BY <1>1, PInvAlways, PTL

-----------------------------------------------------------------------------
(* What Returns rests on                                                     *)

\* The steps of a call that are left, at most.
Rank(g) ==
    CASE At(g, "lock")  -> 5
      [] At(g, "dial")  -> 4
      [] At(g, "stuck") -> 3
      [] At(g, "run")   -> 3
      [] At(g, "evict") -> 2
      [] At(g, "close") -> 1
      [] OTHER          -> 0

\* A call that is under way goes on to a later stage, or stays.
Onward(g) == ~ At(g, "idle") => call'[g] = call[g] \/ Rank(g)' < Rank(g)

\* A call that waits for no far end has something to do: a command whose connection
\* answers or is gone, a dial, a connection to close, or a mutex to take that is free or
\* held by one that dials and is not stuck.
HasWay(g) ==
    ~ At(g, "idle") /\ ~ Waits(g) =>
        \/ At(g, "run") /\ state[call[g].conn] \in {"open", "broken", "closed"}
        \/ At(g, "dial") \/ At(g, "close")
        \/ /\ At(g, "lock") \/ At(g, "evict")
           /\ mutex = None \/ (\E h \in Goroutine \ {g} : mutex = h /\ At(h, "dial"))

\* Every step of a goroutine brings its call nearer to the return and no step of the
\* other one takes it back: run never tries a command again.
LEMMA OnwardStep == PInv /\ [Next]_vars => [\A g \in Goroutine : Onward(g)]_vars
<1> SUFFICES ASSUME PInv, Next, NEW g \in Goroutine PROVE Onward(g)
  OBVIOUS
<1> USE DEF Onward, Rank, At
<1>1. call \in [Goroutine -> CallType]
  BY DEF PInv, TypeInv, CallType
<1>2. ASSUME NEW h \in Goroutine, NEW s \in Server, Start(h, s) PROVE Onward(g)
  BY <1>1, <1>2 DEF Start
<1>3. ASSUME NEW h \in Goroutine, Client(h) PROVE Onward(g)
  BY <1>1, <1>3 DEF Client, Return, Goto, CallType, Idle
<1>4. ASSUME NEW h \in Goroutine, Dial(h) \/ DialDropped(h) PROVE Onward(g)
  BY <1>1, <1>4 DEF Dial, DialOk, DialFails, DialSticks, DialDropped, ReturnError, Goto,
                   CallType, Idle
<1>5. ASSUME NEW h \in Goroutine, Run(h) PROVE Onward(g)
  BY <1>1, <1>5 DEF Run, RunOk, RunFails, Return, Goto, CallType, Idle
<1>6. ASSUME NEW h \in Goroutine, Evict(h) \/ Close(h) PROVE Onward(g)
  BY <1>1, <1>6 DEF Evict, Close, ReturnError, Goto, CallType, Idle
<1>7. CASE Trouble("broken") \/ Trouble("silent") \/ SilentDropped
  BY <1>7 DEF Trouble, SilentDropped
<1> QED
  BY <1>2, <1>3, <1>4, <1>5, <1>6, <1>7 DEF Next

\* The safety half of Returns, for any servers and faults: a call that waits for no far
\* end has something to do at every moment, and whatever is done brings it nearer to its
\* return.
THEOREM CallsMoveOn ==
    Spec => /\ [](\A g \in Goroutine : HasWay(g))
            /\ [][\A g \in Goroutine : Onward(g)]_vars
<1>1. PInv => \A g \in Goroutine : HasWay(g)
  <2> SUFFICES ASSUME PInv, NEW g \in Goroutine, ~ At(g, "idle"), ~ Waits(g) PROVE HasWay(g)
    BY DEF HasWay
  <2>1. call[g].at \in Stage /\ CallInv
    BY DEF PInv, TypeInv
  <2>2. CASE At(g, "run")
    <3>1. call[g].conn \in Conn /\ call[g].conn \in Reachable
      BY <2>1, <2>2 DEF PInv, TypeInv, CallInv, At, InHand, Reachable
    <3>2. state[call[g].conn] \in {"open", "broken", "silent", "closed"}
      BY <3>1 DEF PInv, TypeInv, OwnInv
    <3> QED
      BY <2>2, <3>2 DEF HasWay, Waits
  <2>3. CASE At(g, "lock") \/ At(g, "evict")
    <3>1. mutex # g
      BY <2>1, <2>3 DEF CallInv, At
    <3>2. mutex = None \/ \E h \in Goroutine \ {g} : mutex = h /\ At(h, "dial")
      BY <2>1, <3>1, PoolAssumption DEF PInv, TypeInv, CallInv, Waits
    <3> QED
      BY <2>3, <3>2 DEF HasWay
  <2>4. CASE At(g, "dial") \/ At(g, "close")
    BY <2>4 DEF HasWay
  <2>5. CASE At(g, "stuck")
    BY <2>1, <2>5, PoolAssumption DEF CallInv, Waits, At
  <2> QED
    BY <2>1, <2>2, <2>3, <2>4, <2>5 DEF Stage, At
<1> QED
  BY <1>1, PInvAlways, OnwardStep, PTL DEF Spec
=============================================================================
