-------------------------------- MODULE Routes --------------------------------
(***************************************************************************)
(* The split-routing list: internal/patcher decides whether a list of      *)
(* networks is acceptable, internal/routes fetches one at every tick and   *)
(* keeps the last good one.  An address has Width bits; a list, sorted and *)
(* without doubles when it is in use, is the set of its entries, each a    *)
(* network [base, len] or Junk, which does not parse.                      *)
(***************************************************************************)
EXTENDS AddressSpace, FiniteSets

CONSTANTS
    Blocked,     \* private and service networks
    Default,     \* the list embedded in the program
    Junk,        \* an entry that is no IPv4 network
    Offer,       \* entries the URL may serve
    Down,        \* the URL serves no list
    MaxEntries,  \* bound: entries of a served list
    MaxBody,     \* limit of the code: what is read of a body, here in entries
    MaxChanges   \* bound: changes of what the URL serves

Network == [base : Address, len : 0..Width]
Bits(n) == 2^(Width - n.len)
HostBits(n) == n.base % Bits(n)
Covers(n, a) == a \div Bits(n) = n.base \div Bits(n)

ASSUME RoutesAssumption ==
    /\ {MaxEntries, MaxBody, MaxChanges} \subseteq Nat
    /\ Blocked \subseteq {n \in Network : HostBits(n) = 0}
    /\ Offer \cup Default \subseteq Network \cup {Junk}
    /\ IsFiniteSet(Offer)
    /\ Junk \notin Network

-----------------------------------------------------------------------------
(* internal/patcher                                                        *)

isBlocked(a) == \E n \in Blocked : Covers(n, a)

\* Mutant: private networks are let through once the list parses.
AcceptsPrivate(n) == n # Junk /\ HostBits(n) = 0 /\ n.len # 0

\* A network without host bits, not the whole of IPv4, whose first address is not
\* blocked.
Accepts(n) == n # Junk /\ HostBits(n) = 0 /\ n.len # 0 /\ ~ isBlocked(n.base)

\* One entry that is not accepted refuses the list, and so does a list of none.
ValidateAndClean(cidrs) == cidrs # {} /\ \A n \in cidrs : Accepts(n)

ASSUME DefaultAssumption == ValidateAndClean(Default)

-----------------------------------------------------------------------------
(* internal/routes                                                         *)

VARIABLES
    served,   \* what the URL serves: a list, or Down
    offered,  \* every list it has served
    changes,  \* changes of it so far
    at,       \* where Service.Run is: "tick" or "fetched"
    body,     \* what Refresh has read
    list      \* Service.list

vars == <<served, offered, changes, at, body, list>>

Lists == {l \in SUBSET Offer : Cardinality(l) <= MaxEntries}

Init ==
    /\ served \in Lists \cup {Down}
    /\ offered = {served} \ {Down}
    /\ changes = 0
    /\ at = "tick"
    /\ body = {}
    /\ list = Default

\* What is left of an entry the limit falls into: the length may have lost a digit.
Stump(n) ==
    {{}, {Junk}}
    \cup IF n = Junk THEN {} ELSE {{[n EXCEPT !.len = k]} : k \in 1 .. n.len - 1}

\* A body over the limit is cut without an error.
Read(l) ==
    IF Cardinality(l) <= MaxBody THEN {l}
    ELSE UNION {{kept \cup rest : rest \in UNION {Stump(n) : n \in l \ kept}} :
                kept \in {k \in SUBSET l : Cardinality(k) = MaxBody}}

Fetch ==
    /\ at = "tick"
    /\ served # Down
    /\ body' \in Read(served)
    /\ at' = "fetched"
    /\ UNCHANGED <<served, offered, changes, list>>

\* No connection within 30 seconds, another status than 200, or a body that breaks
\* off: the loop waits for the next tick.
FetchFails ==
    /\ at = "tick"
    /\ served = Down
    /\ UNCHANGED vars

\* Mutant: the first list that is fetched stays.
UpdateOnce ==
    /\ at = "fetched"
    /\ list' = IF ValidateAndClean(body) /\ list = Default THEN body ELSE list
    /\ at' = "tick"
    /\ body' = {}
    /\ UNCHANGED <<served, offered, changes>>

\* Mutant: the entries that are not accepted are left out, and the others used.
UpdateAccepted ==
    /\ at = "fetched"
    /\ LET good == {n \in body : Accepts(n)} IN
           list' = IF good # {} THEN good ELSE list
    /\ at' = "tick"
    /\ body' = {}
    /\ UNCHANGED <<served, offered, changes>>

Update ==
    /\ at = "fetched"
    /\ list' = IF ValidateAndClean(body) THEN body ELSE list
    /\ at' = "tick"
    /\ body' = {}
    /\ UNCHANGED <<served, offered, changes>>

\* The owner of the list publishes another one, or the URL is down or up again.
Publish ==
    /\ changes < MaxChanges
    /\ \E l \in Lists \cup {Down} :
           /\ served' = l
           /\ offered' = offered \cup ({l} \ {Down})
    /\ changes' = changes + 1
    /\ UNCHANGED <<at, body, list>>

Next == Fetch \/ FetchFails \/ Update \/ Publish

\* The ticker goes on, and a request has a time limit.
Fairness == WF_vars(Fetch) /\ WF_vars(Update)

Spec == Init /\ [][Next]_vars /\ Fairness

-----------------------------------------------------------------------------
(* Properties                                                              *)

\* No address of a private or service network is sent through the tunnel, unless by
\* a network that is wider than it and begins before it: only the first address of
\* a network is looked up.
OnlyWiderBlocked ==
    \A n \in list, b \in Blocked, a \in Address :
        Covers(n, a) /\ Covers(b, a) => n.len < b.len /\ n.base < b.base

\* The list in use is the embedded one or one the URL has served, as a whole:
\* never a mixture and never a part, unless a list was over the limit of a body.
WholeOrNothing ==
    \/ list \in offered \cup {Default}
    \/ \E l \in offered : Cardinality(l) > MaxBody

\* What is in use is what the URL serves, if that is a list to be used.
Current ==
    \/ served = Down
    \/ ~ ValidateAndClean(served)
    \/ Cardinality(served) > MaxBody
    \/ list = served

\* Whatever the URL served before, once it settles the bot catches up with it.
CatchesUp == <>[]Current
=============================================================================
