------------------------------ MODULE Directory ------------------------------
(***************************************************************************)
(* What the bot promises of its configurations, as if each were issued and *)
(* revoked in one step: every issue is one its user is entitled to then,   *)
(* at the lowest address nobody holds, and what is revoked stays revoked.  *)
(* PeerLifecycle implements this with a worker, a database and a server    *)
(* that act one after the other and fail.                                  *)
(***************************************************************************)
EXTENDS Naturals, FiniteSets

CONSTANTS User, Key, PoolSize, Limit, DefaultLimit, None

VARIABLES
    account,  \* of each user: "absent", "on" or "off"
    limit,    \* of each user: configurations allowed
    access,   \* users granted the server
    config    \* of each key: its status, user and address

vars == <<account, limit, access, config>>

IP == 1..PoolSize
NoConfig == [status |-> "none", user |-> None, ip |-> 0]

Active == {k \in Key : config[k].status = "active"}
ActiveOf(u) == {k \in Active : config[k].user = u}
Held == {config[k].ip : k \in Active}

Init ==
    /\ account = [u \in User |-> "absent"]
    /\ limit = [u \in User |-> 0]
    /\ access = {}
    /\ config = [k \in Key |-> NoConfig]

Entitled(u) ==
    /\ account[u] = "on"
    /\ u \in access
    /\ Cardinality(ActiveOf(u)) < limit[u]

Issue(u, k) ==
    /\ config[k].status = "none" /\ config'[k].status = "active"
    /\ Entitled(u)
    /\ \E i \in IP \ Held :
        /\ \A j \in IP \ Held : i <= j
        /\ config' = [config EXCEPT ![k] = [status |-> "active", user |-> u, ip |-> i]]
    /\ UNCHANGED <<account, limit, access>>

Revoke(k) ==
    /\ config[k].status = "active"
    /\ config' = [config EXCEPT ![k].status = "revoked"]
    /\ UNCHANGED <<account, limit, access>>

\* Adding a user who is there enables the account and resets the limit.
Add(u) ==
    /\ account' = [account EXCEPT ![u] = "on"]
    /\ limit' = [limit EXCEPT ![u] = DefaultLimit]
    /\ UNCHANGED <<access, config>>

Grant(u) ==
    /\ access' = access \cup {u}
    /\ UNCHANGED <<account, limit, config>>

Disable(u) ==
    /\ account[u] # "absent"
    /\ account' = [account EXCEPT ![u] = "off"]
    /\ UNCHANGED <<limit, access, config>>

SetLimit(u, n) ==
    /\ account[u] # "absent"
    /\ limit' = [limit EXCEPT ![u] = n]
    /\ UNCHANGED <<account, access, config>>

Next ==
    \/ \E k \in Key : Revoke(k) \/ \E u \in User : Issue(u, k)
    \/ \E u \in User : Add(u) \/ Grant(u) \/ Disable(u)
    \/ \E u \in User, n \in Limit : SetLimit(u, n)

Spec == Init /\ [][Next]_vars
=============================================================================
