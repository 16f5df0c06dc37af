---------------------------- MODULE PeerLifecycle ----------------------------
(***************************************************************************)
(* The life of a VPN peer: internal/service/service.go driving two stores  *)
(* that know nothing of each other, the Postgres database                  *)
(* (internal/store/postgres) and the AmneziaWG server reached over SSH     *)
(* (internal/vpn/sshprovider, deploy/server).                              *)
(*                                                                         *)
(* A worker is one update loop of the bot (tgbot.Bot.Run): it handles one  *)
(* update at a time, and every call it makes to the database or to the     *)
(* server is one action here, so other workers, abandoned commands,        *)
(* crashes and reboots come between any two of them.  The deployment runs  *)
(* one worker; two overlap only if a second replica is started.            *)
(*                                                                         *)
(* One server is modelled: CreateConfig only ever uses DefaultServer, and  *)
(* each row carries the id of its server.                                  *)
(***************************************************************************)
EXTENDS Integers, FiniteSets, Sequences

CONSTANTS
    Worker,        \* update loops of the bot
    User,          \* Telegram users
    Admin,         \* the users of ADMIN_IDS
    Key,           \* public keys; GenerateKeyPair never repeats one
    PoolSize,      \* addresses Allocate may give out
    Limit,         \* limits an admin may set
    DefaultLimit,  \* DEFAULT_CONFIG_LIMIT
    Faults,        \* kinds of faults: "db", "ssh", "awg", "crash", "reboot"
    MaxFaults,     \* bound: faults in one behaviour
    None           \* no user, no key

IP == 1..PoolSize

ASSUME ConstantsAssumption ==
    /\ Admin \subseteq User
    /\ IsFiniteSet(Key)
    /\ PoolSize \in Nat
    /\ Limit \subseteq Nat
    /\ DefaultLimit \in Nat
    /\ MaxFaults \in Nat
    /\ None \notin User \cup Key

VARIABLES
    \* The database.
    account,   \* users.enabled, "absent" when there is no row
    limit,     \* users.config_limit
    access,    \* user_server_access: users granted the server
    row,       \* vpn_peers: no row, active, or revoked_at set
    \* What was drawn for each key when its configuration was made.
    owner,     \* telegram_id; None: the key has not been generated
    addr,      \* client_ip
    \* The server.
    line,      \* place of the key's [Peer] block in the conf file, 0 if absent
    live,      \* peers of the running interface
    route,     \* allowed-ips of the running interface: an address has one peer
    late,      \* commands whose caller has given up and that may still run
    \* The bot.
    job,       \* what each worker is doing
    \* History and bounds.
    struck,    \* keys for which a removal has been attempted
    told,      \* users last reported to the admin as disabled and revoked
    faults     \* kinds of the faults so far

dbVars     == <<account, limit, access, row>>
issueVars  == <<owner, addr>>
serverVars == <<line, live, route>>
vars == <<dbVars, issueVars, serverVars, late, job, struck, told, faults>>

Stage == {"idle",
          "access", "limit", "alloc", "add", "save", "clean",   \* CreateConfig
          "get", "remove", "revoke",                            \* DeleteConfig
          "list", "loop", "strike",                             \* AdminDisableUser
          "grant"}                                              \* AdminAddUser

\* The stages in which a worker holds a key.
KeyStage == {"add", "save", "clean", "get", "remove", "revoke", "strike"}

Job == [at : Stage, user : User \cup {None}, key : Key \cup {None},
        lim : Nat, todo : SUBSET Key]

Task(stage, user, key, lim, todo) ==
    [at |-> stage, user |-> user, key |-> key, lim |-> lim, todo |-> todo]

Idle == Task("idle", None, None, 0, {})

TypeOK ==
    /\ account \in [User -> {"absent", "on", "off"}]
    /\ limit \in [User -> Nat]
    /\ access \subseteq User
    /\ row \in [Key -> {"none", "active", "revoked"}]
    /\ owner \in [Key -> User \cup {None}]
    /\ addr \in [Key -> IP \cup {0}]
    /\ line \in [Key -> Nat]
    /\ live \subseteq Key
    /\ route \in [IP -> Key \cup {None}]
    /\ late \subseteq {"add", "remove"} \X Key
    /\ job \in [Worker -> Job]
    /\ \A w \in Worker : /\ job[w].at # "idle" => job[w].user \in User
                         /\ job[w].at \in KeyStage => job[w].key \in Key
    /\ struck \subseteq Key
    /\ told \subseteq User
    /\ faults \in Seq(Faults)

Init ==
    /\ account = [u \in User |-> "absent"]
    /\ limit = [u \in User |-> 0]
    /\ access = {}
    /\ row = [k \in Key |-> "none"]
    /\ owner = [k \in Key |-> None]
    /\ addr = [k \in Key |-> 0]
    /\ line = [k \in Key |-> 0]
    /\ live = {}
    /\ route = [i \in IP |-> None]
    /\ late = {}
    /\ job = [w \in Worker |-> Idle]
    /\ struck = {}
    /\ told = {}
    /\ faults = <<>>

-----------------------------------------------------------------------------
(* Helpers                                                                 *)

At(w, stage) == job[w].at = stage

\* The worker takes up a task, goes on to another stage of it, or returns.
Take(w, task) == job' = [job EXCEPT ![w] = task]
Goto(w, stage) == job' = [job EXCEPT ![w].at = stage]
Return(w) == Take(w, Idle)

\* A fault of the given kind happens, if the configuration allows another.
Fault(kind) ==
    /\ kind \in Faults
    /\ Len(faults) < MaxFaults
    /\ faults' = Append(faults, kind)

\* No fault of these kinds has happened.
Spared(kinds) == \A i \in 1..Len(faults) : faults[i] \notin kinds

\* How many faults of these kinds have happened, in all and since the last reboot.
Count(kinds) == Cardinality({i \in 1..Len(faults) : faults[i] \in kinds})

SinceReboot(kinds) ==
    Cardinality({i \in 1..Len(faults) :
        faults[i] \in kinds /\ \A j \in i..Len(faults) : faults[j] # "reboot"})

-----------------------------------------------------------------------------
(* Queries                                                                 *)

ListActivePeers(u) == {k \in Key : row[k] = "active" /\ owner[k] = u}

UsedAddresses == {addr[k] : k \in {j \in Key : row[j] = "active"}}

\* Mutant: the owner is not compared.
GetActivePeerOfAnyone(u, k) == row[k] = "active"

GetActivePeer(u, k) == row[k] = "active" /\ owner[k] = u

\* Mutant: one more than the limit.
AtLimitOffByOne(active, lim) == active > lim

AtLimit(active, lim) == active >= lim

\* userAllowed: the gate before every button of a user.
UserAllowed(u) == u \in Admin \/ account[u] = "on"

\* The partial unique index uq_vpn_peers_active_ip.  The index on public keys
\* cannot be hit: a key is inserted at most once.
AddressTaken(k) == addr[k] \in UsedAddresses

-----------------------------------------------------------------------------
(* The scripts on the server                                               *)

InConf == {k \in Key : line[k] # 0}

\* The block is appended at the end of the file.
AppendBlock(k) ==
    /\ line[k] = 0
    /\ line' = [line EXCEPT ![k] = Cardinality(InConf) + 1]

\* Mutant: every other block moves up.
CutBlockShiftsAll(k) ==
    line' = [j \in Key |-> IF j = k THEN 0 ELSE line[j] - 1]

\* The block is cut out, and those below it move up.
CutBlock(k) ==
    line' = [j \in Key |-> IF j = k THEN 0
                           ELSE IF line[j] > line[k] THEN line[j] - 1
                           ELSE line[j]]

\* The kernel gives an address to one peer at a time: the last "awg set" wins.
AwgSetPeer(k) ==
    /\ live' = live \cup {k}
    /\ route' = [route EXCEPT ![addr[k]] = k]

AwgRemovePeer(k) ==
    /\ live' = live \ {k}
    /\ route' = [i \in IP |-> IF route[i] = k THEN None ELSE route[i]]

PeerAdd(k) == AppendBlock(k) /\ AwgSetPeer(k)

\* Mutant: the running peer is forgotten.
PeerRemoveConfOnly(k) ==
    /\ IF line[k] = 0 THEN UNCHANGED line ELSE CutBlock(k)
    /\ UNCHANGED <<live, route>>

\* PEER_NOT_FOUND leaves everything alone; otherwise both the block and the
\* running peer go.
PeerRemove(k) ==
    \/ /\ line[k] = 0
       /\ UNCHANGED serverVars
    \/ /\ line[k] # 0
       /\ CutBlock(k)
       /\ AwgRemovePeer(k)

\* The last line of awg-peer-remove ends in "|| true": the running peer stays
\* and the script still reports success.
PeerRemoveAwgFails(k) ==
    /\ Fault("awg")
    /\ line[k] # 0
    /\ CutBlock(k)
    /\ UNCHANGED <<live, route>>

\* RemovePeer returns nil: removed, not there any more, or "|| true".
RemovePeer(k) ==
    /\ struck' = struck \cup {k}
    /\ \/ PeerRemove(k) /\ UNCHANGED faults
       \/ PeerRemoveAwgFails(k)
    /\ UNCHANGED late

\* RemovePeer returns an error: the command has not run, or has not run yet.
RemovePeerFails(k) ==
    /\ Fault("ssh")
    /\ struck' = struck \cup {k}
    /\ late' = late \cup {<<"remove", k>>}
    /\ UNCHANGED serverVars

-----------------------------------------------------------------------------
(* CreateConfig: access and limit, then the peer on the server, then the   *)
(* row.  A refused request changes nothing and is left out; a read that    *)
(* fails ends the handler (ReadFails).                                     *)

\* s.user: the limit is read here and used three calls later.
CreateGetUser(w, u) ==
    /\ job[w] = Idle
    /\ account[u] = "on"
    /\ Take(w, Task("access", u, None, limit[u], {}))
    /\ UNCHANGED <<dbVars, issueVars, serverVars, late, struck, told, faults>>

CreateHasAccess(w) ==
    /\ At(w, "access")
    /\ IF job[w].user \in access THEN Goto(w, "limit") ELSE Return(w)
    /\ UNCHANGED <<dbVars, issueVars, serverVars, late, struck, told, faults>>

CreateCheckLimit(w) ==
    /\ At(w, "limit")
    /\ IF AtLimit(Cardinality(ListActivePeers(job[w].user)), job[w].lim)
       THEN Return(w) ELSE Goto(w, "alloc")
    /\ UNCHANGED <<dbVars, issueVars, serverVars, late, struck, told, faults>>

\* Mutant: only the addresses of the user's own peers count as used.
CreateAllocateOwnPeers(w) ==
    LET used == {addr[k] : k \in ListActivePeers(job[w].user)} IN
    /\ At(w, "alloc")
    /\ \E k \in Key, i \in IP \ used :
        /\ owner[k] = None
        /\ \A j \in IP \ used : i <= j
        /\ owner' = [owner EXCEPT ![k] = job[w].user]
        /\ addr' = [addr EXCEPT ![k] = i]
        /\ Take(w, Task("add", job[w].user, k, job[w].lim, {}))
    /\ UNCHANGED <<dbVars, serverVars, late, struck, told, faults>>

\* ListActivePeersOnServer, Allocate (the first free address), GenerateKeyPair.
CreateAllocate(w) ==
    /\ At(w, "alloc")
    /\ \E k \in Key, i \in IP \ UsedAddresses :
        /\ owner[k] = None
        /\ \A j \in IP \ UsedAddresses : i <= j
        /\ owner' = [owner EXCEPT ![k] = job[w].user]
        /\ addr' = [addr EXCEPT ![k] = i]
        /\ Take(w, Task("add", job[w].user, k, job[w].lim, {}))
    /\ UNCHANGED <<dbVars, serverVars, late, struck, told, faults>>

\* ErrNoFreeIPs; or no key is left, which is the bound on keys.
CreateAllocateFails(w) ==
    /\ At(w, "alloc")
    /\ IP \subseteq UsedAddresses \/ \A k \in Key : owner[k] # None
    /\ Return(w)
    /\ UNCHANGED <<dbVars, issueVars, serverVars, late, struck, told, faults>>

\* The client configuration is built and patched next, in memory.  Patch fails
\* only on a text without AllowedIPs, which BuildClientConfig always writes.
CreateAddPeer(w) ==
    /\ At(w, "add")
    /\ PeerAdd(job[w].key)
    /\ Goto(w, "save")
    /\ UNCHANGED <<dbVars, issueVars, late, struck, told, faults>>

\* The block is written but "awg set" fails: an error, and nothing is undone.
CreateAddPeerAwgFails(w) ==
    /\ At(w, "add")
    /\ Fault("awg")
    /\ AppendBlock(job[w].key)
    /\ Return(w)
    /\ UNCHANGED <<dbVars, issueVars, live, route, late, struck, told>>

\* Mutant: the error is only logged.
CreateIgnoresAddError(w) ==
    /\ At(w, "add")
    /\ Fault("ssh")
    /\ late' = late \cup {<<"add", job[w].key>>}
    /\ Goto(w, "save")
    /\ UNCHANGED <<dbVars, issueVars, serverVars, struck, told>>

\* The SSH call fails; nothing is known of the command and nothing is undone.
CreateAddPeerFails(w) ==
    /\ At(w, "add")
    /\ Fault("ssh")
    /\ late' = late \cup {<<"add", job[w].key>>}
    /\ Return(w)
    /\ UNCHANGED <<dbVars, issueVars, serverVars, struck, told>>

\* The row is inserted and the configuration goes to the user.
CreateSave(w) ==
    /\ At(w, "save")
    /\ ~ AddressTaken(job[w].key)
    /\ row' = [row EXCEPT ![job[w].key] = "active"]
    /\ Return(w)
    /\ UNCHANGED <<account, limit, access, issueVars, serverVars, late, struck,
                   told, faults>>

\* The insert is refused by the index, or fails before or after the commit.
CreateSaveFails(w) ==
    /\ At(w, "save")
    /\ \/ AddressTaken(job[w].key) /\ UNCHANGED <<row, faults>>
       \/ Fault("db") /\ UNCHANGED row
       \/ /\ Fault("db")
          /\ ~ AddressTaken(job[w].key)
          /\ row' = [row EXCEPT ![job[w].key] = "active"]
    /\ Goto(w, "clean")
    /\ UNCHANGED <<account, limit, access, issueVars, serverVars, late, struck, told>>

\* Mutant: a peer that could not be saved stays on the server.
CreateSkipsCleanUp(w) ==
    /\ At(w, "clean")
    /\ Return(w)
    /\ UNCHANGED <<dbVars, issueVars, serverVars, late, struck, told, faults>>

\* bestEffortRemove.
CreateCleanUp(w) ==
    /\ At(w, "clean")
    /\ RemovePeer(job[w].key) \/ RemovePeerFails(job[w].key)
    /\ Return(w)
    /\ UNCHANGED <<dbVars, issueVars, told>>

-----------------------------------------------------------------------------
(* DeleteConfig: the server first, then the row.                           *)

\* A press of "delete": the button of any row ever listed may be pressed, again
\* and by anyone who sees the chat.
DeletePress(w, u, k) ==
    /\ job[w] = Idle
    /\ UserAllowed(u)
    /\ row[k] # "none"
    /\ Take(w, Task("get", u, k, 0, {}))
    /\ UNCHANGED <<dbVars, issueVars, serverVars, late, struck, told, faults>>

DeleteGetPeer(w) ==
    /\ At(w, "get")
    /\ IF GetActivePeer(job[w].user, job[w].key) THEN Goto(w, "remove") ELSE Return(w)
    /\ UNCHANGED <<dbVars, issueVars, serverVars, late, struck, told, faults>>

\* Mutant: the row is revoked although the server kept the peer.
DeleteIgnoresRemoveError(w) ==
    /\ At(w, "remove")
    /\ RemovePeer(job[w].key) \/ RemovePeerFails(job[w].key)
    /\ Goto(w, "revoke")
    /\ UNCHANGED <<dbVars, issueVars, told>>

DeleteRemovePeer(w) ==
    /\ At(w, "remove")
    /\ \/ RemovePeer(job[w].key) /\ Goto(w, "revoke")
       \/ RemovePeerFails(job[w].key) /\ Return(w)
    /\ UNCHANGED <<dbVars, issueVars, told>>

\* Mutant: the row is deleted.
RevokePeerDeletes(k) ==
    \/ row' = [row EXCEPT ![k] = "none"] /\ UNCHANGED faults
    \/ Fault("db") /\ UNCHANGED row

\* Revoking a row already revoked (by another worker) is ErrNotFound and leaves
\* it revoked; a failed call may or may not have been committed.
RevokePeer(k) ==
    \/ row' = [row EXCEPT ![k] = "revoked"] /\ UNCHANGED faults
    \/ Fault("db") /\ UNCHANGED row

DeleteRevoke(w) ==
    /\ At(w, "revoke")
    /\ RevokePeer(job[w].key)
    /\ Return(w)
    /\ UNCHANGED <<account, limit, access, issueVars, serverVars, late, struck, told>>

-----------------------------------------------------------------------------
(* AdminDisableUser and revokeUserPeers                                    *)

DisableSet(w, u) ==
    /\ job[w] = Idle
    /\ account[u] # "absent"
    /\ account' = [account EXCEPT ![u] = "off"]
    /\ \/ /\ Take(w, Task("list", u, None, 0, {}))
          /\ UNCHANGED faults
       \/ Fault("db") /\ UNCHANGED job    \* committed, but reported as an error
    /\ UNCHANGED <<limit, access, row, issueVars, serverVars, late, struck, told>>

\* A list that fails is only logged: the admin is told that all went well.
DisableList(w) ==
    /\ At(w, "list")
    /\ \/ /\ Take(w, Task("loop", job[w].user, None, 0,
                         ListActivePeers(job[w].user)))
          /\ UNCHANGED <<told, faults>>
       \/ /\ Fault("db")
          /\ Return(w)
          /\ told' = told \cup {job[w].user}
    /\ UNCHANGED <<dbVars, issueVars, serverVars, late, struck>>

\* Mutant: a peer that is not on the server is an error.
DisableStopsAtNotFound(w, k) ==
    /\ At(w, "loop")
    /\ k \in job[w].todo
    /\ \/ /\ line[k] # 0
          /\ RemovePeer(k)
          /\ Take(w, Task("strike", job[w].user, k, 0, job[w].todo))
       \/ /\ line[k] = 0
          /\ Take(w, Task("loop", job[w].user, None, 0, job[w].todo \ {k}))
          /\ UNCHANGED <<serverVars, late, struck, faults>>
       \/ /\ RemovePeerFails(k)
          /\ Take(w, Task("loop", job[w].user, None, 0, job[w].todo \ {k}))
    /\ UNCHANGED <<dbVars, issueVars, told>>

\* One peer of the list; one that cannot be removed is passed over.
DisableRemovePeer(w, k) ==
    /\ At(w, "loop")
    /\ k \in job[w].todo
    /\ \/ /\ RemovePeer(k)
          /\ Take(w, Task("strike", job[w].user, k, 0, job[w].todo))
       \/ /\ RemovePeerFails(k)
          /\ Take(w, Task("loop", job[w].user, None, 0, job[w].todo \ {k}))
    /\ UNCHANGED <<dbVars, issueVars, told>>

DisableRevoke(w) ==
    /\ At(w, "strike")
    /\ RevokePeer(job[w].key)
    /\ Take(w, Task("loop", job[w].user, None, 0, job[w].todo \ {job[w].key}))
    /\ UNCHANGED <<account, limit, access, issueVars, serverVars, late, struck, told>>

\* "User disabled, configurations revoked", whatever was passed over.
DisableDone(w) ==
    /\ At(w, "loop")
    /\ job[w].todo = {}
    /\ Return(w)
    /\ told' = told \cup {job[w].user}
    /\ UNCHANGED <<dbVars, issueVars, serverVars, late, struck, faults>>

-----------------------------------------------------------------------------
(* AdminAddUser (a command, a button or a redeemed invite), AdminSetLimit  *)

\* UpsertUser also enables a disabled user and resets the limit.
AddUpsertUser(w, u) ==
    /\ job[w] = Idle
    /\ account' = [account EXCEPT ![u] = "on"]
    /\ limit' = [limit EXCEPT ![u] = DefaultLimit]
    /\ told' = told \ {u}
    /\ \/ /\ Take(w, Task("grant", u, None, 0, {}))
          /\ UNCHANGED faults
       \/ Fault("db") /\ UNCHANGED job    \* committed, but reported as an error
    /\ UNCHANGED <<access, row, issueVars, serverVars, late, struck>>

AddGrantAccess(w) ==
    /\ At(w, "grant")
    /\ \/ access' = access \cup {job[w].user} /\ UNCHANGED faults
       \/ Fault("db") /\ UNCHANGED access
    /\ Return(w)
    /\ UNCHANGED <<account, limit, row, issueVars, serverVars, late, struck, told>>

SetLimit(w, u, n) ==
    /\ job[w] = Idle
    /\ account[u] # "absent"
    /\ limit' = [limit EXCEPT ![u] = n]
    /\ UNCHANGED <<account, access, row, issueVars, serverVars, late, job, struck,
                   told, faults>>

-----------------------------------------------------------------------------
(* Failures                                                                *)

\* A query of CreateConfig or DeleteConfig fails and the handler returns.
ReadFails(w) ==
    /\ job[w].at \in {"access", "limit", "alloc", "get"}
    /\ Fault("db")
    /\ Return(w)
    /\ UNCHANGED <<dbVars, issueVars, serverVars, late, struck, told>>

\* The commands the worker may have sent and not yet heard of.
InFlight(w) ==
    CASE At(w, "add") -> {<<"add", job[w].key>>}
      [] job[w].at \in {"clean", "remove"} -> {<<"remove", job[w].key>>}
      [] At(w, "loop") -> {<<"remove", k>> : k \in job[w].todo}
      [] OTHER -> {}

\* The bot stops anywhere in a handler; the update is not handled again.
Crash(w) ==
    /\ job[w] # Idle
    /\ Fault("crash")
    /\ \E sent \in {{}} \cup {{c} : c \in InFlight(w)} :
        /\ late' = late \cup sent
        /\ struck' = struck \cup {k \in Key : <<"remove", k>> \in sent}
    /\ Return(w)
    /\ UNCHANGED <<dbVars, issueVars, serverVars, told>>

\* An abandoned command runs on the server after all.
LateCommand(op, k) ==
    /\ <<op, k>> \in late
    /\ late' = late \ {<<op, k>>}
    /\ \/ op = "add" /\ PeerAdd(k)
       \/ op = "remove" /\ PeerRemove(k)
    /\ UNCHANGED <<dbVars, issueVars, job, struck, told, faults>>

\* The blocks that claim an address; the last one read wins.
Claims(i) == {k \in InConf : addr[k] = i}

\* The server restarts and the interface is rebuilt from the conf file.
Reboot ==
    /\ Fault("reboot")
    /\ live' = InConf
    /\ \E r \in [IP -> Key \cup {None}] :
        /\ \A i \in IP :
            \/ Claims(i) = {} /\ r[i] = None
            \/ r[i] \in Claims(i) /\ \A k \in Claims(i) : line[k] <= line[r[i]]
        /\ route' = r
    /\ late' = {}
    /\ UNCHANGED <<dbVars, issueVars, line, job, struck, told>>

-----------------------------------------------------------------------------
WorkerStep(w) ==
    \/ CreateHasAccess(w) \/ CreateCheckLimit(w)
    \/ CreateAllocate(w) \/ CreateAllocateFails(w)
    \/ CreateAddPeer(w) \/ CreateAddPeerAwgFails(w) \/ CreateAddPeerFails(w)
    \/ CreateSave(w) \/ CreateSaveFails(w) \/ CreateCleanUp(w)
    \/ DeleteGetPeer(w) \/ DeleteRemovePeer(w) \/ DeleteRevoke(w)
    \/ DisableList(w) \/ (\E k \in Key : DisableRemovePeer(w, k))
    \/ DisableRevoke(w) \/ DisableDone(w)
    \/ AddGrantAccess(w)
    \/ ReadFails(w)

Request(w) ==
    \/ \E u \in User : CreateGetUser(w, u) \/ DisableSet(w, u) \/ AddUpsertUser(w, u)
    \/ \E u \in User, k \in Key : DeletePress(w, u, k)
    \/ \E u \in User, n \in Limit : SetLimit(w, u, n)

Next ==
    \/ \E w \in Worker : Request(w) \/ WorkerStep(w) \/ Crash(w)
    \/ \E op \in {"add", "remove"}, k \in Key : LateCommand(op, k)
    \/ Reboot

Spec == Init /\ [][Next]_vars

\* The update loop always takes its next update to the end; nothing is assumed
\* of users, admins, faults or abandoned commands.
LiveSpec == Spec /\ \A w \in Worker : WF_vars(WorkerStep(w))

-----------------------------------------------------------------------------
(* Properties                                                              *)

\* A peer whose row is revoked is not in the server's conf file: DeleteConfig
\* and revokeUserPeers remove before they revoke, and no command abandoned on
\* the way brings the block back.
RevokedOffServer == \A k \in Key : row[k] = "revoked" => line[k] = 0

\* A peer whose row is revoked is not on the running interface: once a
\* configuration is deleted, or its user disabled, it connects no more.  Only an
\* awg that fails under awg-peer-remove, which reports success all the same,
\* leaves a peer up, one each time, until the server is rebooted.
RevokedStaysOut ==
    Cardinality({k \in live : row[k] = "revoked"}) <= SinceReboot({"awg"})

\* A row is active only for a peer whose block is in the conf file, until the
\* first attempt to remove it: CreateConfig never saves a peer it has not made.
ActiveInConf ==
    \A k \in Key : row[k] = "active" /\ k \notin struck => line[k] # 0

\* A configuration that was saved, and so sent to its user, works until the first
\* attempt to remove it: its peer is up and its address is routed to it.  Only an
\* add that was abandoned and runs late takes an address away, from one peer each
\* time; a failed "awg set", a failed insert and a reboot take none.
OneDownPerFault ==
    LET down == {k \in Key : /\ row[k] = "active" /\ k \notin struck
                             /\ ~ (k \in live /\ route[addr[k]] = k)}
    IN Cardinality(down) <= Count({"ssh", "crash"})

\* The calls that fail in a way CreateConfig does not make good: it undoes the
\* insert that is refused, and neither an "awg set" nor a call that is cut off.
NotUndone == {"ssh", "awg", "crash"}

\* Between two updates every block of the conf file belongs to an active row, but
\* for one that each of these faults may have left behind: no other fault, no
\* retry and no command that runs late makes them more.
OneOrphanPerFault ==
    (\A w \in Worker : job[w] = Idle)
        => Cardinality({k \in InConf : row[k] # "active"}) <= Count(NotUndone)

\* No two blocks of the conf file claim one address, but for one that each of
\* these faults may have left behind: Allocate, which asks the database alone,
\* returns an address that is free on the server too, or that an orphan holds.
OneSharedPerFault ==
    \E strays \in SUBSET InConf :
        /\ Cardinality(strays) <= Count(NotUndone)
        /\ \A j, k \in InConf \ strays : addr[j] = addr[k] => j = k

\* Of the users the admin has been told are disabled and revoked, only the rows
\* whose removal failed on the way are still active, one each time, although the
\* bot may stop in the middle of a handler.  A query that fails is passed over
\* too, and the admin told all the same: that is left out here.
OneMissedPerFault ==
    Spared({"db"})
        => Cardinality(UNION {ListActivePeers(u) : u \in told}) <= Count({"ssh"})

\* The owner of a row that becomes active is entitled to it at that moment.
EntitledStep ==
    \A k \in Key : row[k] # "active" /\ row'[k] = "active"
        => LET u == owner[k] IN
           /\ account[u] = "on"
           /\ u \in access
           /\ Cardinality(ListActivePeers(u)) < limit[u]

\* A row becomes active only for a user who is enabled and has access at that
\* moment, and whose limit still leaves room for it, although CreateConfig
\* checked all three several calls before.
NewPeerIsEntitled == [][EntitledStep]_vars

\* The rows of the database, as the configurations that have been issued.
config ==
    [k \in Key |-> IF row[k] = "none" THEN [status |-> "none", user |-> None, ip |-> 0]
                   ELSE [status |-> row[k], user |-> owner[k], ip |-> addr[k]]]

D == INSTANCE Directory

\* With one worker the handlers, whatever fails on the way, amount to issues and
\* revocations in one step: no check of CreateConfig is stale when its row is
\* saved, no address is skipped or given twice, and no row comes back.
IsDirectory == D!Spec

\* An active row is revoked only by a handler working for its owner: a user
\* deletes no configuration but their own, a disable touches no other user.
RevokedForOwner ==
    [][\A k \in Key : row[k] = "active" /\ row'[k] = "revoked"
          => \E w \in Worker : job[w].key = k /\ job[w].user = owner[k]]_vars

\* "A leftover peer can be finished by a repeated disable": a user who stays
\* disabled, and whom an admin disables again and again, ends with no active
\* row, whatever failed on the way.
Disabling(u) == \E w \in Worker : At(w, "list") /\ job[w].user = u

RepeatedDisableFinishes ==
    \A u \in User :
        <>[](account[u] = "off") /\ []<>Disabling(u)
            => <>[](ListActivePeers(u) = {})
=============================================================================
