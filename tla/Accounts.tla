------------------------------ MODULE Accounts ------------------------------
(***************************************************************************)
(* Who may use the bot: accounts, grants, known usernames and invites      *)
(* (internal/service, internal/store/postgres), and the servers that a     *)
(* configuration enables (internal/config).                                *)
(*                                                                         *)
(* One update loop handles one update at a time; each statement sent to    *)
(* the database is an action, may fail before or after it is committed,    *)
(* and the bot may stop between two of them.  A user may write under any   *)
(* @username at any time, since names change hands on Telegram.            *)
(***************************************************************************)
EXTENDS Naturals, Sequences, FiniteSets

CONSTANTS
    User,       \* Telegram users other than the administrators
    Name,       \* @usernames, in lower case
    NServers,   \* servers in the configuration, numbered in its order
    Faults,     \* kinds of faults: "db", "crash"
    MaxFaults,  \* bound: faults in one behaviour
    MaxConfigs, \* bound: restarts with another configuration
    None        \* no username, no user

Server == 1..NServers

\* A @username begins with a letter, so the id of a user as text is none.
ASSUME AccountsAssumption ==
    /\ NServers \in Nat \ {0}
    /\ {MaxFaults, MaxConfigs} \subseteq Nat
    /\ None \notin User \cup Name
    /\ {"none", "id"} \cap Name = {}

VARIABLES
    account,  \* users.enabled, "absent" when there is no row
    access,   \* user_server_access
    known,    \* known_users.username; the id as text once the name was lost
    invites,  \* pending_invites
    enabled,  \* the servers enabled in the configuration
    job,      \* what the update loop is doing
    forgot,   \* the last user whose name was taken from all the others
    owed,     \* names the admin was told will have access, and have not yet
    added,    \* servers enabled when the user was last added, or {}
    faults,   \* kinds of the faults so far
    configs   \* restarts with another configuration so far

database == <<account, access, known, invites>>
history == <<forgot, owed, added>>
vars == <<database, enabled, job, history, faults, configs>>

\* RememberUser is at "forget", "remember", "take"; adminResolveUser at "find",
\* "invite"; AdminAddUser at "upsert", "grant"; the rest of a user's update is
\* "handled".  An admin's update has no name unless it is about one.
Task(at, user, name, todo) == [at |-> at, user |-> user, name |-> name, todo |-> todo]
Idle == Task("idle", None, None, {})

Init ==
    /\ account = [u \in User |-> "absent"]
    /\ access = {}
    /\ known = [u \in User |-> "none"]
    /\ invites = {}
    /\ enabled \in SUBSET Server \ {{}}
    /\ job = Idle
    /\ forgot = [n \in Name |-> None]
    /\ owed = {}
    /\ added = [u \in User |-> {}]
    /\ faults = <<>>
    /\ configs = 0

At(stage) == job.at = stage
Goto(stage) == job' = [job EXCEPT !.at = stage]
Return == job' = Idle

Fault(kind) ==
    /\ kind \in Faults
    /\ Len(faults) < MaxFaults
    /\ faults' = Append(faults, kind)

\* A statement has its effect and the loop goes on; or it fails, committed or not,
\* and the loop goes elsewhere.
Statement(effect, none, then, else) ==
    \/ effect /\ then /\ UNCHANGED faults
    \/ (effect \/ none) /\ else /\ Fault("db")

-----------------------------------------------------------------------------
(* RememberUser, at the start of every update of a user                    *)

\* A user without a @username is not remembered.
Update(u, n) ==
    /\ job = Idle
    /\ job' = Task(IF n = None THEN "handled" ELSE "forget", u, n, {})
    /\ UNCHANGED <<database, enabled, history, faults, configs>>

\* Mutant: the name is not taken from the others.
LosingNothing(u, n) == known

\* The name is taken from whoever else has it ...
Losing(u, n) == [v \in User |-> IF v # u /\ known[v] = n THEN "id" ELSE known[v]]

UpsertKnownForget ==
    /\ At("forget")
    /\ Statement(/\ known' = Losing(job.user, job.name)
                 /\ forgot' = [forgot EXCEPT ![job.name] = job.user],
                 UNCHANGED <<known, forgot>>, Goto("remember"), Goto("handled"))
    /\ UNCHANGED <<account, access, invites, enabled, owed, added, configs>>

\* Mutant: invites are not looked for.
RememberOnly ==
    /\ At("remember")
    /\ Statement(known' = [known EXCEPT ![job.user] = job.name],
                 UNCHANGED known, Goto("handled"), Goto("handled"))
    /\ UNCHANGED <<account, access, invites, enabled, history, configs>>

\* ... and given to the user.
UpsertKnownRemember ==
    /\ At("remember")
    /\ Statement(known' = [known EXCEPT ![job.user] = job.name],
                 UNCHANGED known, Goto("take"), Goto("handled"))
    /\ UNCHANGED <<account, access, invites, enabled, history, configs>>

\* DELETE ... RETURNING: the invite is gone before the account is there.
TakeInvite ==
    /\ At("take")
    /\ Statement(invites' = invites \ {job.name}, UNCHANGED invites,
                 Goto(IF job.name \in invites THEN "upsert" ELSE "handled"),
                 Goto("handled"))
    /\ UNCHANGED <<account, access, known, enabled, history, configs>>

\* What a user's update does then changes nothing here.
Handled ==
    /\ At("handled")
    /\ Return
    /\ UNCHANGED <<database, enabled, history, faults, configs>>

-----------------------------------------------------------------------------
(* AdminAddUser, for a redeemed invite (the job has a name) or for an admin *)

AdminAddUser(u) ==
    /\ job = Idle
    /\ job' = Task("upsert", u, None, {})
    /\ UNCHANGED <<database, enabled, history, faults, configs>>

\* An error is logged for a user, who goes on; it is told to an admin.
Done == IF job.name # None THEN Goto("handled") ELSE Return

UpsertUser ==
    /\ At("upsert")
    /\ Statement(account' = [account EXCEPT ![job.user] = "on"], UNCHANGED account,
                 job' = Task("grant", job.user, job.name, enabled), Done)
    /\ UNCHANGED <<access, known, invites, enabled, history, configs>>

\* EnabledServers in the order of the configuration.
First(servers) == CHOOSE s \in servers : \A t \in servers : s <= t
DefaultServer == First(enabled)

\* Mutant: access to the default server only.
GrantDefault ==
    /\ At("grant")
    /\ job.todo # {}
    /\ Statement(access' = access \cup {<<job.user, DefaultServer>>}, UNCHANGED access,
                 job' = [job EXCEPT !.todo = {}], Done)
    /\ UNCHANGED <<account, known, invites, enabled, history, configs>>

GrantAccess ==
    /\ At("grant")
    /\ job.todo # {}
    /\ LET s == First(job.todo) IN
       Statement(access' = access \cup {<<job.user, s>>}, UNCHANGED access,
                 job' = [job EXCEPT !.todo = @ \ {s}], Done)
    /\ UNCHANGED <<account, known, invites, enabled, history, configs>>

\* "User added", or the invite is redeemed.
AddDone ==
    /\ At("grant")
    /\ job.todo = {}
    /\ Done
    /\ owed' = owed \ {job.name}
    /\ added' = [added EXCEPT ![job.user] = enabled]
    /\ UNCHANGED <<database, enabled, forgot, faults, configs>>

-----------------------------------------------------------------------------
(* The other updates of an administrator                                   *)

\* The admin sends @n to be added.
AddByName(n) ==
    /\ job = Idle
    /\ job' = Task("find", None, n, {})
    /\ UNCHANGED <<database, enabled, history, faults, configs>>

\* A known user gets a button, which adds by id; an error counts as unknown.
FindKnownUser ==
    /\ At("find")
    /\ \/ (\E u \in User : known[u] = job.name) /\ Return /\ UNCHANGED faults
       \/ (\A u \in User : known[u] # job.name) /\ Goto("invite") /\ UNCHANGED faults
       \/ Goto("invite") /\ Fault("db")
    /\ UNCHANGED <<database, enabled, history, configs>>

CreateInvite ==
    /\ At("invite")
    /\ Return
    /\ \/ /\ invites' = invites \cup {job.name}
          /\ owed' = owed \cup {job.name}
          /\ UNCHANGED faults
       \/ /\ invites' \in {invites, invites \cup {job.name}}
          /\ Fault("db") /\ UNCHANGED owed
    /\ UNCHANGED <<account, access, known, enabled, forgot, added, configs>>

\* AdminDisableUser, by command or button; grants and invites stay.
SetUserEnabled(u) ==
    /\ job = Idle
    /\ account[u] # "absent"
    /\ account' = [account EXCEPT ![u] = "off"]
    /\ added' = [added EXCEPT ![u] = {}]
    /\ UNCHANGED <<access, known, invites, enabled, job, forgot, owed, faults, configs>>

-----------------------------------------------------------------------------
(* Stopping and starting                                                   *)

\* The update being handled is lost.
Crash ==
    /\ job # Idle
    /\ Fault("crash")
    /\ Return
    /\ UNCHANGED <<database, enabled, history, configs>>

\* Validate refuses a configuration without an enabled server: the bot then does
\* not start.
Validate(servers) == servers # {}

Reconfigure ==
    /\ job = Idle
    /\ configs < MaxConfigs
    /\ configs' = configs + 1
    /\ \E servers \in SUBSET Server \ {enabled} :
           Validate(servers) /\ enabled' = servers
    /\ UNCHANGED <<database, job, history, faults>>

-----------------------------------------------------------------------------
Next ==
    \/ \E u \in User, n \in Name \cup {None} : Update(u, n)
    \/ UpsertKnownForget \/ UpsertKnownRemember \/ TakeInvite \/ Handled
    \/ \E u \in User : AdminAddUser(u) \/ SetUserEnabled(u)
    \/ UpsertUser \/ GrantAccess \/ AddDone
    \/ \E n \in Name : AddByName(n)
    \/ FindKnownUser \/ CreateInvite
    \/ Crash \/ Reconfigure

Spec == Init /\ [][Next]_vars

-----------------------------------------------------------------------------
(* Properties                                                              *)

\* "Once the person opens the bot and presses Start, access is activated": until
\* then the invite is kept, and it does not wait for somebody the bot knows under
\* that name and who has been served.  A failing statement or a crash in the middle
\* may lose one, of the name in hand and of no other: there is no transaction around
\* the upsert, the invite that is taken and the account that is made.
Redeeming(n) == job.name = n /\ job.at \in {"upsert", "grant"}

Awaited(n) ==
    /\ n \in invites
    /\ ~ (At("handled") /\ job.name = n)
    /\ \A u \in User : known[u] = n => At("take") /\ job.user = u

OneLostPerFault ==
    Cardinality({n \in owed : ~ Redeeming(n) /\ ~ Awaited(n)}) <= Len(faults)

\* An admin who names @n is offered the user whose message was the last to take
\* that name from the others, never an owner from before, whatever failed or
\* stopped between the two statements.
NameOfLastWriter ==
    \A u \in User : known[u] \in Name => forgot[known[u]] = u

\* CreateConfig's checks of account and grant.
MayCreate(u) == account[u] = "on" /\ <<u, DefaultServer>> \in access

\* A user who was added and not disabled since may create configurations, through
\* restarts with other configurations, if the default server was enabled when the
\* user was added: one that is enabled later admits nobody added before.
AddedMayCreate ==
    \A u \in User : DefaultServer \in added[u] => MayCreate(u)
=============================================================================
