--------------------------- MODULE Accounts_proofs ---------------------------
(***************************************************************************)
(* What Accounts promises, for any users, names, servers and faults.       *)
(***************************************************************************)
EXTENDS Accounts, FiniteSetTheorems, TLAPS

Stage == {"idle", "forget", "remember", "take", "upsert", "grant", "handled",
          "find", "invite"}

TypeInv ==
    /\ account \in [User -> {"absent", "on", "off"}]
    /\ known \in [User -> Name \cup {"none", "id"}]
    /\ forgot \in [Name -> User \cup {None}]
    /\ added \in [User -> SUBSET Server]
    /\ owed \subseteq Name
    /\ enabled \subseteq Server
    /\ job \in [at : Stage, user : User \cup {None}, name : Name \cup {None},
                todo : SUBSET Server]
    /\ job.at \in {"idle", "upsert", "grant", "handled"} \/ job.name \in Name
    /\ job.at \in {"idle", "find", "invite"} \/ job.user \in User

\* Type correctness: a handler that works for a user, or about a name, has one.
THEOREM TypeCorrect == Spec => []TypeInv
<1>1. Init => TypeInv
  BY DEF Init, TypeInv, Idle, Task, Stage
<1>2. TypeInv /\ [Next]_vars => TypeInv'
  <2> SUFFICES ASSUME TypeInv, [Next]_vars PROVE TypeInv'
    OBVIOUS
  <2> USE DEF TypeInv, Stage, At, Goto, Return, Idle, Task, Statement, Done
  <2>1. ASSUME NEW u \in User, NEW n \in Name \cup {None}, Update(u, n) PROVE TypeInv'
    BY <2>1, AccountsAssumption DEF Update, database, history
  <2>2. CASE UpsertKnownForget
    BY <2>2 DEF UpsertKnownForget, Losing
  <2>3. CASE UpsertKnownRemember
    BY <2>3 DEF UpsertKnownRemember, history
  <2>4. CASE TakeInvite
    BY <2>4 DEF TakeInvite, history
  <2>5. CASE Handled
    BY <2>5 DEF Handled, database, history
  <2>6. ASSUME NEW u \in User, AdminAddUser(u) PROVE TypeInv'
    BY <2>6 DEF AdminAddUser, database, history
  <2>7. ASSUME NEW u \in User, SetUserEnabled(u) PROVE TypeInv'
    BY <2>7 DEF SetUserEnabled
  <2>8. CASE UpsertUser
    BY <2>8 DEF UpsertUser, history
  <2>9. CASE GrantAccess
    BY <2>9 DEF GrantAccess, history
  <2>10. CASE AddDone
    BY <2>10 DEF AddDone, database
  <2>11. ASSUME NEW n \in Name, AddByName(n) PROVE TypeInv'
    BY <2>11 DEF AddByName, database, history
  <2>12. CASE FindKnownUser
    BY <2>12 DEF FindKnownUser, database, history
  <2>13. CASE CreateInvite
    BY <2>13 DEF CreateInvite
  <2>14. CASE Crash
    BY <2>14 DEF Crash, database, history
  <2>15. CASE Reconfigure
    BY <2>15 DEF Reconfigure, database, history
  <2>16. CASE UNCHANGED vars
    BY <2>16 DEF vars, database, history
  <2> QED
    BY <2>1, <2>2, <2>3, <2>4, <2>5, <2>6, <2>7, <2>8, <2>9, <2>10, <2>11, <2>12,
       <2>13, <2>14, <2>15, <2>16 DEF Next
<1> QED
  BY <1>1, <1>2, PTL DEF Spec

-----------------------------------------------------------------------------
(* NameOfLastWriter                                                        *)

\* Between the two statements nobody but the user may have the name; afterwards,
\* until the next update, the user has it.
NameInv ==
    /\ \A u \in User : known[u] \in Name => forgot[known[u]] = u
    /\ job.at = "remember" =>
           /\ forgot[job.name] = job.user
           /\ \A u \in User : known[u] = job.name => u = job.user
    /\ job.at = "take" =>
           known[job.user] = job.name /\ forgot[job.name] = job.user

LEMMA NameStep == TypeInv /\ NameInv /\ [Next]_vars => NameInv'
<1> SUFFICES ASSUME TypeInv, NameInv, [Next]_vars PROVE NameInv'
  OBVIOUS
<1> USE DEF TypeInv, Stage, NameInv, At, Goto, Return, Idle, Task, Statement, Done
<1>1. CASE UpsertKnownForget
  <2>1. job.name \in Name /\ job.user \in User
    BY <1>1 DEF UpsertKnownForget
  <2>2. CASE UNCHANGED <<known, forgot>>
    BY <1>1, <2>2 DEF UpsertKnownForget
  <2>3. CASE known' = Losing(job.user, job.name) /\ forgot' = [forgot EXCEPT ![job.name] = job.user]
    <3>1. \A u \in User : known'[u] \in {known[u], "id"} /\ (known'[u] = job.name => u = job.user)
      BY <2>1, <2>3, AccountsAssumption DEF Losing
    <3>2. forgot'[job.name] = job.user /\ \A n \in Name \ {job.name} : forgot'[n] = forgot[n]
      BY <2>1, <2>3
    <3>3. \A u \in User : known'[u] \in Name => forgot'[known'[u]] = u
      BY <3>1, <3>2, AccountsAssumption
    <3>4. job'.at \in {"remember", "handled"} /\ job'.name = job.name /\ job'.user = job.user
      BY <1>1 DEF UpsertKnownForget
    <3> QED
      BY <3>1, <3>2, <3>3, <3>4
  <2> QED
    BY <1>1, <2>2, <2>3 DEF UpsertKnownForget
<1>2. CASE UpsertKnownRemember
  BY <1>2 DEF UpsertKnownRemember, history
<1>3. CASE TakeInvite
  BY <1>3 DEF TakeInvite, history
<1>4. CASE Handled \/ FindKnownUser \/ Crash \/ Reconfigure
  BY <1>4 DEF Handled, FindKnownUser, Crash, Reconfigure, database, history
<1>5. CASE UpsertUser
  BY <1>5 DEF UpsertUser, history
<1>6. CASE GrantAccess
  BY <1>6 DEF GrantAccess, history
<1>7. CASE AddDone \/ CreateInvite
  BY <1>7 DEF AddDone, CreateInvite, database
<1>8. ASSUME NEW u \in User,
             AdminAddUser(u) \/ SetUserEnabled(u) \/ \E n \in Name \cup {None} : Update(u, n)
      PROVE  NameInv'
  BY <1>8 DEF AdminAddUser, SetUserEnabled, Update, database, history
<1>9. ASSUME NEW n \in Name, AddByName(n) PROVE NameInv'
  BY <1>9 DEF AddByName, database, history
<1>10. CASE UNCHANGED vars
  BY <1>10 DEF vars, database, history
<1> QED
  BY <1>1, <1>2, <1>3, <1>4, <1>5, <1>6, <1>7, <1>8, <1>9, <1>10 DEF Next

LEMMA NamesKept == Spec => []NameInv
<1>1. Init => NameInv
  BY AccountsAssumption DEF Init, NameInv, Idle, Task
<1> QED
  BY <1>1, NameStep, TypeCorrect, PTL DEF Spec

\* A name leads to the user whose message was the last to take it from the others,
\* although UpsertKnownUser is two statements, each of which may fail.
THEOREM NamesLeadToLastWriter == Spec => []NameOfLastWriter
<1>1. NameInv => NameOfLastWriter
  BY DEF NameInv, NameOfLastWriter
<1> QED
  BY <1>1, NamesKept, PTL

-----------------------------------------------------------------------------
(* AddedMayCreate                                                          *)

\* AdminAddUser has granted what it has not still to grant.
GrantInv ==
    /\ \A u \in User : added[u] # {} => account[u] = "on"
    /\ \A u \in User : \A s \in added[u] : <<u, s>> \in access
    /\ job.at = "grant" =>
           /\ account[job.user] = "on"
           /\ \A s \in enabled \ job.todo : <<job.user, s>> \in access

LEMMA GrantStep == TypeInv /\ GrantInv /\ [Next]_vars => GrantInv'
<1> SUFFICES ASSUME TypeInv, GrantInv, [Next]_vars PROVE GrantInv'
  OBVIOUS
<1> USE DEF TypeInv, Stage, GrantInv, At, Goto, Return, Idle, Task, Statement, Done
<1>1. CASE UpsertKnownForget \/ UpsertKnownRemember \/ TakeInvite
  BY <1>1 DEF UpsertKnownForget, UpsertKnownRemember, TakeInvite, history
<1>2. CASE Handled \/ FindKnownUser \/ Crash \/ Reconfigure
  BY <1>2 DEF Handled, FindKnownUser, Crash, Reconfigure, database, history
<1>3. CASE CreateInvite
  BY <1>3 DEF CreateInvite
<1>4. CASE UpsertUser
  BY <1>4 DEF UpsertUser, history
<1>5. CASE GrantAccess
  <2> DEFINE s == First(job.todo)
  <2>1. /\ access' \in {access, access \cup {<<job.user, s>>}}
        /\ job'.at = "grant" => /\ access' = access \cup {<<job.user, s>>}
                               /\ job'.todo = job.todo \ {s}
                               /\ job'.user = job.user
    BY <1>5 DEF GrantAccess
  <2>2. UNCHANGED <<account, enabled, added>> /\ job.at = "grant"
    BY <1>5 DEF GrantAccess, history
  <2> HIDE DEF s
  <2> QED
    BY <2>1, <2>2
<1>6. CASE AddDone
  BY <1>6 DEF AddDone, database
<1>7. ASSUME NEW u \in User,
             AdminAddUser(u) \/ SetUserEnabled(u) \/ \E n \in Name \cup {None} : Update(u, n)
      PROVE  GrantInv'
  BY <1>7 DEF AdminAddUser, SetUserEnabled, Update, database, history
<1>8. ASSUME NEW n \in Name, AddByName(n) PROVE GrantInv'
  BY <1>8 DEF AddByName, database, history
<1>9. CASE UNCHANGED vars
  BY <1>9 DEF vars, database, history
<1> QED
  BY <1>1, <1>2, <1>3, <1>4, <1>5, <1>6, <1>7, <1>8, <1>9 DEF Next

\* Who was added, by an administrator or an invite, and not disabled since, may
\* create configurations on the default server if it was enabled then.
THEOREM AddedMay == Spec => []AddedMayCreate
<1>1. Init => GrantInv
  BY DEF Init, GrantInv, Idle, Task
<1>2. GrantInv => AddedMayCreate
  BY DEF GrantInv, AddedMayCreate, MayCreate
<1> QED
  BY <1>1, <1>2, GrantStep, TypeCorrect, PTL DEF Spec

-----------------------------------------------------------------------------
(* OneLostPerFault                                                         *)

\* The names that are lost, and the one an administrator is about to be told of
\* although somebody is known by it.
Lost(n) == n \in owed /\ ~ Redeeming(n) /\ ~ Awaited(n)
Doomed(n) == At("invite") /\ job.name = n /\ \E u \in User : known[u] = n
Losses == {n \in Name : Lost(n) \/ Doomed(n)}

LostInv ==
    /\ faults \in Seq({"db", "crash"})
    /\ IsFiniteSet(Losses)
    /\ Cardinality(Losses) <= Len(faults)

\* A step that meets a fault.
Faulty == Fault("db") \/ Fault("crash")

\* Only a fault loses a name, the one in hand: while an invite is being taken its name
\* is known of its owner alone, and the names of all other invites of nobody.
LEMMA LossStep ==
    ASSUME TypeInv, NameInv, [Next]_vars, NEW n \in Name, Lost(n)' \/ Doomed(n)'
    PROVE  Lost(n) \/ Doomed(n) \/ (Faulty /\ n = job.name)
<1> DEFINE Goal == Lost(n) \/ Doomed(n) \/ (Faulty /\ n = job.name)
<1> USE DEF TypeInv, Stage, At, Goto, Return, Idle, Task, Statement, Done, Faulty,
            Lost, Doomed, Redeeming, Awaited
<1>1. n # None
  BY AccountsAssumption
<1>2. CASE UpsertKnownForget
  <2>1. job.name \in Name /\ job.user \in User
    BY <1>2 DEF UpsertKnownForget
  <2>2. \A u \in User : known'[u] \in {known[u], "id"}
    BY <1>2, <2>1 DEF UpsertKnownForget, Losing
  <2>3. /\ job.at = "forget" /\ UNCHANGED <<owed, invites>> /\ job'.name = job.name
        /\ job'.at = "remember" \/ (job'.at = "handled" /\ Faulty)
    BY <1>2 DEF UpsertKnownForget
  <2>4. Lost(n)'
    BY <2>3
  <2>5. CASE job'.at = "handled" /\ Faulty /\ n = job.name
    BY <2>5
  <2>6. CASE \E u \in User : known'[u] = n
    <3>1. \E u \in User : known[u] = n
      BY <2>2, <2>6, AccountsAssumption
    <3> QED
      BY <2>3, <2>4, <3>1
  <2>7. CASE n \notin invites
    BY <2>3, <2>4, <2>7
  <2> QED
    BY <2>3, <2>4, <2>5, <2>6, <2>7
<1>3. CASE UpsertKnownRemember
  <2>1. job.user \in User /\ job.at = "remember" /\ UNCHANGED <<owed, invites>>
    BY <1>3 DEF UpsertKnownRemember, history
  <2>2. \A u \in User : known'[u] = known[u] \/ (u = job.user /\ known'[u] = job.name)
    BY <1>3 DEF UpsertKnownRemember
  <2>3. /\ job'.name = job.name /\ job'.user = job.user
        /\ job'.at = "take" \/ (job'.at = "handled" /\ Faulty)
    BY <1>3 DEF UpsertKnownRemember
  <2>4. Lost(n)'
    BY <2>3
  <2>5. CASE n \notin invites
    BY <2>1, <2>4, <2>5
  <2>6. CASE job'.at = "take" /\ n \in invites
    <3>1. PICK u \in User : known'[u] = n /\ u # job.user
      BY <2>1, <2>3, <2>4, <2>6
    <3>2. known[u] = n
      BY <2>2, <3>1
    <3> QED
      BY <2>1, <2>4, <3>2
  <2>7. CASE job'.at = "handled" /\ Faulty /\ n # job.name /\ n \in invites
    <3>1. PICK u \in User : known'[u] = n
      BY <2>1, <2>3, <2>4, <2>7
    <3>2. known[u] = n
      BY <2>2, <2>7, <3>1
    <3> QED
      BY <2>1, <2>4, <3>2
  <2> QED
    BY <2>3, <2>5, <2>6, <2>7
<1>4. CASE TakeInvite
  <2>1. /\ job.at = "take" /\ known[job.user] = job.name /\ job.user \in User
        /\ UNCHANGED <<owed, known>> /\ job'.name = job.name
    BY <1>4 DEF TakeInvite, NameInv, history
  <2>2. \/ /\ invites' = invites \ {job.name}
           /\ job'.at = IF job.name \in invites THEN "upsert" ELSE "handled"
        \/ /\ invites' \in {invites, invites \ {job.name}}
           /\ job'.at = "handled" /\ Faulty
    BY <1>4 DEF TakeInvite
  <2> QED
    BY <2>1, <2>2
<1>5. CASE Handled
  BY <1>5 DEF Handled, database, history
<1>6. ASSUME NEW u \in User, NEW m \in Name \cup {None}, Update(u, m) PROVE Goal
  BY <1>1, <1>6 DEF Update, database, history
<1>7. ASSUME NEW u \in User, AdminAddUser(u) \/ SetUserEnabled(u) PROVE Goal
  BY <1>7 DEF AdminAddUser, SetUserEnabled, database, history
<1>8. CASE UpsertUser
  BY <1>1, <1>8 DEF UpsertUser, history
<1>9. CASE GrantAccess
  BY <1>1, <1>9 DEF GrantAccess, history
<1>10. CASE AddDone
  BY <1>1, <1>10 DEF AddDone, database
<1>11. ASSUME NEW m \in Name, AddByName(m) PROVE Goal
  BY <1>11 DEF AddByName, database, history
<1>12. CASE FindKnownUser
  BY <1>12 DEF FindKnownUser, database, history
<1>13. CASE CreateInvite
  BY <1>13 DEF CreateInvite
<1>14. CASE Crash
  <2>1. Faulty /\ UNCHANGED <<owed, invites, known>> /\ job'.at = "idle"
    BY <1>14 DEF Crash, database, history
  <2>2. CASE job.at = "take"
    BY <2>1, <2>2 DEF NameInv
  <2>3. CASE job.at # "take"
    BY <2>1, <2>3
  <2> QED
    BY <2>2, <2>3
<1>15. CASE Reconfigure
  BY <1>15 DEF Reconfigure, database, history
<1>16. CASE UNCHANGED vars
  BY <1>16 DEF vars, database, history
<1> QED
  BY <1>2, <1>3, <1>4, <1>5, <1>6, <1>7, <1>8, <1>9, <1>10, <1>11, <1>12, <1>13,
     <1>14, <1>15, <1>16 DEF Next

\* A step meets one fault or none, and whatever it does is not forgotten.
LEMMA FaultStep ==
    ASSUME faults \in Seq({"db", "crash"}), [Next]_vars
    PROVE  /\ faults' \in Seq({"db", "crash"})
           /\ \/ ~ Faulty /\ Len(faults') = Len(faults)
              \/ Len(faults') = Len(faults) + 1
<1>1. UNCHANGED faults \/ Fault("db") \/ Crash
  BY DEF Next, Update, UpsertKnownForget, UpsertKnownRemember, TakeInvite, Handled,
         AdminAddUser, SetUserEnabled, UpsertUser, GrantAccess, AddDone, AddByName,
         FindKnownUser, CreateInvite, Reconfigure, Statement, vars
<1>2. UNCHANGED faults \/ Faulty
  BY <1>1 DEF Crash, Faulty
<1>3. CASE Faulty
  <2>1. PICK kind \in {"db", "crash"} : faults' = Append(faults, kind)
    BY <1>3 DEF Faulty, Fault
  <2> QED
    BY <2>1
<1>4. CASE UNCHANGED faults /\ ~ Faulty
  BY <1>4
<1> QED
  BY <1>2, <1>3, <1>4

LEMMA LostStep == TypeInv /\ NameInv /\ LostInv /\ [Next]_vars => LostInv'
<1> SUFFICES ASSUME TypeInv, NameInv, LostInv, [Next]_vars PROVE LostInv'
  OBVIOUS
<1> DEFINE more == Losses \cup {job.name}
<1>1. IsFiniteSet(Losses) /\ Cardinality(Losses) \in Nat
  BY FS_CardinalityType DEF LostInv
<1>2. IsFiniteSet(more) /\ Cardinality(more) <= Cardinality(Losses) + 1
  <2>1. \A x : /\ IsFiniteSet(Losses \cup {x})
               /\ Cardinality(Losses \cup {x}) \in
                      {Cardinality(Losses), Cardinality(Losses) + 1}
    BY <1>1, FS_AddElement
  <2>2. Cardinality(more) \in {Cardinality(Losses), Cardinality(Losses) + 1}
    BY <2>1
  <2>3. IsFiniteSet(more)
    BY <2>1
  <2> HIDE DEF more
  <2> QED
    BY <1>1, <2>2, <2>3
<1>3. Losses' \subseteq more /\ (~ Faulty => Losses' \subseteq Losses)
  <2> SUFFICES ASSUME NEW n \in Name, Lost(n)' \/ Doomed(n)'
               PROVE  Lost(n) \/ Doomed(n) \/ (Faulty /\ n = job.name)
    BY DEF Losses
  <2> QED
    BY LossStep
<1>4. faults \in Seq({"db", "crash"}) /\ Cardinality(Losses) <= Len(faults)
  BY DEF LostInv
<1>5. Len(faults) \in Nat
  BY <1>4
<1>6. /\ faults' \in Seq({"db", "crash"})
      /\ \/ ~ Faulty /\ Len(faults') = Len(faults)
         \/ Len(faults') = Len(faults) + 1
  BY <1>4, FaultStep
<1> HIDE DEF more
<1>7. IsFiniteSet(Losses') /\ Cardinality(Losses') <= Cardinality(more)
  BY <1>2, <1>3, FS_Subset
<1>8. Cardinality(Losses') \in Nat /\ Cardinality(more) \in Nat
  BY <1>2, <1>7, FS_CardinalityType
<1>9. CASE ~ Faulty /\ Len(faults') = Len(faults)
  <2>1. Cardinality(Losses') <= Cardinality(Losses)
    BY <1>1, <1>3, <1>9, FS_Subset
  <2> QED
    BY <1>1, <1>4, <1>5, <1>6, <1>7, <1>8, <1>9, <2>1 DEF LostInv
<1>10. CASE Len(faults') = Len(faults) + 1
  BY <1>1, <1>2, <1>4, <1>5, <1>6, <1>7, <1>8, <1>10 DEF LostInv
<1> QED
  BY <1>6, <1>9, <1>10

\* An invite the administrator was told of waits for its owner, who is served by the
\* first message; each failed statement and each crash costs one name at most.
THEOREM OwedIsKept == Spec => []OneLostPerFault
<1>1. Init => LostInv
  <2> SUFFICES ASSUME Init PROVE LostInv
    OBVIOUS
  <2>1. Losses = {}
    BY DEF Init, Losses, Lost, Doomed, At, Idle, Task
  <2> QED
    BY <2>1, FS_EmptySet DEF Init, LostInv
<1>2. TypeInv /\ LostInv => OneLostPerFault
  <2> SUFFICES ASSUME TypeInv, LostInv PROVE OneLostPerFault
    OBVIOUS
  <2> DEFINE lost == {n \in owed : ~ Redeeming(n) /\ ~ Awaited(n)}
  <2>1. lost \subseteq Losses
    BY DEF TypeInv, Losses, Lost
  <2>2. IsFiniteSet(lost) /\ Cardinality(lost) <= Cardinality(Losses)
    BY <2>1, FS_Subset DEF LostInv
  <2>3. /\ Cardinality(lost) \in Nat /\ Cardinality(Losses) \in Nat
        /\ Len(faults) \in Nat
    BY <2>2, FS_CardinalityType DEF LostInv
  <2> QED
    BY <2>2, <2>3 DEF LostInv, OneLostPerFault
<1> QED
  BY <1>1, <1>2, LostStep, NamesKept, TypeCorrect, PTL DEF Spec
=============================================================================
