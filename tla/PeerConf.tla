------------------------------ MODULE PeerConf ------------------------------
(***************************************************************************)
(* The scripts awg-peer-add and awg-peer-remove (deploy/server), command   *)
(* by command.  Both copy the conf file, truncate it and write it back, in *)
(* separate commands and without a lock; then they tell the interface.     *)
(* The bot has one command running at a time, but a command whose call was *)
(* cut off goes on beside the next one.                                    *)
(***************************************************************************)
EXTENDS ConfFile

CONSTANTS
    Key,        \* public keys of the bot's peers, each added once
    Hand,       \* peers made by hand, without the bot's marker
    Script,     \* processes on the server
    Faults,     \* kinds of faults: "cut", "awg", "stop"
    MaxFaults,  \* bound: faults in one behaviour
    Interface,  \* the [Interface] section
    None        \* no script

ASSUME ConfAssumption ==
    /\ MaxFaults \in Nat
    /\ Interface \notin Key \cup Hand
    /\ None \notin Script \cup Key
    /\ Key \cap Hand = {}

VARIABLES
    conf,     \* the conf file: its sections
    live,     \* peers of the running interface
    script,   \* what each process is doing
    waiting,  \* the script whose end the bot waits for
    answer,   \* what the bot last asked, or was told, of each key
    intact,   \* no script has read or written in the middle of another, ...
    faults    \* kinds of the faults so far

vars == <<conf, live, script, waiting, answer, intact, faults>>

\* A script goes from "check" over "copy", "open" and "write" to "awg".
Idle == [at |-> "idle", op |-> "add", key |-> None, tmp |-> <<>>]

Init ==
    /\ conf \in {<<Interface>>} \cup {<<Interface, h>> : h \in Hand}
    /\ live = Sections(conf) \ {Interface}
    /\ script = [p \in Script |-> Idle]
    /\ waiting = None
    /\ answer = [k \in Key |-> "new"]
    /\ intact = TRUE
    /\ faults = <<>>

At(p, stage) == script[p].at = stage
Goto(p, stage) == script' = [script EXCEPT ![p].at = stage]

Fault(kind) ==
    /\ kind \in Faults
    /\ Len(faults) < MaxFaults
    /\ faults' = Append(faults, kind)

Spared(kind) == \A i \in 1..Len(faults) : faults[i] # kind

\* Script p ends, and its caller, if it still waits, hears that its key is ...
End(p, told) ==
    /\ script' = [script EXCEPT ![p] = Idle]
    /\ waiting' = IF waiting = p THEN None ELSE waiting
    /\ answer' = IF waiting = p THEN [answer EXCEPT ![script[p].key] = told] ELSE answer

-----------------------------------------------------------------------------
(* What the scripts make of the file                                       *)

\* awk gathers lines from a marker of the bot to the next one: a block made by
\* hand shares the buffer of the bot's block above it.
Buffer(f, k) ==
    {f[i] : i \in {i \in 1..Len(f) :
        \E j \in 1..i : f[j] = k /\ \A m \in (j + 1)..i : f[m] \in Hand}}

\* Mutant: the marker of the next block does not end the buffer.
CutToEnd(f, k) ==
    Outside(f, {f[i] : i \in {i \in 1..Len(f) : \E j \in 1..i : f[j] = k}})

Cut(f, k) == Outside(f, Buffer(f, k))

\* "cat >" writes over whatever another process has written since it opened the
\* file, and leaves what is longer.
Overlay(old, new) == new \o SubSeq(old, Len(new) + 1, Len(old))

-----------------------------------------------------------------------------
(* The commands of the scripts                                             *)

Others(p, stages) == \E q \in Script \ {p} : script[q].at \in stages

\* grep for the key.  awg-peer-remove ends with PEER_NOT_FOUND, which the bot
\* takes for success; PEER_EXISTS needs a key that is added twice.
Check(p) ==
    /\ At(p, "check")
    /\ LET found == script[p].key \in Sections(conf) IN
       \/ /\ script[p].op = "remove" /\ ~ found
          /\ End(p, "gone")
       \/ /\ script[p].op = "remove" <=> found
          /\ Goto(p, "copy")
          /\ UNCHANGED <<waiting, answer>>
    /\ intact' = (intact /\ ~ Others(p, {"write"}))
    /\ UNCHANGED <<conf, live, faults>>

\* The new text is made of the file as it is now.
Copy(p) ==
    /\ At(p, "copy")
    /\ LET k == script[p].key
           new == IF script[p].op = "add" THEN Append(conf, k) ELSE Cut(conf, k)
       IN script' = [script EXCEPT ![p].at = "open", ![p].tmp = new]
    /\ intact' = (intact /\ ~ Others(p, {"open", "write"}))
    /\ UNCHANGED <<conf, live, waiting, answer, faults>>

\* The shell opens the file for "cat >" and so empties it ...
Truncate(p) ==
    /\ At(p, "open")
    /\ conf' = <<>>
    /\ Goto(p, "write")
    /\ UNCHANGED <<live, waiting, answer, intact, faults>>

\* ... and cat fills it.
Write(p) ==
    /\ At(p, "write")
    /\ conf' = Overlay(conf, script[p].tmp)
    /\ script' = [script EXCEPT ![p].at = "awg", ![p].tmp = <<>>]
    /\ UNCHANGED <<live, waiting, answer, intact, faults>>

\* Mutant: the interface is not told of a removal.
AwgSetAddOnly(p) ==
    /\ At(p, "awg")
    /\ live' = IF script[p].op = "add" THEN live \cup {script[p].key} ELSE live
    /\ End(p, IF script[p].op = "add" THEN "added" ELSE "gone")
    /\ UNCHANGED <<conf, intact, faults>>

AwgSet(p) ==
    /\ At(p, "awg")
    /\ IF script[p].op = "add"
       THEN live' = live \cup {script[p].key} /\ End(p, "added")
       ELSE live' = live \ {script[p].key} /\ End(p, "gone")
    /\ UNCHANGED <<conf, intact, faults>>

\* A failed "awg set" is an error of awg-peer-add; "|| true" hides it in
\* awg-peer-remove.
AwgFails(p) ==
    /\ At(p, "awg")
    /\ Fault("awg")
    /\ End(p, IF script[p].op = "add" THEN "adding" ELSE "gone")
    /\ UNCHANGED <<conf, live, intact>>

-----------------------------------------------------------------------------
(* The bot, the administrator of the server, and the server                *)

\* The bot adds a fresh key, or removes one that it was told is there, again if it
\* was told of an error.
Call(p, op, k) ==
    /\ waiting = None
    /\ script[p] = Idle
    /\ answer[k] \in IF op = "add" THEN {"new"} ELSE {"added", "removing"}
    /\ script' = [script EXCEPT ![p] =
                    [at |-> "check", op |-> op, key |-> k, tmp |-> <<>>]]
    /\ waiting' = p
    /\ answer' = [answer EXCEPT ![k] = IF op = "add" THEN "adding" ELSE "removing"]
    /\ UNCHANGED <<conf, live, intact, faults>>

\* The connection breaks: the bot hears of an error, the script may go on.
CutOff ==
    /\ waiting # None
    /\ Fault("cut")
    /\ waiting' = None
    /\ UNCHANGED <<conf, live, script, answer, intact>>

\* A peer is added by hand, while no script runs.  After a block of the bot it
\* shares that block's fate.
AddByHand(h) ==
    /\ \A p \in Script : script[p] = Idle
    /\ h \notin Sections(conf)
    /\ conf' = Append(conf, h)
    /\ live' = live \cup {h}
    /\ intact' = (intact /\ Sections(conf) \cap Key = {})
    /\ UNCHANGED <<script, waiting, answer, faults>>

\* The server stops and starts again.  A file being written keeps a part, and
\* without its first section the interface does not come up.
Stop ==
    /\ Fault("stop")
    /\ \E f \in {conf} \cup UNION {{SubSeq(script[p].tmp, 1, n) :
                     n \in 0..Len(script[p].tmp)} : p \in {q \in Script : At(q, "write")}} :
        /\ conf' = f
        /\ live' = IF Interface \in Sections(f) THEN Sections(f) \ {Interface} ELSE {}
    /\ script' = [p \in Script |-> Idle]
    /\ waiting' = None
    /\ intact' = (intact /\ \A p \in Script : ~ At(p, "write"))
    /\ UNCHANGED answer

-----------------------------------------------------------------------------
ScriptStep(p) ==
    Check(p) \/ Copy(p) \/ Truncate(p) \/ Write(p) \/ AwgSet(p) \/ AwgFails(p)

Next ==
    \/ \E p \in Script : ScriptStep(p)
    \/ \E p \in Script, op \in {"add", "remove"}, k \in Key : Call(p, op, k)
    \/ CutOff
    \/ \E h \in Hand : AddByHand(h)
    \/ Stop

Spec == Init /\ [][Next]_vars

-----------------------------------------------------------------------------
(* Properties                                                              *)

\* The file as the scripts mean it: one that is being filled counts as full.
File ==
    IF \E p \in Script : At(p, "write")
    THEN script[CHOOSE p \in Script : At(p, "write")].tmp
    ELSE conf

Table == INSTANCE PeerTable WITH file <- File

\* As long as no two scripts work on the file at once, the server does not stop
\* in the middle of a write, and peers made by hand come before the bot's, the
\* scripts change the file by exactly one peer at a time, keep every other
\* section in its place, and bring the running interface in line with it.
IsPeerTable == Table!Spec

\* What the bot was told is so, under the same conditions and unless awg failed: a
\* peer that was added is in the file and runs until its removal is asked for, and
\* one that is gone, be it by PEER_NOT_FOUND, is in neither, unless a removal that
\* was cut off has still to take it from the interface.
AnswersHold ==
    intact /\ Spared("awg") =>
        \A k \in Key :
            /\ answer[k] = "added" => k \in Sections(File) \cap live
            /\ answer[k] = "gone" =>
                   /\ k \notin Sections(File)
                   /\ k \in live => \E p \in Script : At(p, "awg") /\ script[p].key = k
=============================================================================
