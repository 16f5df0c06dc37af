------------------------------ MODULE PeerTable ------------------------------
(***************************************************************************)
(* What the service takes the scripts of deploy/server for: a table of     *)
(* peers that changes by one peer at a time, and a running interface that  *)
(* follows it.  PeerConf is shown to implement it.                         *)
(***************************************************************************)
EXTENDS ConfFile

CONSTANTS
    Key,        \* peers of the bot
    Hand,       \* peers made by hand
    Interface   \* the section of the server itself, which comes first

VARIABLES
    file,    \* the sections of the conf file, in order
    live,    \* peers of the running interface
    intact   \* FALSE once something happened after which nothing is promised

vars == <<file, live, intact>>

Peer == Key \cup Hand

Init ==
    /\ file \in {<<Interface>>} \cup {<<Interface, h>> : h \in Hand}
    /\ live = Sections(file) \ {Interface}
    /\ intact = TRUE

Add(x) ==
    /\ x \notin Sections(file)
    /\ file' = Append(file, x)
    /\ UNCHANGED live

Remove(k) ==
    /\ file' = Outside(file, {k})
    /\ UNCHANGED live

\* The running interface follows the file in one peer.
Follow(x) ==
    /\ live' = IF x \in Sections(file) THEN live \cup {x} ELSE live \ {x}
    /\ UNCHANGED file

AddByHand(h) ==
    /\ h \notin Sections(file)
    /\ file' = Append(file, h)
    /\ live' = live \cup {h}

Reboot ==
    /\ live' = Sections(file) \ {Interface}
    /\ UNCHANGED file

Step ==
    \/ \E k \in Key : Add(k) \/ Remove(k) \/ Follow(k)
    \/ \E h \in Hand : AddByHand(h)
    \/ Reboot

Next ==
    \/ Step /\ UNCHANGED intact
    \/ ~ intact'

\* Once it is not intact, nothing is promised.
Spec == Init /\ [][Next \/ ~ intact]_vars
=============================================================================
