------------------------------ MODULE Netalloc ------------------------------
(***************************************************************************)
(* The search for a free address (internal/netalloc/alloc.go): a loop over *)
(* unsigned words that starts two above the network address and stops      *)
(* before the broadcast address.                                           *)
(***************************************************************************)
EXTENDS Integers, AddressSpace

VARIABLES
    network, size,   \* the subnet: its network address and its number of addresses
    used,            \* addresses in use
    ip,              \* the loop variable
    outcome          \* "search", or how the loop ended: "found" (ip is the result), "full"

allocVars == <<network, size, used, ip, outcome>>

Broadcast == network + size - 1

\* Neither the network address, nor the first host, which is the VPN server's,
\* nor the broadcast address.
Usable == (network + 2)..(Broadcast - 1)

AllocTypeOK ==
    /\ network \in Address
    /\ size \in Nat \ {0}
    /\ network + size <= Words
    /\ used \subseteq Address
    /\ ip \in Address
    /\ outcome \in {"search", "found", "full"}

Sizes == {s \in 1..Words : \E k \in 0..Width : s = 2 ^ k}

\* A subnet of prefix p has 2^(Width - p) addresses and starts at a multiple of
\* that: net.ParseCIDR masks the address it is given.
AllocInit ==
    /\ size \in Sizes
    /\ network \in {m \in 0..(Words - size) : m % size = 0}
    /\ used \in SUBSET Address
    /\ ip = (network + 2) % Words
    /\ outcome = "search"

\* Mutant: the broadcast address is handed out.
FoundWithBroadcast ==
    /\ outcome = "search"
    /\ ip <= Broadcast
    /\ ip \notin used
    /\ outcome' = "found"
    /\ UNCHANGED <<network, size, used, ip>>

Found ==
    /\ outcome = "search"
    /\ ip < Broadcast
    /\ ip \notin used
    /\ outcome' = "found"
    /\ UNCHANGED <<network, size, used, ip>>

\* Mutant: the address is tried again.
TryNextStays ==
    /\ outcome = "search"
    /\ ip < Broadcast
    /\ ip \in used
    /\ UNCHANGED allocVars

TryNext ==
    /\ outcome = "search"
    /\ ip < Broadcast
    /\ ip \in used
    /\ ip' = (ip + 1) % Words
    /\ UNCHANGED <<network, size, used, outcome>>

\* Mutant: the search stops at the last usable address.
FullEarly ==
    /\ outcome = "search"
    /\ ip >= Broadcast - 1
    /\ outcome' = "full"
    /\ UNCHANGED <<network, size, used, ip>>

\* ErrNoFreeIPs.
Full ==
    /\ outcome = "search"
    /\ ip >= Broadcast
    /\ outcome' = "full"
    /\ UNCHANGED <<network, size, used, ip>>

AllocNext == Found \/ TryNext \/ Full

AllocSpec == AllocInit /\ [][AllocNext]_allocVars

\* The loop runs to its end.
AllocLiveSpec == AllocSpec /\ WF_allocVars(AllocNext)

-----------------------------------------------------------------------------
(* Properties                                                              *)

\* Two above the network address is still an address: false only for the last
\* two /32 subnets and the last /31.
Fits == network + 2 < Words

\* The address found is the first usable address of the subnet not in use.
FirstFree ==
    outcome = "found" /\ Fits =>
        /\ ip \in Usable \ used
        /\ \A j \in Usable : j < ip => j \in used

\* ErrNoFreeIPs is returned only when every usable address is in use.
FullMeansFull == outcome = "full" /\ Fits => Usable \subseteq used

\* The search ends, for every subnet and whatever is in use.
Ends == <>(outcome # "search")
=============================================================================
