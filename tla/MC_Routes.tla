------------------------------ MODULE MC_Routes ------------------------------
(* Instances of Routes for TLC.                                             *)
EXTENDS Routes

N(b, l) == [base |-> b, len |-> l]

MCBlocked == {N(2, 2), N(7, 3)}
MCDefault == {N(0, 3), N(4, 2)}

\* All of IPv4, its halves, a network with host bits, blocked ones, parts of them,
\* and others.
MCOffer ==
    {N(0, 0), N(0, 1), N(4, 1), N(5, 1), N(2, 2), N(6, 2), N(3, 3), N(7, 3), N(1, 3), Junk}
=============================================================================
