------------------------------ MODULE ConfFile ------------------------------
(***************************************************************************)
(* A conf file of the interface as a sequence of sections.                 *)
(***************************************************************************)
EXTENDS Naturals, Sequences

Sections(f) == {f[i] : i \in 1..Len(f)}

\* The sections of f that are not in B, in their order.
Outside(f, B) ==
    LET out[i \in 0..Len(f)] ==
            IF i = 0 THEN <<>>
            ELSE IF f[i] \in B THEN out[i - 1] ELSE Append(out[i - 1], f[i])
    IN out[Len(f)]
=============================================================================
