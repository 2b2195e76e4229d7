------------------------------- MODULE Secret -------------------------------
(***************************************************************************)
(* What the pairing of a user promises, with no files in sight: at most one *)
(* code is valid at a time; a missing code is minted once and whoever loses *)
(* the race takes the winner's; only a reset replaces a code; and a code    *)
(* that was replaced, withdrawn or lost is never valid again.               *)
(***************************************************************************)

CONSTANTS
    Codes,      \* the codes ever minted
    Resets,     \* those minted by a reset
    None        \* no code is valid

VARIABLES
    current,    \* the code a browser must prove it holds
    spent       \* codes that cannot become valid any more

vars == <<current, spent>>

Init == /\ current = None
        /\ spent = {}

\* k becomes valid, where there was no code or in place of the old one.
Mint(k) == /\ k \notin spent
           /\ k \in Resets \/ current = None
           /\ current' = k
           /\ spent' = spent \cup {k}

\* The minter of k came too late.
Lose(k) == /\ spent' = spent \cup {k}
           /\ UNCHANGED current

\* The user deletes the code.
Withdraw == /\ current' = None
            /\ UNCHANGED spent

Next == \/ \E k \in Codes : Mint(k) \/ Lose(k)
        \/ Withdraw

Spec == Init /\ [][Next]_vars
=============================================================================
