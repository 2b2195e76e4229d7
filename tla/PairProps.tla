------------------------------ MODULE PairProps ------------------------------
(* What the pairing file should guarantee, stated about Pair. *)
EXTENDS Pair

(* "a racing reader never sees half a file" (pair.rs:20-22,195-197): what    *)
(* the pairing's path leads to is whole, whoever mints, resets, deletes or   *)
(* dies.                                                                     *)
NeverHalf == pair # None => text[pair] # Half

(* "Losing a mint race is fine: the winner's code is the one"                *)
(* (pair.rs:148-149): unless the user deletes it, every call that goes on    *)
(* comes to a code.                                                          *)
NobodyFails == deletes = 0 => \A c \in Calls : pc[c] # "failed"

(* "Mint a new token ... so the old token stops working at once"             *)
(* (pair.rs:164-166): a reset never returns the code it set out to replace.  *)
ResetRenews ==
    [][\A c \in Resets : pc[c] # "done" /\ pc'[c] = "done" => result'[c] # result[c]]_vars

-----------------------------------------------------------------------------
\* The publication of c in the stage s came to its move, or never will.
Past(c, s) == \/ s = "first" /\ stage[c] # "first"
              \/ s = "replace" /\ stage[c] = "last"
              \/ s = stage[c] /\ pc[c] \in {"remove", "undo", "read", "done", "failed"}

(* The file keeps the promise of Secret: a mint never replaces, and a code   *)
(* once replaced, deleted or lost never comes back, though threads and       *)
(* processes interleave their system calls (pair.rs:140-178,195-211).        *)
Promise == INSTANCE Secret WITH
              Resets <- {k \in Codes : k[2] = "replace"},
              current <- IF pair = None THEN None ELSE text[pair],
              spent <- {k \in Codes : Past(k[1], k[2])}

KeepsSecret == Promise!Spec
=============================================================================
