-------------------------------- MODULE Pair --------------------------------
(***************************************************************************)
(* The pairing file (src/pair.rs): `load` reads it and mints one if there   *)
(* is none, `reset` replaces it, and both may run in several threads and    *)
(* processes at once - the router, every browser being admitted, the        *)
(* command line.  Nothing but the file system is shared, so each system     *)
(* call is a step.                                                          *)
(*                                                                         *)
(* A file is an inode and the names that lead to it: the pairing, and one   *)
(* temporary name for each process.  A call publishes at most once in each  *)
(* of its stages, so <<call, stage>> names the code it mints there and the  *)
(* inode it may make for it.  Ports, tokens and their formatting are one    *)
(* code; a file without all of its text parses as nothing.  Directory       *)
(* checks, random numbers and the search for a port can only make a call    *)
(* fail before it touches anything, and are left out.                       *)
(***************************************************************************)
EXTENDS Naturals

CONSTANTS
    Loads,      \* the calls of load
    Resets,     \* the calls of reset
    Procs,      \* the processes that make them
    pid,        \* which process makes which
    None,       \* no file, no code
    Half,       \* the text of a file that is not written yet
    MaxDeletes  \* how often the user deletes the pairing

Calls == Loads \cup Resets

ASSUME PairAssumption == /\ pid \in [Calls -> Procs]
                         /\ Loads \cap Resets = {}
                         /\ MaxDeletes \in Nat

\* A reset is a load, a publication that replaces, and a load.
Codes == Calls \X {"first", "replace", "last"}

ASSUME NoCode == None \notin Codes /\ Half \notin Codes \cup {None}

VARIABLES
    pc,         \* the next system call of each call
    stage,      \* which part of it this belongs to
    fd,         \* the temporary file it has open
    result,     \* the code it read last
    pair,       \* the file the pairing's path leads to
    tmp,        \* the file each process's temporary name leads to
    text,       \* what each file holds
    dead,       \* the processes that died
    deletes     \* how often the pairing was deleted

op == <<pc, stage, fd, result>>
files == <<pair, tmp, text>>
vars == <<op, files, dead, deletes>>

TypeOK == /\ pc \in [Calls -> {"look", "create", "write", "move", "remove", "undo",
                               "read", "done", "failed"}]
          /\ stage \in [Calls -> {"first", "replace", "last"}]
          /\ fd \in [Calls -> Codes \cup {None}]
          /\ result \in [Calls -> Codes \cup {None}]
          /\ pair \in Codes \cup {None}
          /\ tmp \in [Procs -> Codes \cup {None}]
          /\ text \in [Codes -> Codes \cup {Half}]
          /\ dead \subseteq Procs
          /\ deletes \in 0..MaxDeletes

Init == /\ pc = [c \in Calls |-> "look"]
        /\ stage = [c \in Calls |-> "first"]
        /\ fd = [c \in Calls |-> None]
        /\ result = [c \in Calls |-> None]
        /\ pair = None
        /\ tmp = [p \in Procs |-> None]
        /\ text = [n \in Codes |-> Half]
        /\ dead = {}
        /\ deletes = 0

Code(c) == <<c, stage[c]>>

At(c, step) == pc[c] = step /\ pid[c] \notin dead
Goto(c, step) == pc' = [pc EXCEPT ![c] = step]

\* Mutant: one temporary name for all processes.
SharedTemp(c) == CHOOSE p \in Procs : TRUE

\* The temporary name carries the process's pid, and nothing of the thread.
Temp(c) == pid[c]

-----------------------------------------------------------------------------
\* A load read a code: it is over, or the reset it belongs to goes on.
Loaded(c) == /\ result' = [result EXCEPT ![c] = text[pair]]
             /\ IF c \in Resets /\ stage[c] = "first"
                THEN Goto(c, "create") /\ stage' = [stage EXCEPT ![c] = "replace"]
                ELSE Goto(c, "done") /\ UNCHANGED stage

\* read: the file is gone, half written, or holds a code.
Reads(c, missing) == /\ \/ pair = None /\ Goto(c, missing) /\ UNCHANGED <<stage, result>>
                        \/ /\ pair # None /\ text[pair] = Half
                           /\ Goto(c, "failed")
                           /\ UNCHANGED <<stage, result>>
                        \/ pair # None /\ text[pair] # Half /\ Loaded(c)
                     /\ UNCHANGED <<fd, files, dead, deletes>>

Look(c) == At(c, "look") /\ Reads(c, "create")

ReadAgain(c) == At(c, "read") /\ Reads(c, "failed")

\* create_private: the file is made, or the one that has the name is emptied.
Create(c) == /\ At(c, "create")
             /\ LET n == IF tmp[Temp(c)] = None THEN Code(c) ELSE tmp[Temp(c)]
                IN /\ tmp' = [tmp EXCEPT ![Temp(c)] = n]
                   /\ text' = [text EXCEPT ![n] = Half]
                   /\ fd' = [fd EXCEPT ![c] = n]
             /\ Goto(c, "write")
             /\ UNCHANGED <<stage, result, pair, dead, deletes>>

Write(c) == /\ At(c, "write")
            /\ text' = [text EXCEPT ![fd[c]] = Code(c)]
            /\ Goto(c, "move")
            /\ UNCHANGED <<stage, fd, result, pair, tmp, dead, deletes>>

\* Mutant: every publication links.
MoveLinks(c) == /\ At(c, "move")
                /\ pair' = IF pair = None THEN tmp[Temp(c)] ELSE pair
                /\ Goto(c, "remove")
                /\ UNCHANGED <<stage, fd, result, tmp, text, dead, deletes>>

\* rename: the name is gone if another thread moved or removed it first, and two
\* names of one file stay as they are.
Rename(c) == /\ IF tmp[Temp(c)] = None THEN Goto(c, "undo") ELSE Goto(c, "remove")
             /\ pair' = IF tmp[Temp(c)] = None THEN pair ELSE tmp[Temp(c)]
             /\ tmp' = IF tmp[Temp(c)] = pair THEN tmp ELSE [tmp EXCEPT ![Temp(c)] = None]
             /\ UNCHANGED <<stage, fd, result, text, dead, deletes>>

\* Mutant: `replace` is not looked at.
MoveAnyway(c) == At(c, "move") /\ Rename(c)

\* Mutant: losing the race is an error.
MoveOrFail(c) == /\ At(c, "move")
                 /\ pair' = IF pair = None THEN tmp[Temp(c)] ELSE pair
                 /\ Goto(c, IF pair = None THEN "remove" ELSE "undo")
                 /\ UNCHANGED <<stage, fd, result, tmp, text, dead, deletes>>

\* hard_link refuses if there is a pairing, and that is ignored.
Move(c) == /\ At(c, "move")
           /\ \/ stage[c] = "replace" /\ Rename(c)
              \/ /\ stage[c] # "replace"
                 /\ pair' = IF pair = None THEN tmp[Temp(c)] ELSE pair
                 /\ Goto(c, "remove")
                 /\ UNCHANGED <<stage, fd, result, tmp, text, dead, deletes>>

\* remove_file; then the file is read, a reset loads again, or reports that its
\* rename failed.
Remove(c) == /\ tmp' = [tmp EXCEPT ![Temp(c)] = None]
             /\ \/ /\ At(c, "remove") /\ stage[c] = "replace"
                   /\ stage' = [stage EXCEPT ![c] = "last"]
                   /\ Goto(c, "look")
                \/ /\ At(c, "remove") /\ stage[c] # "replace"
                   /\ Goto(c, "read")
                   /\ UNCHANGED stage
                \/ At(c, "undo") /\ Goto(c, "failed") /\ UNCHANGED stage
             /\ UNCHANGED <<fd, result, pair, text, dead, deletes>>

-----------------------------------------------------------------------------
\* The user deletes the pairing.
Delete == /\ pair # None
          /\ deletes < MaxDeletes
          /\ pair' = None
          /\ deletes' = deletes + 1
          /\ UNCHANGED <<op, tmp, text, dead>>

\* A process dies between two system calls and leaves its temporary file.
Crash(p) == /\ p \notin dead
            /\ dead' = dead \cup {p}
            /\ UNCHANGED <<op, files, deletes>>

Next == \/ \E c \in Calls : \/ Look(c) \/ Create(c) \/ Write(c) \/ Move(c)
                            \/ Remove(c) \/ ReadAgain(c)
        \/ Delete
        \/ \E p \in Procs : Crash(p)

Spec == Init /\ [][Next]_vars
=============================================================================
