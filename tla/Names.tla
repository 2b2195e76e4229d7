-------------------------------- MODULE Names --------------------------------
(***************************************************************************)
(* Who may be called what: the ids of src/id.rs, as `handle` of             *)
(* src/router.rs and `browser_hello` of src/door.rs give them out.  A node  *)
(* proposes an id, the router stamps its own host into it, and the door     *)
(* looks at the proposal before the router does, with a parser of its own.  *)
(*                                                                         *)
(* A text is a sequence of characters and an id or a proposal the sequence  *)
(* of the texts between its slashes; a hostname stands for what is before   *)
(* its first dot.  Which socket reads when is in Router: here a hello is    *)
(* one step, which holds since the registry is checked and changed under    *)
(* one lock.                                                                *)
(***************************************************************************)
EXTENDS Naturals, Sequences

CONSTANTS
    Conns,      \* the nodes
    Door,       \* those that come through the browser door
    Lower,      \* a to z and the digits
    Upper,      \* A to Z
    lowercase,  \* which is whose lower case
    Others,     \* the characters that are none of these, nor "-", "/" or "."
    MAX,        \* the length of a name or label: 16
    KINDS,      \* the kinds of nodes
    BROWSER,    \* the one of browsers
    LOCAL_HOST, \* the label of a host without a name: "local"
    Hostnames,  \* the names the machine may have
    Proposals,  \* what nodes say they are
    None        \* no id

Chars == Lower \cup Upper \cup Others \cup {"-"}
Texts == Seq(Chars)
LabelChars == Lower \cup {"-"}
Labels == {t \in Seq(LabelChars) : Len(t) \in 1..MAX}
Names == {t \in Labels : t[1] \in Lower}
Ids == KINDS \X Labels \X Names

ASSUME NamesAssumption ==
    /\ Door \subseteq Conns
    /\ lowercase \in [Upper -> Lower]
    /\ MAX \in Nat \ {0}
    /\ KINDS \subseteq Texts
    /\ BROWSER \in KINDS
    /\ LOCAL_HOST \in Labels
    /\ Hostnames \subseteq Texts
    /\ Proposals \subseteq Seq(Texts) \ {<<>>}
    /\ None \notin Ids /\ None \notin Proposals

VARIABLES
    host,       \* the label of the router's machine
    at,         \* whether each node is to say hello, registered, or gone
    said,       \* what it proposed
    id          \* the id it learned from WELCOME

vars == <<host, at, said, id>>

-----------------------------------------------------------------------------
(* id.rs. *)

Downcase(c) == IF c \in Upper THEN lowercase[c] ELSE c

LabelChar(c) == IF Downcase(c) \in LabelChars THEN Downcase(c) ELSE "-"

Least(a, b) == IF a <= b THEN a ELSE b

label(h) == IF h = <<>> THEN LOCAL_HOST
            ELSE [n \in 1..Least(Len(h), MAX) |-> LabelChar(h[n])]

name_ok(t) == /\ Len(t) \in 1..MAX
              /\ t[1] \in Lower
              /\ \A n \in 1..Len(t) : t[n] \in LabelChars

\* Mutant: the host a node claims is left as it is.
StampClaimed(p, h) == IF Len(p) \in {2, 3} /\ p[1] \in KINDS /\ name_ok(p[Len(p)])
                      THEN <<p[1], IF Len(p) = 3 THEN p[2] ELSE h, p[Len(p)]>> ELSE None

\* Mutant: the name is what follows the kind.
StampSecond(p, h) == IF Len(p) \in {2, 3} /\ p[1] \in KINDS /\ name_ok(p[2])
                     THEN <<p[1], h, p[2]>> ELSE None

\* <kind>/<name> or <kind>/<any host>/<name>: the kind must be one, the name well
\* formed, and the host is the router's.
stamp(p, h) == IF Len(p) \in {2, 3} /\ p[1] \in KINDS /\ name_ok(p[Len(p)])
               THEN <<p[1], h, p[Len(p)]>> ELSE None

\* Mutant: the kind is looked for at the other end.
kind_last(p) == p[Len(p)]

kind(p) == p[1]

-----------------------------------------------------------------------------
Init == /\ host \in {label(h) : h \in Hostnames}
        /\ at = [c \in Conns |-> "hello"]
        /\ said = [c \in Conns |-> None]
        /\ id = [c \in Conns |-> None]

\* browser_hello refuses what is no browser, stamp what is no id, and the
\* registry what is taken.
Refused(c, p) == \/ c \in Door /\ kind(p) # BROWSER
                 \/ stamp(p, host) = None
                 \/ c \in Door /\ \E d \in Conns : at[d] = "in" /\ id[d] = stamp(p, host)

Refuse(c, p) == /\ at[c] = "hello"
                /\ Refused(c, p)
                /\ at' = [at EXCEPT ![c] = "out"]
                /\ UNCHANGED <<host, said, id>>

\* The node is registered, and whoever held the id is closed.
Welcome(c, p) == /\ at[c] = "hello"
                 /\ ~Refused(c, p)
                 /\ id' = [id EXCEPT ![c] = stamp(p, host)]
                 /\ said' = [said EXCEPT ![c] = p]
                 /\ at' = [d \in Conns |->
                              CASE d = c -> "in"
                                [] d # c /\ at[d] = "in" /\ id[d] = stamp(p, host) -> "out"
                                [] OTHER -> at[d]]
                 /\ UNCHANGED host

\* What a node says: anything at first, then what it said or was told before.
Says(c) == IF id[c] = None THEN Proposals ELSE {said[c], id[c]}

Hello(c) == \E p \in Says(c) : Refuse(c, p) \/ Welcome(c, p)

Leave(c) == /\ at[c] = "in"
            /\ at' = [at EXCEPT ![c] = "out"]
            /\ UNCHANGED <<host, said, id>>

Redial(c) == /\ at[c] = "out"
             /\ at' = [at EXCEPT ![c] = "hello"]
             /\ UNCHANGED <<host, said, id>>

\* Another router is elected and asks the machine for its name anew.
Succeed == /\ host' \in {label(h) : h \in Hostnames}
           /\ at' = [c \in Conns |-> "out"]
           /\ UNCHANGED <<said, id>>

Next == (\E c \in Conns : Hello(c) \/ Leave(c) \/ Redial(c)) \/ Succeed

Spec == Init /\ [][Next]_vars
=============================================================================
