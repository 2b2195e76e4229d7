----------------------------- MODULE NamesProofs -----------------------------
(***************************************************************************)
(* Theorems about Names, for names of any length and any characters, kinds, *)
(* hosts, proposals and nodes.                                              *)
(***************************************************************************)
EXTENDS NamesProps, SequenceTheorems, TLAPS

USE NamesAssumption

-----------------------------------------------------------------------------
(* The operators of id.rs. *)

\* Whatever the machine is called, its label is one.
LEMMA LabelIsALabel == ASSUME NEW h \in Hostnames
                       PROVE  label(h) \in Labels
<1>1. CASE h = <<>>
  BY <1>1 DEF label
<1>2. CASE h # <<>>
  <2> DEFINE m == Least(Len(h), MAX)
  <2>1. h \in Seq(Chars) /\ Len(h) \in Nat \ {0}
    BY <1>2, EmptySeq, LenProperties DEF Texts
  <2>2. m \in 1..MAX
    BY <2>1 DEF Least
  <2>3. label(h) = [n \in 1..m |-> LabelChar(h[n])]
    BY <1>2 DEF label
  <2>4. \A c : LabelChar(c) \in LabelChars
    BY DEF LabelChar, LabelChars
  <2>5. label(h) \in [1..m -> LabelChars]
    BY <2>3, <2>4
  <2>6. label(h) \in Seq(LabelChars) /\ Len(label(h)) = m
    BY <2>2, <2>3, <2>5, SeqDef
  <2>7. QED
    BY <2>2, <2>6 DEF Labels
<1>3. QED
  BY <1>1, <1>2

\* name_ok knows the names.
LEMMA NameOkIsAName == ASSUME NEW t \in Texts, name_ok(t)
                       PROVE  t \in Names
<1>1. t \in Seq(Chars) /\ Len(t) \in Nat /\ t \in [1..Len(t) -> Chars]
  BY LenProperties DEF Texts
<1>2. t \in [1..Len(t) -> LabelChars]
  BY <1>1 DEF name_ok
<1>3. t \in Seq(LabelChars)
  BY <1>1, <1>2, SeqDef
<1>4. QED
  BY <1>3 DEF name_ok, Names, Labels

\* An id that was made is one: the kind and the name proposed, and the router's
\* host.
LEMMA StampIs ==
    ASSUME NEW p \in Proposals \cup Ids, NEW h \in Labels, stamp(p, h) # None
    PROVE  /\ stamp(p, h) \in Ids
           /\ stamp(p, h)[1] = p[1]
           /\ stamp(p, h)[2] = h
           /\ stamp(p, h)[3] = p[Len(p)]
<1>1. /\ Len(p) \in {2, 3} /\ p[1] \in KINDS /\ name_ok(p[Len(p)])
      /\ stamp(p, h) = <<p[1], h, p[Len(p)]>>
  BY DEF stamp
<1>2. p[Len(p)] \in Names
  <2>1. CASE p \in Proposals
    BY <1>1, <2>1, NameOkIsAName
  <2>2. CASE p \in Ids
    BY <1>1, <2>2 DEF Ids
  <2>3. QED
    BY <2>1, <2>2
<1>3. QED
  BY <1>1, <1>2 DEF Ids

-----------------------------------------------------------------------------
(* The inductive invariant. *)

\* What a registered node proposed names the kind and the name it was given.
Remembers == \A c \in Conns :
                IF id[c] = None THEN at[c] # "in"
                ELSE /\ said[c] \in Proposals \cup Ids
                     /\ said[c][1] = id[c][1]
                     /\ said[c][Len(said[c])] = id[c][3]

Inv == TypeOK /\ Remembers /\ OnlyBrowsersThroughTheDoor /\ OneSeatPerName

\* What a node says has its kind first and its name last, from its first id on.
LEMMA SaysItself ==
    ASSUME Inv, NEW c \in Conns, NEW p \in Says(c)
    PROVE  /\ p \in Proposals \cup Ids
           /\ id[c] # None => p[1] = id[c][1] /\ p[Len(p)] = id[c][3]
BY DEF Inv, TypeOK, Says, Remembers, Ids

LEMMA InitInv == Init => Inv
BY LabelIsALabel DEF Init, Inv, TypeOK, Remembers, OnlyBrowsersThroughTheDoor,
                     OneSeatPerName

LEMMA WelcomeInv == ASSUME Inv, NEW c \in Conns, NEW p \in Says(c), Welcome(c, p)
                    PROVE  Inv'
<1> DEFINE new == stamp(p, host)
<1>1. p \in Proposals \cup Ids /\ host \in Labels /\ new # None
  BY SaysItself DEF Welcome, Refused, Inv, TypeOK
<1>2. new \in Ids /\ new[1] = p[1] /\ new[2] = host /\ new[3] = p[Len(p)]
  BY <1>1, StampIs
<1>3. new = <<p[1], host, p[Len(p)]>>
  BY <1>1 DEF stamp
<1>4. c \in Door => p[1] = BROWSER
  BY DEF Welcome, Refused, kind
<1>5. /\ id' = [id EXCEPT ![c] = new]
      /\ said' = [said EXCEPT ![c] = p]
      /\ host' = host
      /\ at' = [d \in Conns |-> CASE d = c -> "in"
                                  [] d # c /\ at[d] = "in" /\ id[d] = new -> "out"
                                  [] OTHER -> at[d]]
  BY DEF Welcome
<1> HIDE DEF new
<1>6. TypeOK'
  BY <1>1, <1>2, <1>5 DEF Inv, TypeOK
<1>7. Remembers'
  BY <1>1, <1>2, <1>5 DEF Inv, TypeOK, Remembers
<1>8. OnlyBrowsersThroughTheDoor'
  BY <1>2, <1>4, <1>5 DEF Inv, TypeOK, OnlyBrowsersThroughTheDoor
<1>9. OneSeatPerName'
  <2>1. \A d \in Conns \ {c} : at'[d] = "in" =>
            /\ at[d] = "in" /\ id[d] # new /\ id'[d] = id[d]
            /\ id[d] \in Ids /\ id[d][2] = host
    BY <1>5 DEF Inv, TypeOK, Remembers, OneSeatPerName
  <2>2. \A d \in Conns \ {c} : at'[d] = "in" => <<id[d][1], id[d][3]>> # <<new[1], new[3]>>
    BY <1>2, <1>3, <2>1 DEF Ids
  <2>3. at'[c] = "in" /\ id'[c] = new
    BY <1>5 DEF Inv, TypeOK
  <2>4. QED
    BY <1>2, <1>5, <2>1, <2>2, <2>3 DEF Inv, OneSeatPerName
<1>10. QED
  BY <1>6, <1>7, <1>8, <1>9 DEF Inv

LEMMA StepInv == Inv /\ [Next]_vars => Inv'
<1> SUFFICES ASSUME Inv, [Next]_vars
             PROVE  Inv'
  OBVIOUS
<1> USE DEF TypeOK, Remembers, OnlyBrowsersThroughTheDoor, OneSeatPerName
<1>1. CASE UNCHANGED vars
  BY <1>1 DEF Inv, vars
<1>2. ASSUME NEW c \in Conns, Hello(c)
      PROVE  Inv'
  <2>1. ASSUME NEW p \in Says(c), Refuse(c, p)
        PROVE  Inv'
    BY <2>1 DEF Inv, Refuse
  <2>2. QED
    BY <1>2, <2>1, WelcomeInv DEF Hello
<1>3. ASSUME NEW c \in Conns, Leave(c) \/ Redial(c)
      PROVE  Inv'
  BY <1>3 DEF Inv, Leave, Redial
<1>4. CASE Succeed
  BY <1>4, LabelIsALabel DEF Inv, Succeed
<1>5. QED
  BY <1>1, <1>2, <1>3, <1>4 DEF Next

LEMMA Invariance == Spec => []Inv
BY InitInv, StepInv, PTL DEF Spec

(* Type correctness: the host is a label, whatever the machine is called,    *)
(* and what is given out are ids.                                            *)
THEOREM NamesTypes == Spec => []TypeOK
BY Invariance, PTL DEF Inv

(* What comes through the door is registered as a browser.                   *)
THEOREM TheDoorIsForBrowsers == Spec => []OnlyBrowsersThroughTheDoor
BY Invariance, PTL DEF Inv

(* No two registered nodes have one kind and name, and all the router's host. *)
THEOREM SeatsAreDistinct == Spec => []OneSeatPerName
BY Invariance, PTL DEF Inv

(* A node that dials again is never somebody else.                           *)
THEOREM NodesStayThemselves == Spec => StaysItself
<1>1. ASSUME Inv, [Next]_vars
      PROVE  [\A c \in Conns : id[c] # None => /\ id'[c] # None
                                               /\ id'[c][1] = id[c][1]
                                               /\ id'[c][3] = id[c][3]]_vars
  <2> SUFFICES ASSUME NEW c \in Conns, id[c] # None
               PROVE  id'[c] # None /\ id'[c][1] = id[c][1] /\ id'[c][3] = id[c][3]
    OBVIOUS
  <2>1. ASSUME NEW p \in Says(c), Welcome(c, p)
        PROVE  id'[c] # None /\ id'[c][1] = id[c][1] /\ id'[c][3] = id[c][3]
    <3>1. host \in Labels /\ stamp(p, host) # None /\ id'[c] = stamp(p, host)
      BY <1>1, <2>1 DEF Welcome, Refused, Inv, TypeOK
    <3>2. QED
      BY <1>1, <3>1, SaysItself, StampIs
  <2>2. ASSUME NEW d \in Conns, NEW p \in Says(d), d # c, Welcome(d, p)
        PROVE  id'[c] = id[c]
    BY <1>1, <2>2 DEF Welcome, Inv, TypeOK
  <2>3. ASSUME \/ \E d \in Conns : Leave(d) \/ Redial(d) \/ \E p \in Says(d) : Refuse(d, p)
               \/ Succeed \/ UNCHANGED vars
        PROVE  id'[c] = id[c]
    BY <2>3 DEF Leave, Redial, Refuse, Succeed, vars
  <2>4. QED
    BY <1>1, <2>1, <2>2, <2>3 DEF Next, Hello
<1>2. QED
  BY <1>1, Invariance, PTL DEF Spec, StaysItself
=============================================================================
