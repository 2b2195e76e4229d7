--------------------------- MODULE DoorwayProofs ----------------------------
(***************************************************************************)
(* Theorems about Doorway, for any routers, browsers, ports and keys.       *)
(***************************************************************************)
EXTENDS DoorwayProps, TLAPS

USE DoorwayAssumption

\* A door that serves is bound where its task loaded, and a task that began after
\* the file's last change loaded what the file says.
Bound == \A r \in Routers :
            /\ place[r] \in {"bind", "serve"} => port[r] \in Ports
            /\ place[r] = "serve" => bound[port[r]] = r
            /\ r \in fresh /\ place[r] \in {"bind", "serve"} =>
                  pairing # None /\ port[r] = pairing.port

\* A connection has seen the current key, and the one it is asked to prove.
Seen == \A b \in Browsers :
            /\ at[b] # "out" /\ pairing # None => pairing.key \in seen[b]
            /\ at[b] = "proof" => key[b] \in seen[b]
            /\ at[b] = "in" => code[b].key \in seen[b]

Inv == TypeOK /\ Bound /\ Seen

LEMMA InitInv == Init => Inv
BY DEF Init, Inv, TypeOK, Bound, Seen

\* What a mint leaves behind.
LEMMA Mints ==
    ASSUME TypeOK, Seen, Mint
    PROVE  /\ minted' \in 0..MaxKeys /\ minted' = minted + 1
           /\ pairing' \in Pairing
           /\ pairing'.port \in Ports
           /\ pairing' # None
           /\ seen' \in [Browsers -> SUBSET Keys]
           /\ \A b \in Browsers : at[b] # "out" => /\ pairing'.key \in seen'[b]
                                                   /\ seen[b] \subseteq seen'[b]
<1>1. minted' \in Keys
  BY DEF Mint, TypeOK, Keys
<1>2. PICK p \in FreePort : pairing' = [port |-> p, key |-> minted']
  BY DEF Mint
<1>3. p \in Ports
  BY DEF FreePort, Free
<1>4. pairing' \in Pairing
  BY <1>1, <1>2, <1>3 DEF Pairing
<1>5. pairing' \in [port : Ports, key : Nat]
  BY <1>1, <1>2, <1>3 DEF Keys
<1>6. QED
  BY <1>1, <1>2, <1>3, <1>4, <1>5 DEF Mint, TypeOK, Keys

\* A load leaves a pairing that every connection has seen, and no router but one
\* that just minted it is newer than it was.
LEMMA Loads ==
    ASSUME TypeOK, Seen, NEW by \in SUBSET Routers, Load(by)
    PROVE  /\ pairing' \in Pairing
           /\ pairing'.port \in Ports /\ pairing'.key \in Keys
           /\ pairing' # None
           /\ minted' \in 0..MaxKeys
           /\ seen' \in [Browsers -> SUBSET Keys]
           /\ fresh' \in SUBSET Routers
           /\ \/ fresh' = by
              \/ fresh' = fresh /\ pairing' = pairing
           /\ \A b \in Browsers : at[b] # "out" => /\ pairing'.key \in seen'[b]
                                                   /\ seen[b] \subseteq seen'[b]
<1>1. CASE pairing # None /\ UNCHANGED <<file, seen>>
  <2>1. /\ pairing' = pairing /\ minted' = minted
        /\ fresh' = fresh /\ seen' = seen
    BY <1>1 DEF file
  <2>2. pairing \in Pairing
    BY <1>1 DEF TypeOK
  <2>3. pairing.port \in Ports /\ pairing.key \in Keys
    BY <2>2 DEF Pairing
  <2>4. QED
    BY <1>1, <2>1, <2>2, <2>3 DEF TypeOK, Seen
<1>2. CASE pairing = None /\ Mint /\ fresh' = by
  <2>1. pairing'.key \in Keys
    BY <1>2, Mints DEF Pairing
  <2>2. QED
    BY <1>2, <2>1, Mints DEF TypeOK
<1>3. QED
  BY <1>1, <1>2 DEF Load

LEMMA StepInv == Inv /\ [Next]_vars => Inv'
<1> SUFFICES ASSUME Inv, [Next]_vars
             PROVE  Inv'
  OBVIOUS
<1> USE DEF Inv, file, tcp, task, conn, Goto
<1>1. CASE UNCHANGED vars
  BY <1>1 DEF vars, TypeOK, Bound, Seen
<1>2. ASSUME NEW b \in Browsers, Show(b)
      PROVE  Inv'
  <2>1. Load({})
    BY <1>2 DEF Show
  <2>2. TypeOK'
    BY <1>2, <2>1, Loads DEF Show, TypeOK
  <2>3. Bound'
    BY <1>2, <2>1, Loads DEF Show, Bound, TypeOK
  <2>4. Seen'
    BY <1>2, <2>1, Loads DEF Show, Seen, TypeOK
  <2>5. QED
    BY <2>2, <2>3, <2>4
<1>3. ASSUME NEW b \in Browsers, Connect(b)
      PROVE  Inv'
  <2>1. pairing # None => pairing.key \in Keys
    BY DEF TypeOK, Pairing
  <2>2. TypeOK'
    BY <1>3, <2>1 DEF Connect, TypeOK
  <2>3. Bound'
    BY <1>3 DEF Connect, Bound
  <2>4. Seen'
    BY <1>3 DEF Connect, Seen, TypeOK
  <2>5. QED
    BY <2>2, <2>3, <2>4
<1>4. ASSUME NEW b \in Browsers, Prove(b)
      PROVE  Inv'
  <2>1. Load({})
    BY <1>4 DEF Prove
  <2>2. TypeOK'
    BY <1>4, <2>1, Loads DEF Prove, TypeOK
  <2>3. Bound'
    BY <1>4, <2>1, Loads DEF Prove, Bound, TypeOK
  <2>4. Seen'
    BY <1>4, <2>1, Loads DEF Prove, Seen, TypeOK
  <2>5. QED
    BY <2>2, <2>3, <2>4
<1>5. ASSUME NEW b \in Browsers, Verify(b)
      PROVE  Inv'
  BY <1>5 DEF Verify, TypeOK, Bound, Seen
<1>6. ASSUME NEW b \in Browsers, Leave(b)
      PROVE  Inv'
  BY <1>6 DEF Leave, TypeOK, Bound, Seen
<1>7. CASE Reset
  <2>1. TypeOK'
    BY <1>7, Mints DEF Reset, TypeOK
  <2>2. Bound'
    BY <1>7 DEF Reset, Bound
  <2>3. Seen'
    BY <1>7, Mints DEF Reset, Seen
  <2>4. QED
    BY <2>1, <2>2, <2>3
<1>8. CASE Delete
  BY <1>8 DEF Delete, TypeOK, Bound, Seen
<1>9. ASSUME NEW r \in Routers, Elect(r)
      PROVE  Inv'
  BY <1>9 DEF Elect, TypeOK, Bound, Seen
<1>10. ASSUME NEW r \in Routers, browser_door(r)
       PROVE  Inv'
  <2>1. CASE LoadPort(r)
    <3>1. Load({r})
      BY <2>1 DEF LoadPort
    <3>2. TypeOK'
      BY <2>1, <3>1, Loads DEF LoadPort, TypeOK
    <3>3. Bound'
      BY <2>1, <3>1, Loads DEF LoadPort, Bound, TypeOK
    <3>4. Seen'
      BY <2>1, <3>1, Loads DEF LoadPort, Seen
    <3>5. QED
      BY <3>2, <3>3, <3>4
  <2>2. CASE Bind(r)
    <3>1. port[r] \in Ports /\ place[r] = "bind"
      BY <2>2 DEF Bind, Bound
    <3>2. CASE bound[port[r]] = None
      <4>1. /\ bound' = [bound EXCEPT ![port[r]] = r]
            /\ place' = [place EXCEPT ![r] = "serve"]
        BY <2>2, <3>2 DEF Bind
      <4>2. TypeOK'
        BY <2>2, <3>1, <4>1 DEF Bind, TypeOK
      <4>3. Bound'
        BY <2>2, <3>1, <3>2, <4>1 DEF Bind, Bound, TypeOK
      <4>4. Seen'
        BY <2>2 DEF Bind, Seen
      <4>5. QED
        BY <4>2, <4>3, <4>4
    <3>3. CASE bound[port[r]] # None
      BY <2>2, <3>3 DEF Bind, TypeOK, Bound, Seen
    <3>4. QED
      BY <3>2, <3>3
  <2>3. QED
    BY <1>10, <2>1, <2>2 DEF browser_door
<1>11. ASSUME NEW r \in Routers, Die(r)
       PROVE  Inv'
  BY <1>11 DEF Die, TypeOK, Bound, Seen
<1>12. ASSUME NEW r \in Routers, Close(r)
       PROVE  Inv'
  <2>1. squats' \in 0..MaxSquats
    BY <1>12 DEF Close, TypeOK
  <2>2. bound' \in [Ports -> Routers \cup {Squatter, None}]
    BY <1>12 DEF Close, TypeOK
  <2>3. at' \in [Browsers -> {"out", "hello", "proof", "in"}]
    BY <1>12 DEF Close, TypeOK
  <2>4. TypeOK'
    BY <1>12, <2>1, <2>2, <2>3 DEF Close, TypeOK
  <2>5. \A p \in Ports : bound[p] # r => bound'[p] = bound[p]
    BY <1>12 DEF Close
  <2>6. Bound'
    BY <1>12, <2>5 DEF Close, Bound, TypeOK
  <2>7. Seen'
    BY <1>12 DEF Close, Seen, TypeOK
  <2>8. QED
    BY <2>4, <2>6, <2>7
<1>13. ASSUME NEW p \in Ports, Squat(p) \/ Vacate(p)
       PROVE  Inv'
  <2>1. squats' \in 0..MaxSquats
    BY <1>13 DEF Squat, Vacate, TypeOK
  <2>2. bound' \in [Ports -> Routers \cup {Squatter, None}]
    BY <1>13 DEF Squat, Vacate, TypeOK
  <2>3. \A q \in Ports : bound[q] \in Routers => bound'[q] = bound[q]
    BY <1>13 DEF Squat, Vacate, TypeOK
  <2>4. /\ UNCHANGED <<pairing, minted, fresh, lock, place, port>>
        /\ UNCHANGED <<at, code, key, seen>>
    BY <1>13 DEF Squat, Vacate
  <2>5. TypeOK'
    BY <2>1, <2>2, <2>4 DEF TypeOK
  <2>6. Bound'
    BY <2>3, <2>4 DEF Bound
  <2>7. Seen'
    BY <2>4 DEF Seen
  <2>8. QED
    BY <2>5, <2>6, <2>7
<1>14. QED
  BY <1>1, <1>2, <1>3, <1>4, <1>5, <1>6, <1>7, <1>8, <1>9, <1>10, <1>11, <1>12,
     <1>13 DEF Next

LEMMA Invariance == Spec => []Inv
BY InitInv, StepInv, PTL DEF Spec

(* Type correctness.                                                         *)
THEOREM DoorwayTypes == Spec => []TypeOK
BY Invariance, PTL DEF Inv

(* A code that was replaced before a browser connected does not let it in,   *)
(* whoever mints, resets, deletes or takes over meanwhile.                   *)
THEOREM ReplacedCodesStayOut == Spec => []OldCodesStayOut
<1>1. Inv => OldCodesStayOut
  BY DEF Inv, Seen, OldCodesStayOut
<1>2. QED
  BY <1>1, Invariance, PTL

(* A router elected after the file's last change serves on its port only.    *)
THEOREM TheNextRouterIsWhereTheCodeLeads == Spec => []NextRouterBindsTheNewPort
<1>1. Inv => NextRouterBindsTheNewPort
  BY DEF Inv, Bound, TypeOK, NextRouterBindsTheNewPort
<1>2. QED
  BY <1>1, Invariance, PTL
=============================================================================
