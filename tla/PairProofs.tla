------------------------------ MODULE PairProofs ------------------------------
(***************************************************************************)
(* Theorems about the pairing file, for any number of calls, each in a       *)
(* process of its own.  (In the threads of one process they are false: they  *)
(* share the temporary file.)                                                *)
(***************************************************************************)
EXTENDS PairProps, TLAPS

Apart == \A c, d \in Calls : pid[c] = pid[d] => c = d

-----------------------------------------------------------------------------
(* The inductive invariant. *)

\* Only a reset has more than one stage, and a lookup of one that replaces is
\* behind it.
Stages == \A c \in Calls : /\ stage[c] # "first" => c \in Resets
                           /\ stage[c] = "replace" => pc[c] \notin {"look", "read", "done"}

\* The temporary file of a call is the one it makes in its present stage; nobody
\* else sees it, and it is whole once it was written.
TemporaryOf(c) ==
    /\ pc[c] \in {"look", "create", "read", "done", "failed"} => tmp[pid[c]] = None
    /\ pc[c] \in {"write", "move"} => tmp[pid[c]] = Code(c)
    /\ pc[c] = "write" => fd[c] = Code(c)
    /\ pc[c] = "move" => text[Code(c)] = Code(c)
    /\ pc[c] = "remove" => tmp[pid[c]] \in {None, Code(c)}
    /\ pc[c] # "undo"

Temporary == \A c \in Calls : TemporaryOf(c)

\* The pairing is a code whose publication is past, and whole.
Published == \A c \in Calls, s \in {"first", "replace", "last"} :
                 pair = <<c, s>> => Past(c, s) /\ text[pair] = pair

\* Whoever published finds a pairing, unless it was deleted.
Found == deletes = 0 => \A c \in Calls : /\ pc[c] \in {"remove", "read"} => pair # None
                                         /\ pc[c] # "failed"

IInv == TypeOK /\ Stages /\ Temporary /\ Published /\ Found
-----------------------------------------------------------------------------
(* What the code of a call is. *)

LEMMA CodeIs == ASSUME TypeOK, NEW c \in Calls
                PROVE  /\ Code(c) = <<c, stage[c]>>
                       /\ Code(c) \in Codes
                       /\ Code(c) \notin {None, Half}
                       /\ pid[c] \in Procs
BY PairAssumption, NoCode DEF Code, Codes, Calls, TypeOK

\* A call that has not published yet is not the one whose code is valid.
LEMMA Unpublished == ASSUME IInv, NEW c \in Calls,
                            pc[c] \in {"look", "create", "write", "move"}
                     PROVE  /\ ~Past(c, stage[c])
                            /\ pair # Code(c)
<1>1. ~Past(c, stage[c])
  BY DEF Past, IInv, TypeOK
<1>2. stage[c] \in {"first", "replace", "last"}
  BY DEF IInv, TypeOK
<1> QED BY <1>1, <1>2 DEF IInv, Published, Code

\* It holds at first.
LEMMA Start == Init => IInv
BY PairAssumption, NoCode
   DEF Init, IInv, TypeOK, Stages, Temporary, TemporaryOf, Published, Found, Codes, Calls

-----------------------------------------------------------------------------
(* One lemma for each step. *)

\* What a read may lead to.
ReadTo(c, step) ==
    /\ pc' = [pc EXCEPT ![c] = step]
    /\ \/ stage' = stage /\ (pc[c] = "look" \/ step # "create")
       \/ /\ stage' = [stage EXCEPT ![c] = "replace"]
          /\ stage[c] = "first" /\ c \in Resets /\ step = "create"
    /\ step = "failed" => pc[c] = "read" /\ pair = None
    /\ result' \in [Calls -> Codes \cup {None}]
    /\ pc[c] \in {"look", "read"}
    /\ UNCHANGED <<fd, pair, tmp, text, dead, deletes>>

LEMMA ReadIs == ASSUME IInv, NEW c \in Calls, Look(c) \/ ReadAgain(c)
                PROVE  \E step \in {"create", "done", "failed"} : ReadTo(c, step)
<1>1. pair # None => text[pair] # Half
  BY NoCode DEF IInv, TypeOK, Published, Codes
<1>2. pair # None => text[pair] \in Codes
  BY <1>1 DEF IInv, TypeOK
<1> QED BY <1>1, <1>2
        DEF Look, ReadAgain, At, Reads, Loaded, Goto, files, IInv, TypeOK, ReadTo

LEMMA ReadKeeps == ASSUME IInv, NEW c \in Calls, Look(c) \/ ReadAgain(c) PROVE IInv'
<1>1. PICK step \in {"create", "done", "failed"} : ReadTo(c, step)
  BY ReadIs
<1> USE DEF ReadTo
<1>2. TypeOK'
  BY <1>1 DEF IInv, TypeOK
<1>3. Stages'
  BY <1>1 DEF IInv, TypeOK, Stages
<1>4. Temporary'
  <2> SUFFICES ASSUME NEW d \in Calls
               PROVE  TemporaryOf(d)'
    BY DEF Temporary
  <2>1. CASE d = c
    BY <1>1, <2>1 DEF IInv, TypeOK, Temporary, TemporaryOf
  <2>2. CASE d # c
    BY <1>1, <2>2 DEF IInv, TypeOK, Temporary, TemporaryOf, Code
  <2> QED BY <2>1, <2>2
<1>5. Published'
  <2>1. ASSUME NEW d \in Calls, NEW s \in {"first", "replace", "last"}, Past(d, s)
        PROVE  Past(d, s)'
    BY <1>1, <2>1 DEF IInv, TypeOK, Past
  <2> QED BY <1>1, <2>1 DEF IInv, Published
<1>6. Found'
  BY <1>1 DEF IInv, TypeOK, Found
<1> QED BY <1>2, <1>3, <1>4, <1>5, <1>6 DEF IInv

LEMMA CreateKeeps == ASSUME IInv, Apart, NEW c \in Calls, Create(c) PROVE IInv'
<1>1. /\ pc[c] = "create"
      /\ pc' = [pc EXCEPT ![c] = "write"]
      /\ tmp' = [tmp EXCEPT ![pid[c]] = Code(c)]
      /\ text' = [text EXCEPT ![Code(c)] = Half]
      /\ fd' = [fd EXCEPT ![c] = Code(c)]
      /\ UNCHANGED <<stage, result, pair, dead, deletes>>
  BY DEF Create, At, Goto, Temp, IInv, Temporary, TemporaryOf
<1>2. TypeOK'
  BY <1>1, CodeIs DEF IInv, TypeOK
<1>3. Stages'
  BY <1>1 DEF IInv, TypeOK, Stages
<1>4. Temporary'
  BY <1>1, CodeIs DEF IInv, TypeOK, Temporary, TemporaryOf, Code, Apart
<1>5. Published'
  <2>1. ASSUME NEW d \in Calls, NEW s \in {"first", "replace", "last"}, Past(d, s)
        PROVE  Past(d, s)'
    BY <1>1, <2>1 DEF IInv, TypeOK, Past
  <2>2. pair # Code(c) /\ Code(c) \in Codes
    BY <1>1, Unpublished, CodeIs DEF IInv
  <2>3. pair # None => text'[pair] = text[pair]
    BY <1>1, <2>2 DEF IInv, TypeOK
  <2>4. ASSUME NEW d \in Calls, NEW s \in {"first", "replace", "last"}, pair = <<d, s>>
        PROVE  pair # None
    BY <2>4, NoCode DEF Codes
  <2> QED BY <1>1, <2>1, <2>3, <2>4 DEF IInv, Published
<1>6. Found'
  BY <1>1 DEF IInv, TypeOK, Found
<1> QED BY <1>2, <1>3, <1>4, <1>5, <1>6 DEF IInv

LEMMA WriteKeeps == ASSUME IInv, Apart, NEW c \in Calls, Write(c) PROVE IInv'
<1>1. /\ pc[c] = "write"
      /\ pc' = [pc EXCEPT ![c] = "move"]
      /\ text' = [text EXCEPT ![Code(c)] = Code(c)]
      /\ UNCHANGED <<stage, fd, result, pair, tmp, dead, deletes>>
  BY DEF Write, At, Goto, IInv, Temporary, TemporaryOf
<1>2. TypeOK'
  BY <1>1, CodeIs DEF IInv, TypeOK
<1>3. Stages'
  BY <1>1 DEF IInv, TypeOK, Stages
<1>4. Temporary'
  BY <1>1, CodeIs DEF IInv, TypeOK, Temporary, TemporaryOf, Code
<1>5. Published'
  <2>1. ASSUME NEW d \in Calls, NEW s \in {"first", "replace", "last"}, Past(d, s)
        PROVE  Past(d, s)'
    BY <1>1, <2>1 DEF IInv, TypeOK, Past
  <2>2. pair # Code(c) /\ Code(c) \in Codes
    BY <1>1, Unpublished, CodeIs DEF IInv
  <2>3. pair # None => text'[pair] = text[pair]
    BY <1>1, <2>2 DEF IInv, TypeOK
  <2>4. ASSUME NEW d \in Calls, NEW s \in {"first", "replace", "last"}, pair = <<d, s>>
        PROVE  pair # None
    BY <2>4, NoCode DEF Codes
  <2> QED BY <1>1, <2>1, <2>3, <2>4 DEF IInv, Published
<1>6. Found'
  BY <1>1 DEF IInv, TypeOK, Found
<1> QED BY <1>2, <1>3, <1>4, <1>5, <1>6 DEF IInv

\* What a move does, when no other call can have had the temporary file.
LEMMA MoveIs == ASSUME IInv, NEW c \in Calls, Move(c)
                PROVE  /\ pc[c] = "move"
                       /\ pc' = [pc EXCEPT ![c] = "remove"]
                       /\ \/ /\ stage[c] = "replace"
                             /\ pair' = Code(c)
                             /\ tmp' = [tmp EXCEPT ![pid[c]] = None]
                          \/ /\ stage[c] # "replace"
                             /\ pair' = IF pair = None THEN Code(c) ELSE pair
                             /\ tmp' = tmp
                       /\ UNCHANGED <<stage, fd, result, text, dead, deletes>>
<1>1. tmp[pid[c]] = Code(c) /\ pair # Code(c) /\ Code(c) # None /\ pc[c] = "move"
  BY Unpublished, CodeIs DEF Move, At, IInv, Temporary, TemporaryOf
<1> QED BY <1>1 DEF Move, Rename, Goto, Temp

LEMMA MoveKeeps == ASSUME IInv, Apart, NEW c \in Calls, Move(c) PROVE IInv'
<1>1. TypeOK'
  BY MoveIs, CodeIs DEF IInv, TypeOK
<1>2. Stages'
  BY MoveIs DEF IInv, TypeOK, Stages
<1>3. Temporary'
  BY MoveIs, CodeIs DEF IInv, TypeOK, Temporary, TemporaryOf, Code, Apart
<1>4. Published'
  <2>1. text[Code(c)] = Code(c)
    BY MoveIs DEF IInv, Temporary, TemporaryOf
  <2> QED BY <2>1, MoveIs, CodeIs DEF IInv, TypeOK, Published, Past, Code
<1>5. Found'
  BY MoveIs, CodeIs DEF IInv, TypeOK, Found
<1> QED BY <1>1, <1>2, <1>3, <1>4, <1>5 DEF IInv

LEMMA RemoveKeeps == ASSUME IInv, Apart, NEW c \in Calls, Remove(c) PROVE IInv'
<1>1. /\ pc[c] = "remove"
      /\ tmp' = [tmp EXCEPT ![pid[c]] = None]
      /\ \/ /\ stage[c] = "replace"
            /\ stage' = [stage EXCEPT ![c] = "last"]
            /\ pc' = [pc EXCEPT ![c] = "look"]
         \/ /\ stage[c] # "replace"
            /\ stage' = stage
            /\ pc' = [pc EXCEPT ![c] = "read"]
      /\ UNCHANGED <<fd, result, pair, text, dead, deletes>>
  BY DEF Remove, At, Goto, Temp, IInv, Temporary, TemporaryOf
<1>2. TypeOK'
  BY <1>1, CodeIs DEF IInv, TypeOK
<1>3. Stages'
  BY <1>1 DEF IInv, TypeOK, Stages
<1>4. Temporary'
  <2> SUFFICES ASSUME NEW d \in Calls
               PROVE  TemporaryOf(d)'
    BY DEF Temporary
  <2>1. CASE d = c
    BY <1>1, <2>1, CodeIs DEF IInv, TypeOK, TemporaryOf
  <2>2. CASE d # c
    BY <1>1, <2>2, CodeIs DEF IInv, TypeOK, Temporary, TemporaryOf, Code, Apart
  <2> QED BY <2>1, <2>2
<1>5. Published'
  BY <1>1 DEF IInv, TypeOK, Published, Past
<1>6. Found'
  BY <1>1 DEF IInv, TypeOK, Found
<1> QED BY <1>2, <1>3, <1>4, <1>5, <1>6 DEF IInv

\* A step that touches no call and no file but, perhaps, the name of the pairing.
LEMMA OthersKeep == ASSUME IInv, \/ Delete
                                 \/ \E p \in Procs : Crash(p)
                                 \/ UNCHANGED vars
                    PROVE  IInv'
<1> USE DEF Delete, Crash, vars, op, files
<1>1. TypeOK'
  BY PairAssumption DEF IInv, TypeOK
<1>2. Stages' /\ Temporary'
  BY DEF IInv, Stages, Temporary, TemporaryOf, Code
<1>3. Published'
  BY NoCode DEF IInv, Published, Past, Codes, Calls
<1>4. Found'
  BY DEF IInv, TypeOK, Found
<1> QED BY <1>1, <1>2, <1>3, <1>4 DEF IInv

LEMMA StepKeeps == ASSUME IInv, Apart, [Next]_vars PROVE IInv'
<1>1. ASSUME NEW c \in Calls,
             Look(c) \/ Create(c) \/ Write(c) \/ Move(c) \/ Remove(c) \/ ReadAgain(c)
      PROVE  IInv'
  BY <1>1, ReadKeeps, CreateKeeps, WriteKeeps, MoveKeeps, RemoveKeeps
<1> QED BY <1>1, OthersKeep DEF Next

LEMMA Invariance == ASSUME Apart PROVE Spec => []IInv
BY Start, StepKeeps, PTL DEF Spec

-----------------------------------------------------------------------------
(* The calls' variables and the files keep their types.                      *)
THEOREM PairTypes == ASSUME Apart PROVE Spec => []TypeOK
<1>1. IInv => TypeOK
  BY DEF IInv
<1> QED BY <1>1, Invariance, PTL

(* What the pairing's path leads to is never half a file (pair.rs:195-197).  *)
THEOREM PairingIsWhole == ASSUME Apart PROVE Spec => []NeverHalf
<1>1. IInv => NeverHalf
  BY NoCode DEF IInv, NeverHalf, Published, TypeOK, Codes
<1> QED BY <1>1, Invariance, PTL

(* No call fails unless the pairing is deleted (pair.rs:148-149).            *)
THEOREM LosersTakeTheWinners == ASSUME Apart PROVE Spec => []NobodyFails
<1>1. IInv => NobodyFails
  BY DEF IInv, NobodyFails, Found
<1> QED BY <1>1, Invariance, PTL

-----------------------------------------------------------------------------
(* The file implements Secret. *)

Spent == {k \in Codes : Past(k[1], k[2])}
Current == IF pair = None THEN None ELSE text[pair]

LEMMA CurrentIs == IInv => Current = pair
BY NoCode DEF IInv, Current, Published, TypeOK, Codes

\* What a step does to the codes that are spent is seen call by call.
LEMMA SpentSame ==
    ASSUME \A d \in Calls, s \in {"first", "replace", "last"} : Past(d, s)' <=> Past(d, s)
    PROVE  Spent' = Spent
BY DEF Spent, Codes

LEMMA SpentMore ==
    ASSUME NEW c \in Calls, NEW t \in {"first", "replace", "last"},
           \A d \in Calls, s \in {"first", "replace", "last"} :
               Past(d, s)' <=> (Past(d, s) \/ (d = c /\ s = t))
    PROVE  Spent' = Spent \cup {<<c, t>>}
BY DEF Spent, Codes

LEMMA ReadImplements == ASSUME IInv, NEW c \in Calls, Look(c) \/ ReadAgain(c)
                        PROVE  Spent' = Spent \/ Spent' = Spent \cup {Code(c)}
<1>1. PICK step \in {"create", "done", "failed"} : ReadTo(c, step)
  BY ReadIs
<1>2. stage[c] \in {"first", "replace", "last"}
  BY DEF IInv, TypeOK
<1>3. CASE pc[c] = "read" \/ (step = "create" /\ stage' = stage)
  <2>1. \A d \in Calls, s \in {"first", "replace", "last"} : Past(d, s)' <=> Past(d, s)
    BY <1>1, <1>3 DEF ReadTo, Past, IInv, TypeOK
  <2> QED BY <2>1, SpentSame
<1>4. CASE pc[c] = "look" /\ ~(step = "create" /\ stage' = stage)
  <2>1. \A d \in Calls, s \in {"first", "replace", "last"} :
            Past(d, s)' <=> (Past(d, s) \/ (d = c /\ s = stage[c]))
    BY <1>1, <1>4 DEF ReadTo, Past, IInv, TypeOK, Stages
  <2> QED BY <2>1, <1>2, SpentMore DEF Code
<1> QED BY <1>1, <1>3, <1>4 DEF ReadTo

LEMMA MoveImplements == ASSUME IInv, NEW c \in Calls, Move(c)
                        PROVE  Spent' = Spent \cup {Code(c)} /\ Code(c) \notin Spent
<1>1. stage[c] \in {"first", "replace", "last"}
  BY DEF IInv, TypeOK
<1>2. \A d \in Calls, s \in {"first", "replace", "last"} :
          Past(d, s)' <=> (Past(d, s) \/ (d = c /\ s = stage[c]))
  BY MoveIs DEF Past, IInv, TypeOK
<1>3. ~Past(c, stage[c])
  BY MoveIs, Unpublished
<1> QED BY <1>1, <1>2, <1>3, SpentMore DEF Code, Spent

LEMMA WorkImplements == ASSUME IInv, NEW c \in Calls, Create(c) \/ Write(c) \/ Remove(c)
                        PROVE  Spent' = Spent /\ pair' = pair
<1>1. \A d \in Calls, s \in {"first", "replace", "last"} : Past(d, s)' <=> Past(d, s)
  BY DEF Create, Write, Remove, At, Goto, Past, IInv, TypeOK, Temporary, TemporaryOf
<1> QED BY <1>1, SpentSame DEF Create, Write, Remove

LEMMA Implements == ASSUME IInv, IInv', [Next]_vars
                    PROVE  [Promise!Next]_(Promise!vars)
<1>1. Current = pair /\ Current' = pair'
  BY NoCode DEF IInv, Current, Published, TypeOK, Codes
<1>6. ASSUME NEW k \in Codes, k \notin Spent, k[2] = "replace" \/ Current = None,
             Current' = k, Spent' = Spent \cup {k}
      PROVE  Promise!Mint(k)
  BY <1>6 DEF Promise!Mint, Current, Spent
<1>7. ASSUME NEW k \in Codes, Current' = Current, Spent' = Spent \cup {k}
      PROVE  Promise!Lose(k)
  BY <1>7 DEF Promise!Lose, Current, Spent
<1>8. ASSUME Current' = None, Spent' = Spent
      PROVE  Promise!Withdraw
  BY <1>8 DEF Promise!Withdraw, Current, Spent
<1>9. ASSUME Current' = Current, Spent' = Spent
      PROVE  UNCHANGED Promise!vars
  BY <1>9 DEF Promise!vars, Current, Spent
<1>2. ASSUME NEW c \in Calls, Look(c) \/ ReadAgain(c)
      PROVE  UNCHANGED Promise!vars \/ Promise!Lose(Code(c))
  <2>1. pair' = pair /\ Code(c) \in Codes
    BY <1>2, ReadIs, CodeIs DEF ReadTo, IInv
  <2> QED BY <1>1, <1>2, <1>7, <1>9, <2>1, ReadImplements
<1>3. ASSUME NEW c \in Calls, Move(c)
      PROVE  Promise!Mint(Code(c)) \/ Promise!Lose(Code(c))
  <2>1. Code(c) \in Codes /\ Code(c)[2] = stage[c]
    BY CodeIs DEF IInv
  <2>2. Spent' = Spent \cup {Code(c)} /\ Code(c) \notin Spent
    BY <1>3, MoveImplements
  <2>3. \/ pair' = Code(c) /\ (stage[c] = "replace" \/ pair = None)
        \/ pair' = pair
    BY <1>3, MoveIs
  <2> QED BY <1>1, <1>6, <1>7, <2>1, <2>2, <2>3
<1>4. ASSUME NEW c \in Calls, Create(c) \/ Write(c) \/ Remove(c)
      PROVE  UNCHANGED Promise!vars
  BY <1>1, <1>4, <1>9, WorkImplements
<1>5. CASE Delete \/ (\E p \in Procs : Crash(p)) \/ UNCHANGED vars
  <2>1. Spent' = Spent
    <3>1. \A d \in Calls, s \in {"first", "replace", "last"} : Past(d, s)' <=> Past(d, s)
      BY <1>5 DEF Delete, Crash, vars, op, Past
    <3> QED BY <3>1, SpentSame
  <2>2. pair' = None \/ pair' = pair
    BY <1>5 DEF Delete, Crash, vars, files
  <2> QED BY <1>1, <1>8, <1>9, <2>1, <2>2 DEF Promise!Next
<1>10. \A c \in Calls : Code(c) \in Codes
  BY CodeIs DEF IInv
<1> QED BY <1>2, <1>3, <1>4, <1>5, <1>10 DEF Next, Promise!Next

(* A mint never replaces a code, and a code once replaced, deleted or lost   *)
(* is never valid again (pair.rs:140-178,195-211).                           *)
THEOREM PairKeepsSecret == ASSUME Apart PROVE Spec => KeepsSecret
<1>1. Init => Promise!Init
  BY DEF Init, Promise!Init, Codes, Past
<1> QED BY <1>1, Invariance, Implements, PTL DEF Spec, KeepsSecret, Promise!Spec

-----------------------------------------------------------------------------
(* A reset renews. *)

\* What a call has read is spent, and once a reset has replaced it, it is not the
\* pairing any more.
Replaced(c) == stage[c] = "last" \/ (stage[c] = "replace" /\ pc[c] = "remove")

Renewed == \A c \in Calls :
               /\ result[c] # None => result[c] \in Spent
               /\ Replaced(c) /\ pc[c] # "done" /\ pair # None => pair # result[c]

\* What reading does to the result.
LEMMA ResultIs == ASSUME IInv, NEW c \in Calls, Look(c) \/ ReadAgain(c)
                  PROVE  \/ result' = result /\ pc'[c] # "done"
                         \/ /\ result' = [result EXCEPT ![c] = pair]
                            /\ pair # None
                            /\ pc'[c] = "done" \/ stage'[c] = "replace"
BY NoCode DEF Look, ReadAgain, At, Reads, Loaded, Goto, IInv, TypeOK, Published, Codes

\* Nothing that is spent can become the pairing.
LEMMA OnlyFresh == ASSUME IInv, IInv', [Next]_vars
                   PROVE  /\ Spent \subseteq Spent'
                          /\ pair' \in {pair, None} \/ pair' \notin Spent
<1>1. Current = pair /\ Current' = pair'
  BY NoCode DEF IInv, Current, Published, TypeOK, Codes
<1>2. \A k : Promise!Mint(k) => Current' = k /\ k \notin Spent /\ Spent \subseteq Spent'
  BY DEF Promise!Mint, Current, Spent
<1>3. \A k : Promise!Lose(k) => Current' = Current /\ Spent \subseteq Spent'
  BY DEF Promise!Lose, Current, Spent
<1>4. Promise!Withdraw => Current' = None /\ Spent' = Spent
  BY DEF Promise!Withdraw, Current, Spent
<1>5. UNCHANGED Promise!vars => Current' = Current /\ Spent' = Spent
  BY DEF Promise!vars, Current, Spent
<1> QED BY <1>1, <1>2, <1>3, <1>4, <1>5, Implements DEF Promise!Next

LEMMA RenewedKeeps == ASSUME IInv, IInv', Renewed, [Next]_vars PROVE Renewed'
<1>1. Spent \subseteq Spent' /\ (pair' \in {pair, None} \/ pair' \notin Spent)
  BY OnlyFresh
<1>2. pair # None => pair \in Spent
  BY DEF IInv, TypeOK, Published, Spent, Codes
<1> SUFFICES ASSUME NEW c \in Calls
             PROVE  /\ result'[c] # None => result'[c] \in Spent'
                    /\ Replaced(c)' /\ pc'[c] # "done" /\ pair' # None => pair' # result'[c]
  BY DEF Renewed
<1>3. CASE Look(c) \/ ReadAgain(c)
  <2>1. result'[c] \in {result[c], pair, None}
    BY <1>3, ResultIs DEF IInv, TypeOK
  <2>2. ASSUME Replaced(c)', pc'[c] # "done"
        PROVE  Replaced(c) /\ pc[c] # "done" /\ result' = result /\ pair' = pair
    BY <1>3, <2>2, ResultIs, ReadIs DEF ReadTo, Replaced, IInv, TypeOK
  <2> QED BY <1>1, <1>2, <2>1, <2>2 DEF Renewed
<1>4. CASE Move(c)
  <2>1. result' = result /\ (pair' = pair \/ pair' = Code(c))
    BY <1>4, MoveIs
  <2>2. Code(c) \notin Spent
    BY <1>4, MoveImplements
  <2>3. pair' = pair /\ Replaced(c)' => Replaced(c) /\ pc[c] # "done"
    BY <1>4, MoveIs, Unpublished DEF Replaced, IInv, TypeOK
  <2>4. result[c] # Code(c)
    BY <2>2, CodeIs DEF Renewed, IInv
  <2> QED BY <1>1, <2>1, <2>3, <2>4 DEF Renewed
<1>5. CASE Remove(c)
  <2>1. result' = result /\ pair' = pair /\ (Replaced(c)' => Replaced(c) /\ pc[c] # "done")
    BY <1>5 DEF Remove, At, Goto, Replaced, IInv, TypeOK, Stages
  <2> QED BY <1>1, <2>1 DEF Renewed
<1>6. CASE Create(c) \/ Write(c)
  <2>1. result' = result /\ pair' = pair /\ (Replaced(c)' => Replaced(c) /\ pc[c] # "done")
    BY <1>6 DEF Create, Write, At, Goto, Replaced, IInv, TypeOK, Stages
  <2> QED BY <1>1, <2>1 DEF Renewed
<1>7. CASE UNCHANGED <<pc[c], stage[c], result[c]>>
  BY <1>1, <1>7 DEF Renewed, Replaced
<1>8. ASSUME NEW d \in Calls, d # c,
             Look(d) \/ Create(d) \/ Write(d) \/ Move(d) \/ Remove(d) \/ ReadAgain(d)
      PROVE  UNCHANGED <<pc[c], stage[c], result[c]>>
  BY <1>8, MoveIs
     DEF Look, Create, Write, Remove, ReadAgain, At, Reads, Loaded, Goto, IInv, TypeOK
<1>9. ASSUME Delete \/ (\E p \in Procs : Crash(p)) \/ UNCHANGED vars
      PROVE  UNCHANGED <<pc[c], stage[c], result[c]>>
  BY <1>9 DEF Delete, Crash, vars, op
<1> QED BY <1>3, <1>4, <1>5, <1>6, <1>7, <1>8, <1>9 DEF Next

(* "The old token stops working at once" (pair.rs:164-166): a reset returns  *)
(* another code than the one it found.                                       *)
THEOREM ResetsRenew == ASSUME Apart PROVE Spec => ResetRenews
<1>1. Init => Renewed
  BY DEF Init, Renewed, Replaced
<1>2. ASSUME IInv, Renewed, [Next]_vars
      PROVE  [\A c \in Resets : pc[c] # "done" /\ pc'[c] = "done" => result'[c] # result[c]]_vars
  <2> SUFFICES ASSUME NEW c \in Resets, pc[c] # "done", pc'[c] = "done"
               PROVE  result'[c] # result[c]
    OBVIOUS
  <2>1. c \in Calls
    BY DEF Calls
  <2>2. Look(c) \/ ReadAgain(c)
    <3>1. ASSUME NEW d \in Calls, Create(d) \/ Write(d) \/ Move(d) \/ Remove(d)
          PROVE  pc'[c] = pc[c] \/ pc'[c] # "done"
      BY <1>2, <2>1, <3>1, MoveIs DEF Create, Write, Remove, At, Goto, IInv, TypeOK
    <3>2. ASSUME NEW d \in Calls, d # c, Look(d) \/ ReadAgain(d)
          PROVE  pc'[c] = pc[c]
      BY <1>2, <2>1, <3>2, ReadIs DEF ReadTo, IInv, TypeOK
    <3>3. ASSUME Delete \/ (\E p \in Procs : Crash(p)) \/ UNCHANGED vars
          PROVE  pc' = pc
      BY <3>3 DEF Delete, Crash, vars, op
    <3> QED BY <1>2, <2>1, <3>1, <3>2, <3>3 DEF Next
  <2>3. result'[c] = pair /\ pair # None
    BY <1>2, <2>1, <2>2, ResultIs DEF IInv, TypeOK
  <2>4. Replaced(c)
    BY <1>2, <2>1, <2>2
       DEF Look, ReadAgain, At, Reads, Loaded, Goto, IInv, TypeOK, Stages, Replaced
  <2> QED BY <1>2, <2>1, <2>3, <2>4 DEF Renewed
<1> QED BY <1>1, <1>2, Invariance, RenewedKeeps, PTL DEF Spec, ResetRenews
=============================================================================
