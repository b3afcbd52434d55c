-------------------------- MODULE ParamStore_proofs --------------------------
(* Theorems about ParamStore, for every number of parameters, every set of  *)
(* firmwares and values, and boards of either kind.                         *)
EXTENDS ParamStore, TLAPS

\* What the proofs use of the assumption most often.
LEMMA NType == N \in Nat \ {0} /\ EraseWrites \in BOOLEAN
BY ParamAssumption

USE NType DEF Index

\* EEPROM.put() has written the entries before `put' and none after; while it
\* runs the table in RAM does not change.
PutInv ==
  /\ \A i \in Index : i < put => eeprom[i] = goal[i]
  /\ \A i \in Index : i >= put => eeprom[i] = old[i]
  /\ put \in Index => goal = boardConfig
  /\ put = N => eeprom = goal /\ old = goal

\* After an erase that was completed both tables hold the firmware's names,
\* each at its place.
NameInv ==
  /\ initialised =>
       \A i \in Index : boardConfig[i].name = layout[i] /\ eeprom[i].name = layout[i]
  /\ put \in Index /\ erasing => boardConfig = Defaults(layout)

\* As long as nothing is set after an erase, the defaults are in RAM and are
\* what put() was to write.
EraseInv ==
  EraseWrites /\ erased =>
    boardConfig = Defaults(layout) /\ goal = Defaults(layout)

IInv == TypeOK /\ PutInv /\ NameInv /\ EraseInv

LEMMA DefaultsType ==
  ASSUME NEW l \in Layouts
  PROVE  Defaults(l) \in Table /\ \A i \in Index : Defaults(l)[i].name = l[i]
BY ParamAssumption DEF Defaults, Table, Param

LEMMA BlankType ==
  ASSUME NEW l \in Layouts
  PROVE  Blank(l) \in Table
BY ParamAssumption DEF Blank, Table, Param

LEMMA InitInv == Init => IInv
<1> SUFFICES ASSUME Init PROVE IInv
  OBVIOUS
<1>1. eeprom \in Table
  BY DefaultsType, BlankType DEF Init
<1>2. /\ layout \in Layouts /\ boardConfig = eeprom /\ old = eeprom /\ goal = eeprom
      /\ put = N /\ erasing = FALSE /\ erased = FALSE /\ initialised = FALSE
  BY DEF Init
<1>3. TypeOK
  <2>1. put \in 0 .. N
    BY <1>2
  <2>2. QED
    BY <1>1, <1>2, <2>1 DEF TypeOK
<1>4. QED
  BY <1>2, <1>3 DEF IInv, PutInv, NameInv, EraseInv

\* An assignment to one entry keeps the table's type and its names.
LEMMA AssignType ==
  ASSUME boardConfig \in Table, NEW i \in Index, NEW v \in Values \cup {Junk},
         boardConfig' = [boardConfig EXCEPT ![i].value = v]
  PROVE  /\ boardConfig' \in Table
         /\ \A j \in Index : boardConfig'[j].name = boardConfig[j].name
BY DEF Table, Param

\* What an assignment has to keep of the invariant.
LEMMA AssignInv ==
  ASSUME IInv, put = N, boardConfig' \in Table, ~erased',
         \A j \in Index : boardConfig'[j].name = boardConfig[j].name,
         UNCHANGED <<layout, eeprom, puts, initialised>>, erased' \in BOOLEAN
  PROVE  IInv'
BY DEF IInv, TypeOK, PutInv, NameInv, EraseInv, puts

LEMMA GetSetInv ==
  ASSUME IInv, NEW n \in Names \cup {Junk}, NEW v \in Values \cup {Junk}, handleGetSet(n, v)
  PROVE  IInv'
<1>1. CASE UNCHANGED <<boardConfig, erased>>
  BY <1>1 DEF handleGetSet, puts, IInv, TypeOK, PutInv, NameInv, EraseInv, Defaults
<1>2. CASE ~UNCHANGED <<boardConfig, erased>>
  <2>1. PICK i \in Index : boardConfig' = [boardConfig EXCEPT ![i].value = v]
    BY <1>2 DEF handleGetSet, assignParamValue, Entry
  <2>2. /\ boardConfig' \in Table
        /\ \A j \in Index : boardConfig'[j].name = boardConfig[j].name
    BY <2>1, AssignType DEF IInv, TypeOK
  <2>3. QED
    BY <1>2, <2>2, AssignInv DEF handleGetSet, assignParamValue
<1>3. QED
  BY <1>1, <1>2

LEMMA SerialInv == IInv /\ SerialSet => IInv'
<1> SUFFICES ASSUME IInv, SerialSet PROVE IInv'
  OBVIOUS
<1>1. PICK i \in Index, v \in Values :
        boardConfig' = [boardConfig EXCEPT ![i].value = v]
  BY ParamAssumption DEF SerialSet
<1>2. /\ boardConfig' \in Table
      /\ \A j \in Index : boardConfig'[j].name = boardConfig[j].name
  BY <1>1, AssignType DEF IInv, TypeOK
<1>3. QED
  BY <1>2, AssignInv DEF SerialSet

LEMMA SaveInv == IInv /\ saveConfig => IInv'
<1> SUFFICES ASSUME IInv, saveConfig PROVE IInv'
  OBVIOUS
<1>1. /\ put = N /\ put' = 0 /\ old' = eeprom /\ goal' = boardConfig
      /\ erasing' = FALSE
      /\ UNCHANGED <<layout, boardConfig, eeprom, erased, initialised>>
  BY DEF saveConfig, BeginPut
<1>2. put' \in 0 .. N
  BY <1>1
<1>3. TypeOK'
  BY <1>1, <1>2 DEF IInv, TypeOK
<1>4. PutInv' /\ NameInv'
  BY <1>1, <1>2 DEF IInv, PutInv, NameInv
<1>5. EraseInv'
  BY <1>1 DEF IInv, EraseInv, Defaults
<1>6. QED
  BY <1>3, <1>4, <1>5 DEF IInv

LEMMA EraseKeepsInv == IInv /\ resetConfig => IInv'
<1> SUFFICES ASSUME IInv, resetConfig PROVE IInv'
  OBVIOUS
<1>1. /\ boardConfig' = Defaults(layout) /\ boardConfig' \in Table
      /\ \A i \in Index : boardConfig'[i].name = layout[i]
  BY DefaultsType DEF resetConfig, IInv, TypeOK
<1>2. CASE EraseWrites
  <2>1. /\ put = N /\ put' = 0 /\ old' = eeprom /\ goal' = boardConfig' /\ erasing' = TRUE
        /\ erased' = TRUE /\ UNCHANGED <<layout, eeprom, initialised>>
    BY <1>2 DEF resetConfig, BeginPut
  <2>2. TypeOK' /\ PutInv'
    BY <1>1, <2>1 DEF IInv, TypeOK, PutInv
  <2>3. NameInv' /\ EraseInv'
    <3>1. Defaults(layout)' = Defaults(layout)
      BY <2>1 DEF Defaults
    <3>2. QED
      BY <1>1, <2>1, <3>1 DEF IInv, NameInv, EraseInv
  <2>4. QED
    BY <2>2, <2>3 DEF IInv
<1>3. CASE ~EraseWrites
  BY <1>1, <1>3 DEF resetConfig, puts, IInv, TypeOK, PutInv, NameInv, EraseInv
<1>4. QED
  BY <1>2, <1>3

LEMMA PutStepInv == IInv /\ PutStep => IInv'
<1> SUFFICES ASSUME IInv, PutStep PROVE IInv'
  OBVIOUS
<1>1. /\ put \in Index /\ put' = put + 1 /\ goal = boardConfig
      /\ eeprom' = [eeprom EXCEPT ![put] = boardConfig[put]]
      /\ UNCHANGED <<layout, boardConfig, erasing, goal, erased>>
      /\ old' = IF put' = N THEN goal ELSE old
      /\ initialised' = (initialised \/ (put' = N /\ erasing))
  BY DEF PutStep, IInv, PutInv
<1>2. /\ eeprom' \in Table /\ put' \in 0 .. N
      /\ \A i \in Index : eeprom'[i] = IF i = put THEN goal[i] ELSE eeprom[i]
  BY <1>1 DEF IInv, TypeOK, Table
<1>3. TypeOK'
  BY <1>1, <1>2 DEF IInv, TypeOK
<1>4. /\ \A i \in Index : i < put' => eeprom'[i] = goal[i]
      /\ \A i \in Index : i >= put' => eeprom'[i] = old[i]
  BY <1>1, <1>2 DEF IInv, PutInv
<1>5. put' = N => eeprom' = goal
  BY <1>2, <1>4 DEF IInv, TypeOK, Table
<1>6. PutInv'
  BY <1>1, <1>2, <1>4, <1>5 DEF IInv, PutInv
<1>7. NameInv'
  <2>1. layout \in Layouts
    BY DEF IInv, TypeOK
  <2>2. ASSUME initialised', NEW i \in Index
        PROVE  boardConfig'[i].name = layout[i] /\ eeprom'[i].name = layout[i]
    <3>1. CASE initialised
      BY <1>1, <1>2, <3>1 DEF IInv, NameInv
    <3>2. CASE put' = N /\ erasing
      <4>1. boardConfig = Defaults(layout)
        BY <1>1, <3>2 DEF IInv, NameInv
      <4>2. eeprom'[i] = boardConfig[i] /\ boardConfig' = boardConfig
        BY <1>1, <1>5, <3>2
      <4>3. QED
        BY <2>1, <4>1, <4>2, DefaultsType
    <3>3. QED
      BY <1>1, <2>2, <3>1, <3>2
  <2>3. put' \in Index /\ erasing' => boardConfig' = Defaults(layout)'
    BY <1>1 DEF IInv, NameInv, Defaults
  <2>4. QED
    BY <1>1, <2>2, <2>3 DEF NameInv
<1>8. EraseInv'
  BY <1>1 DEF IInv, EraseInv, Defaults
<1>9. QED
  BY <1>3, <1>6, <1>7, <1>8 DEF IInv

\* Whatever a reset does to the entry that is being written, the table keeps
\* its type, and its names where both tables have the same.
LEMMA CutType ==
  ASSUME IInv, PowerCut
  PROVE  /\ eeprom' \in Table
         /\ \A i \in Index : i # put => eeprom'[i] = eeprom[i]
         /\ initialised => \A i \in Index : eeprom'[i].name = layout[i]
<1>1. CASE put \in Index
  <2>1. PICK x \in Cut(eeprom[put], boardConfig[put]) :
          eeprom' = [eeprom EXCEPT ![put] = x]
    BY <1>1 DEF PowerCut
  <2>2. x \in Param
    BY DEF Cut
  <2>3. initialised => x.name = layout[put]
    BY <1>1 DEF Cut, IInv, NameInv
  <2>4. QED
    BY <1>1, <2>1, <2>2, <2>3 DEF IInv, TypeOK, NameInv, Table
<1>2. CASE put \notin Index
  BY <1>2 DEF PowerCut, IInv, TypeOK, NameInv
<1>3. QED
  BY <1>1, <1>2

LEMMA ResetInv == IInv /\ Reset => IInv'
<1> SUFFICES ASSUME IInv, Reset PROVE IInv'
  OBVIOUS
<1>1. /\ PowerCut /\ boardConfig' = eeprom' /\ put' = N
      /\ old' = eeprom' /\ goal' = eeprom'
      /\ erased' = (erased /\ put = N)
      /\ UNCHANGED <<layout, erasing, initialised>>
  BY DEF Reset, initParameter
<1>2. /\ eeprom' \in Table
      /\ initialised => \A i \in Index : eeprom'[i].name = layout[i]
  BY <1>1, CutType
<1>3. TypeOK' /\ PutInv'
  BY <1>1, <1>2 DEF IInv, TypeOK, PutInv
<1>4. NameInv'
  BY <1>1, <1>2 DEF IInv, NameInv
<1>5. EraseInv'
  <2>1. put = N => eeprom' = goal
    BY <1>1 DEF PowerCut, IInv, PutInv
  <2>2. QED
    BY <1>1, <2>1 DEF IInv, EraseInv, Defaults
<1>6. QED
  BY <1>3, <1>4, <1>5 DEF IInv

LEMMA FlashInv == IInv /\ Flash => IInv'
<1> SUFFICES ASSUME IInv, Flash PROVE IInv'
  OBVIOUS
<1>1. /\ put = N /\ layout' \in Layouts /\ boardConfig' = eeprom
      /\ erased' = FALSE /\ initialised' = FALSE
      /\ UNCHANGED <<eeprom, put, erasing, old, goal>>
  BY DEF Flash, initParameter, puts
<1>2. TypeOK'
  BY <1>1 DEF IInv, TypeOK
<1>3. PutInv' /\ NameInv' /\ EraseInv'
  BY <1>1 DEF IInv, PutInv, NameInv, EraseInv
<1>4. QED
  BY <1>2, <1>3 DEF IInv

LEMMA StutterInv == IInv /\ UNCHANGED vars => IInv'
BY DEF vars, puts, IInv, TypeOK, PutInv, NameInv, EraseInv, Defaults

THEOREM Invariance == Spec => []IInv
<1>1. IInv /\ [Next]_vars => IInv'
  BY GetSetInv, SerialInv, SaveInv, EraseKeepsInv, PutStepInv, ResetInv, FlashInv,
     StutterInv DEF Next, handleExecuteOpcode
<1>2. QED
  BY <1>1, InitInv, PTL DEF Spec

(* Both tables always have their type, with junk where nobody chose.        *)
THEOREM TypeCorrect == Spec => []TypeOK
<1>1. IInv => TypeOK
  BY DEF IInv
<1>2. QED
  BY <1>1, Invariance, PTL

(* After a completed erase a set request for a name changes the position     *)
(* that the firmware reads for it, and nothing else, for ever.               *)
THEOREM SetReaches == Spec => SetReachesReader
<1>1. ASSUME IInv, initialised, NEW i \in Index, NEW v \in Values,
             handleGetSet(layout[i], v)
      PROVE  boardConfig' = [boardConfig EXCEPT ![i].value = v]
  <2>1. layout \in Layouts
    BY <1>1 DEF IInv, TypeOK
  <2>2. Entry(layout[i]) = {i}
    BY <1>1, <2>1, ParamAssumption DEF Entry, IInv, NameInv
  <2>3. layout[i] # Junk
    BY <2>1, ParamAssumption
  <2>4. QED
    BY <1>1, <2>2, <2>3 DEF handleGetSet, assignParamValue
<1>2. IInv => [initialised =>
               \A i \in Index, v \in Values :
                 handleGetSet(layout[i], v) =>
                   boardConfig' = [boardConfig EXCEPT ![i].value = v]]_vars
  BY <1>1
<1>3. QED
  BY <1>2, Invariance, PTL DEF SetReachesReader

(* A completed save is what every later restart loads.                       *)
THEOREM Survives == Spec => SaveSurvives
<1>1. IInv => [Reset /\ put = N => boardConfig' = goal]_vars
  BY DEF Reset, PowerCut, initParameter, IInv, PutInv
<1>2. QED
  BY <1>1, Invariance, PTL DEF SaveSurvives

(* A save that is cut damages one entry at most.                             *)
THEOREM CutsOnce == Spec => OneCut
<1>1. ASSUME IInv, Reset
      PROVE  \E c \in Index :
               /\ \A i \in 0 .. c - 1 : boardConfig'[i] = goal[i]
               /\ \A i \in c + 1 .. N - 1 : boardConfig'[i] = old[i]
  <2> DEFINE c == IF put \in Index THEN put ELSE N - 1
  <2>1. c \in Index
    OBVIOUS
  <2>2. boardConfig' = eeprom' /\ \A i \in Index : i # put => eeprom'[i] = eeprom[i]
    BY <1>1, CutType DEF Reset, initParameter
  <2>3. /\ \A i \in Index : i < put => eeprom[i] = goal[i]
        /\ \A i \in Index : i >= put => eeprom[i] = old[i]
        /\ put \in 0 .. N
    BY <1>1 DEF IInv, PutInv, TypeOK
  <2>4. \A i \in 0 .. c - 1 : boardConfig'[i] = goal[i]
    BY <2>2, <2>3
  <2>5. \A i \in c + 1 .. N - 1 : boardConfig'[i] = old[i]
    BY <2>2, <2>3
  <2>6. QED
    BY <2>1, <2>4, <2>5
<1>2. IInv => [Reset =>
               \E c \in Index :
                 /\ \A i \in 0 .. c - 1 : boardConfig'[i] = goal[i]
                 /\ \A i \in c + 1 .. N - 1 : boardConfig'[i] = old[i]]_vars
  BY <1>1
<1>3. QED
  BY <1>2, Invariance, PTL DEF OneCut

(* On a board whose erase writes the EEPROM, the defaults come back at every *)
(* restart until something is set.                                           *)
THEOREM EraseLasts ==
  ASSUME EraseWrites
  PROVE  Spec => EraseIsDurable
<1>1. IInv => [Reset /\ erased /\ put = N => boardConfig' = Defaults(layout)]_vars
  BY EraseWrites DEF Reset, PowerCut, initParameter, IInv, PutInv, EraseInv
<1>2. QED
  BY <1>1, Invariance, PTL DEF EraseIsDurable
=============================================================================
