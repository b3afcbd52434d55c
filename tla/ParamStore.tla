----------------------------- MODULE ParamStore -----------------------------
(***************************************************************************)
(* The parameters of a board: the table boardConfig[] in RAM, its copy in  *)
(* the EEPROM, the parameter server that sets them by name, and the rest   *)
(* of the firmware, which reads them by position.                          *)
(*                                                                         *)
(* On the dropper/torpedo board the names are a part of the table and so   *)
(* of the EEPROM.  A reset may cut EEPROM.put() at any byte, and new       *)
(* firmware with another order of parameters starts with the table that    *)
(* the last one has saved.                                                 *)
(***************************************************************************)
EXTENDS Naturals

CONSTANTS
  N,            \* LEN(defaultBoardConfig)
  Names, Values,
  Junk,         \* a name or value that nobody chose (erased, torn, misread)
  Layouts,      \* the names of defaultBoardConfig[], in each firmware
  defaultValue, \* the value of each name in defaultBoardConfig[]
  Switches,     \* positions that a serial command sets
  \* What differs between the dropper/torpedo board and the example board:
  StoresNames,  \* are the names a part of the table, or of the code?
  ChecksTag,    \* does assignParamValue() look at the type of the value?
  EraseWrites   \* does eraseAllParams() write the EEPROM?

Index == 0 .. N - 1

ASSUME ParamAssumption ==
  /\ N \in Nat \ {0}
  /\ Junk \notin Names /\ Junk \notin Values
  /\ Layouts \subseteq [Index -> Names] /\ Layouts # {}
  /\ \A l \in Layouts : \A i, j \in Index : l[i] = l[j] => i = j
  /\ defaultValue \in [Names -> Values]
  /\ Switches \subseteq Index
  /\ ChecksTag \in BOOLEAN /\ EraseWrites \in BOOLEAN
  /\ StoresNames \/ \A l, k \in Layouts : l = k

Param == [name : Names \cup {Junk}, value : Values \cup {Junk}]
Table == [Index -> Param]

VARIABLES
  layout,       \* the firmware that is flashed
  boardConfig,
  eeprom,
  put,          \* entry that EEPROM.put() writes next, N when none is running
  erasing,      \* is that put() the one of resetConfig()?
  goal,         \* history: the table that put() is to write, or has written
  old,          \* history: the EEPROM before that; goal when it is written
  erased,       \* history: the last change of the parameters was an erase
  initialised   \* history: an erase was completed since the firmware was flashed

puts == <<put, erasing, old, goal>>
vars == <<layout, boardConfig, eeprom, puts, erased, initialised>>

\* initParameters().
Defaults(l) == [i \in Index |-> [name |-> l[i], value |-> defaultValue[l[i]]]]

\* What an EEPROM that was never written is read as.
Blank(l) ==
  [i \in Index |-> [name |-> IF StoresNames THEN Junk ELSE l[i], value |-> Junk]]

Init ==
  /\ layout \in Layouts
  /\ eeprom \in UNION {{Blank(l), Defaults(l)} : l \in Layouts}
  /\ boardConfig = eeprom
  /\ put = N /\ erasing = FALSE
  /\ old = eeprom /\ goal = eeprom
  /\ erased = FALSE /\ initialised = FALSE

-----------------------------------------------------------------------------
(* The parameter server and the serial commands.  Each runs to its end in   *)
(* the main thread; nothing else happens while EEPROM.put() is running.     *)

\* The first entry with that name, as a set.  No two entries need have the
\* same junk for a name.
Entry(n) ==
  {i \in Index : /\ boardConfig[i].name = n
                 /\ n = Junk \/ \A j \in 0 .. i - 1 : boardConfig[j].name # n}

\* Mutant: the search falls off the end of the table and assigns there.
assignParamValue_PastEnd(n, v) ==
  /\ \E i \in IF Entry(n) = {} THEN {N} ELSE Entry(n) :
       boardConfig' = [j \in Index \cup {i} |->
                         IF j # i THEN boardConfig[j] ELSE [name |-> n, value |-> v]]
  /\ erased' = FALSE

assignParamValue(n, v) ==
  \/ /\ Entry(n) = {} \/ n = Junk
     /\ UNCHANGED <<boardConfig, erased>>
  \/ /\ \E i \in Entry(n) :
          boardConfig' = [boardConfig EXCEPT ![i].value = v]
     /\ erased' = FALSE

\* A GetSet request with a value, for a name or for whatever is the name at an
\* index.  A value of another type than real_value makes as() return a null
\* pointer, which is read: the outcome is junk, or a fault that ends in a Reset.
handleGetSet(n, v) ==
  /\ put = N
  /\ v = Junk => ~ChecksTag
  /\ assignParamValue(n, v)
  /\ UNCHANGED <<layout, eeprom, puts, initialised>>

\* setdemo, enablelvindicator, enablepressurealert, enabletorpedoindicator.
SerialSet ==
  /\ put = N
  /\ \E i \in Switches, v \in Values :
       boardConfig' = [boardConfig EXCEPT ![i].value = v]
  /\ erased' = FALSE
  /\ UNCHANGED <<layout, eeprom, puts, initialised>>

\* EEPROM.put() begins to write the table.
BeginPut(table) ==
  /\ put' = 0
  /\ old' = eeprom /\ goal' = table

\* Mutant: the first entry is left out.
saveConfig_SkipsFirst ==
  /\ put = N
  /\ put' = 1
  /\ old' = eeprom /\ goal' = boardConfig
  /\ erasing' = FALSE
  /\ UNCHANGED <<layout, boardConfig, eeprom, erased, initialised>>

saveConfig ==
  /\ put = N
  /\ BeginPut(boardConfig)
  /\ erasing' = FALSE
  /\ UNCHANGED <<layout, boardConfig, eeprom, erased, initialised>>

\* Mutants: the table is reset in RAM only; the values are reset and the
\* names are not.
resetConfig_RamOnly ==
  /\ put = N
  /\ boardConfig' = Defaults(layout)
  /\ erased' = TRUE
  /\ UNCHANGED <<layout, eeprom, puts, initialised>>

resetConfig_ValuesOnly ==
  /\ put = N
  /\ boardConfig' = [i \in Index |->
       [name |-> boardConfig[i].name, value |-> defaultValue[layout[i]]]]
  /\ BeginPut(boardConfig')
  /\ erasing' = TRUE /\ erased' = TRUE
  /\ UNCHANGED <<layout, eeprom, initialised>>

resetConfig ==
  /\ put = N
  /\ boardConfig' = Defaults(layout)
  /\ erased' = TRUE
  /\ IF EraseWrites
     THEN BeginPut(boardConfig') /\ erasing' = TRUE
     ELSE UNCHANGED puts
  /\ UNCHANGED <<layout, eeprom, initialised>>

\* A SAVE or ERASE request; the commands saveparam and restoreparam.
handleExecuteOpcode == saveConfig \/ resetConfig

\* EEPROM.put(): the next entry (external).
PutStep ==
  /\ put \in Index
  /\ eeprom' = [eeprom EXCEPT ![put] = boardConfig[put]]
  /\ put' = put + 1
  /\ old' = IF put' = N THEN goal ELSE old
  /\ initialised' = (initialised \/ (put' = N /\ erasing))
  /\ UNCHANGED <<layout, boardConfig, erasing, goal, erased>>

-----------------------------------------------------------------------------
(* Restarts.                                                                *)

\* An entry that was being overwritten.  The mixture of two names may even be
\* a third one: "Servo10_ID" over "Servo2_ID" gives "Servo1_ID".
Cut(a, b) ==
  {x \in Param : /\ a.name = b.name => x.name = a.name
                 /\ a.value = b.value => x.value = a.value}

PowerCut ==
  IF put \in Index
  THEN \E x \in Cut(eeprom[put], boardConfig[put]) :
         eeprom' = [eeprom EXCEPT ![put] = x]
  ELSE UNCHANGED eeprom

\* Mutant: the defaults are written over what was loaded.
initParameter_DefaultsLast(l) == boardConfig' = Defaults(l)

\* initParameters(), all of which EEPROM.get() overwrites.
initParameter(l) == boardConfig' = eeprom'

\* Watchdog, power or remote restart.
Reset ==
  /\ PowerCut
  /\ initParameter(layout)
  /\ put' = N
  /\ old' = eeprom' /\ goal' = eeprom'
  /\ erased' = (erased /\ put = N)
  /\ UNCHANGED <<layout, erasing, initialised>>

\* New firmware is flashed; the EEPROM keeps what it holds.
Flash ==
  /\ put = N
  /\ layout' \in Layouts
  /\ UNCHANGED eeprom
  /\ initParameter(layout')
  /\ erased' = FALSE /\ initialised' = FALSE
  /\ UNCHANGED puts

Next ==
  \/ \E n \in Names \cup {Junk}, v \in Values \cup {Junk} : handleGetSet(n, v)
  \/ SerialSet \/ handleExecuteOpcode \/ PutStep
  \/ Reset \/ Flash

Spec == Init /\ [][Next]_vars

-----------------------------------------------------------------------------
(* Properties.                                                              *)

\* Every variable stays in its type.
TypeOK ==
  /\ layout \in Layouts
  /\ boardConfig \in Table /\ eeprom \in Table
  /\ put \in 0 .. N /\ erasing \in BOOLEAN
  /\ old \in Table /\ goal \in Table
  /\ erased \in BOOLEAN /\ initialised \in BOOLEAN

\* Once the erase that Readme.md:94 asks for after flashing has been
\* completed, a set request reaches the position that the firmware reads for
\* that name, and no other: through any restarts and cut saves that follow.
SetReachesReader ==
  [][initialised =>
       \A i \in Index, v \in Values :
         handleGetSet(layout[i], v) =>
           boardConfig' = [boardConfig EXCEPT ![i].value = v]]_vars

\* A save that was completed is what the board starts with, restart after
\* restart, until the next save begins.
SaveSurvives == [][Reset /\ put = N => boardConfig' = goal]_vars

\* A save that a reset cuts leaves every entry as it was or as it should be,
\* but for the one at the cut.
OneCut ==
  [][Reset =>
       \E c \in Index :
         /\ \A i \in 0 .. c - 1 : boardConfig'[i] = goal[i]
         /\ \A i \in c + 1 .. N - 1 : boardConfig'[i] = old[i]]_vars

\* "Clear the non-volatile storage" (param_server.hpp:68): if nothing was set
\* after an erase, and its writing was not cut, the board starts with the
\* defaults next time.
EraseIsDurable ==
  [][Reset /\ erased /\ put = N => boardConfig' = Defaults(layout)]_vars
=============================================================================
