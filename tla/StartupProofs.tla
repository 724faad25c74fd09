----------------------------- MODULE StartupProofs -----------------------------
(***************************************************************************)
(* What holds of Startup for any boards, ports and order of commands: what *)
(* is in the list is complete, events are lost for two causes only, and    *)
(* the order the code is made for brings everything up.                    *)
(***************************************************************************)
EXTENDS Startup, TLAPS

-----------------------------------------------------------------------------
(* The invariant.                                                          *)

InAdd == shell \in {"construct", "constructed", "initialised"}

\* The board being added is new, and is made step by step.
AddingInv ==
    InAdd =>
        /\ adding \in Additions
        /\ adding.name \notin Listed
        /\ \A m \in Listed : device[m].tty # adding.tty
        /\ shell = "construct" => reader[adding.name] = "none"
        /\ shell # "construct" => device[adding.name].tty = adding.tty
                                  /\ reader[adding.name] # "none"
        /\ shell = "initialised" => adding.name \in ioscan
        /\ (started /\ shell # "initialised") => adding.name \in late

\* Every board constructed is in the list, but for that one.
BoardsInv ==
    /\ ListedIsComplete
    /\ \A n \in Constructed : n \in Listed \/ (InAdd /\ n = adding.name)

\* Before ipimbStart no reader gets past start_mutex.
GateInv ==
    /\ start_mutex = "none" => Constructed = {}
    /\ started <=> start_mutex \notin {"none", "shell"}
    /\ started \/ \A n \in Names : reader[n] \in {"none", "waits"}

EventInv ==
    /\ (started /\ ~running) => early
    /\ missed # {} => started /\ early
    /\ misused \subseteq late

OrderInv ==
    orderly =>
        /\ shell \notin {"suspended", "crashed"}
        /\ ~early /\ late = {}
        /\ started => running
        /\ (Constructed # {} \/ InAdd) => loaded
        /\ InAdd => adding.command = "ipimbTprAdd" /\ ~running
        /\ running => Listed = Names /\ \A n \in Names : record[n] = "bound"
        /\ \A n \in Constructed : device[n].trigger = "record" /\ device[n].args = AsTyped

StartupInv == TypeOK /\ AddingInv /\ BoardsInv /\ GateInv /\ EventInv /\ OrderInv

-----------------------------------------------------------------------------
(* The list.                                                               *)

LEMMA ListedType ==
    ASSUME list \in [boards : Seq(Names), lock : BOOLEAN]
    PROVE  Listed \subseteq Names
BY DEF Listed

LEMMA SameList ==
    ASSUME list'.boards = list.boards
    PROVE  Listed' = Listed
BY DEF Listed

\* ellAdd.
LEMMA ListGrows ==
    ASSUME list \in [boards : Seq(Names), lock : BOOLEAN], NEW n \in Names,
           list'.boards = Append(list.boards, n)
    PROVE  Listed' = Listed \cup {n}
<1>1. list.boards \in Seq(Names)
  OBVIOUS
<1>2. /\ Len(list'.boards) = Len(list.boards) + 1
      /\ \A k \in 1 .. Len(list.boards) : list'.boards[k] = list.boards[k]
      /\ list'.boards[Len(list.boards) + 1] = n
  BY <1>1
<1>3. 1 .. (Len(list.boards) + 1) = (1 .. Len(list.boards)) \cup {Len(list.boards) + 1}
  BY <1>1
<1> QED
  BY <1>2, <1>3 DEF Listed

\* ipimbTprAdd takes its arguments from where they were typed.
LEMMA TprTaken == Taken("ipimbTprAdd") = AsTyped
BY DEF Taken, Declared, AsTyped

-----------------------------------------------------------------------------
(* The steps of the shell.                                                 *)

LEMMA InitEstablishes == Init => StartupInv
<1> SUFFICES ASSUME Init
             PROVE  StartupInv
  OBVIOUS
<1>1. Listed = {} /\ Constructed = {}
  BY DEF Init, Listed, Constructed
<1>2. TypeOK
  <2>1. list \in [boards : Seq(Names), lock : BOOLEAN] /\ Len(list.boards) = 0
    BY DEF Init
  <2>2. device \in [Names -> Devices]
    BY DEF Init, Devices
  <2>3. record \in [Names -> {"none", "bound", "dead"}]
        /\ reader \in [Names -> {"none", "waits", "enters", "polls"}]
    BY DEF Init
  <2>4. \A j, k \in 1 .. Len(list.boards) : j # k => list.boards[j] # list.boards[k]
    BY <2>1
  <2>5. shell \in Shells /\ adding \in Additions \cup {Nothing}
    BY DEF Init, Shells
  <2> QED
    BY <1>1, <2>1, <2>2, <2>3, <2>4, <2>5 DEF Init, TypeOK
<1> QED
  BY <1>1, <1>2, StartupAssumption
     DEF Init, StartupInv, AddingInv, BoardsInv, GateInv, EventInv, OrderInv, ListedIsComplete,
         LostForCause, InAdd

LEMMA LoadKeeps ==
    ASSUME StartupInv, LoadDatabase
    PROVE  StartupInv'
<1> USE DEF StartupInv, LoadDatabase, Prompt, shellVars, boardVars, gateVars, eventVars, orderVars
<1>1. Listed' = Listed /\ Constructed' = Constructed
  BY SameList DEF Constructed
<1>2. TypeOK'
  BY <1>1 DEF TypeOK
<1>3. AddingInv' /\ BoardsInv' /\ GateInv' /\ EventInv'
  BY <1>1 DEF AddingInv, BoardsInv, GateInv, EventInv, ListedIsComplete, InAdd
<1>4. OrderInv'
  BY <1>1 DEF OrderInv, InAdd
<1> QED
  BY <1>2, <1>3, <1>4

LEMMA AddKeeps ==
    ASSUME StartupInv, NEW n \in Names, NEW t \in Ttys, NEW c \in Commands, ipimbAdd(n, t, c)
    PROVE  StartupInv'
<1> USE DEF StartupInv, ipimbAdd, Prompt, databaseVars, gateVars, eventVars
<1>1. Listed' = Listed /\ Constructed' = Constructed
  <2>1. list'.boards = list.boards
    BY DEF TypeOK
  <2> QED
    BY <2>1, SameList DEF Constructed
<1>2. Constructed \subseteq Listed
  BY DEF BoardsInv, InAdd
<1>3. ~Installed(n, t) => n \notin Listed /\ reader[n] = "none" /\ \A m \in Listed : device[m].tty # t
  BY <1>2 DEF Installed, Constructed
<1>4. TypeOK'
  <2>1. list' \in [boards : Seq(Names), lock : BOOLEAN] /\ list'.boards = list.boards
    BY DEF TypeOK
  <2>2. adding' \in Additions \cup {Nothing} /\ shell' \in Shells /\ late' \subseteq Names
    BY DEF TypeOK, Shells, Additions
  <2>3. orderly' \in BOOLEAN
    BY DEF TypeOK
  <2> QED
    BY <1>1, <2>1, <2>2, <2>3 DEF TypeOK
<1>5. AddingInv'
  BY <1>1, <1>3 DEF AddingInv, InAdd, Additions
<1>6. BoardsInv' /\ GateInv'
  BY <1>1, <1>2 DEF BoardsInv, GateInv, ListedIsComplete
<1>7. EventInv'
  BY DEF EventInv
<1>8. OrderInv'
  <2> SUFFICES ASSUME orderly'
               PROVE  OrderInv'
    BY DEF OrderInv
  <2>1. orderly /\ loaded /\ ~running /\ ~Installed(n, t) /\ c = "ipimbTprAdd"
    BY DEF TypeOK
  <2>2. ~started /\ shell' = "construct" /\ adding'.command = c /\ late' = late
    BY <2>1 DEF OrderInv
  <2> QED
    BY <1>1, <2>1, <2>2 DEF OrderInv
<1> QED
  BY <1>4, <1>5, <1>6, <1>7, <1>8

LEMMA CrashKeeps ==
    ASSUME StartupInv, BadArguments
    PROVE  StartupInv'
<1> USE DEF StartupInv, BadArguments, Crash, databaseVars, boardVars, gateVars, eventVars, orderVars
<1>1. Listed' = Listed /\ Constructed' = Constructed
  BY SameList DEF Constructed
<1>2. TypeOK'
  BY <1>1 DEF TypeOK, Shells
<1>3. AddingInv' /\ GateInv' /\ EventInv'
  BY <1>1 DEF AddingInv, GateInv, EventInv, InAdd
<1>4. BoardsInv'
  BY <1>1 DEF BoardsInv, AddingInv, ListedIsComplete, InAdd, Constructed
<1>5. OrderInv'
  BY DEF OrderInv, InAdd
<1> QED
  BY <1>2, <1>3, <1>4, <1>5

LEMMA ConstructKeeps ==
    ASSUME StartupInv, ConstructBoard
    PROVE  StartupInv'
<1> USE DEF StartupInv, ConstructBoard, databaseVars, eventVars, orderVars
<1> DEFINE n == adding.name
<1>1. /\ n \in Names /\ n \notin Listed /\ reader[n] = "none"
      /\ adding \in Additions /\ InAdd /\ InAdd'
  BY DEF AddingInv, InAdd, Additions
<1>2. Listed' = Listed /\ Listed \subseteq Names
  BY SameList, ListedType DEF TypeOK
<1>3. Constructed' = Constructed \cup {n}
  BY <1>1 DEF Constructed, TypeOK
<1>4. /\ device' = [device EXCEPT ![n] = [tty |-> adding.tty, trigger |-> Trigger,
                                          args |-> Taken(adding.command)]]
      /\ \A m \in Listed : device'[m] = device[m]
      /\ device'[n] = [tty |-> adding.tty, trigger |-> Trigger, args |-> Taken(adding.command)]
  BY <1>1, <1>2 DEF TypeOK
<1>5. device'[n] \in Devices /\ Trigger \in {"record", "140"}
  BY <1>1, <1>4 DEF Devices, Additions, Trigger
<1>6. TypeOK'
  <2>1. device' \in [Names -> Devices]
    BY <1>1, <1>4, <1>5 DEF TypeOK
  <2>2. reader' \in [Names -> {"none", "waits", "enters", "polls"}]
    BY <1>1 DEF TypeOK
  <2>3. Listed' \subseteq Constructed'
    BY <1>2, <1>3 DEF TypeOK
  <2> QED
    BY <2>1, <2>2, <2>3 DEF TypeOK, Shells, Gate
<1>7. AddingInv'
  BY <1>1, <1>2, <1>4 DEF AddingInv, TypeOK, InAdd
<1>8. BoardsInv'
  BY <1>1, <1>2, <1>3, <1>4 DEF BoardsInv, ListedIsComplete, InAdd
<1>9. GateInv'
  BY <1>1, StartupAssumption DEF GateInv, Gate, TypeOK
<1>10. EventInv'
  BY DEF EventInv
<1>11. OrderInv'
  <2> SUFFICES ASSUME orderly'
               PROVE  OrderInv'
    BY DEF OrderInv
  <2>1. orderly /\ loaded /\ adding.command = "ipimbTprAdd"
    BY <1>1 DEF OrderInv
  <2>2. Trigger = "record"
    BY <2>1, TprTaken DEF Trigger, AsTyped
  <2>3. \A m \in Constructed' : device'[m].trigger = "record" /\ device'[m].args = AsTyped
    <3>1. device'[n].trigger = "record" /\ device'[n].args = AsTyped
      BY <1>4, <2>1, <2>2, TprTaken
    <3>2. \A m \in Constructed : m # n => device'[m] = device[m]
      BY <1>1, <1>4 DEF TypeOK, Constructed
    <3> QED
      BY <1>3, <2>1, <3>1, <3>2 DEF OrderInv
  <2> QED
    BY <1>1, <1>2, <2>1, <2>3 DEF OrderInv
<1> QED
  BY <1>6, <1>7, <1>8, <1>9, <1>10, <1>11

LEMMA ScanListKeeps ==
    ASSUME StartupInv, InitScanList
    PROVE  StartupInv'
<1> USE DEF StartupInv, InitScanList, databaseVars, gateVars, eventVars, orderVars
<1>1. Listed' = Listed /\ Constructed' = Constructed
  BY SameList DEF Constructed
<1>2. InAdd /\ InAdd' /\ adding.name \in Names /\ ioscan' = ioscan \cup {adding.name}
  BY DEF InAdd, AddingInv, Additions, ScanListInitialised
<1>3. TypeOK'
  BY <1>1, <1>2 DEF TypeOK, Shells
<1>4. AddingInv' /\ GateInv' /\ EventInv' /\ OrderInv'
  BY <1>1, <1>2 DEF AddingInv, GateInv, EventInv, OrderInv
<1>5. BoardsInv'
  BY <1>1, <1>2 DEF BoardsInv, ListedIsComplete
<1> QED
  BY <1>3, <1>4, <1>5

LEMMA ListKeeps ==
    ASSUME StartupInv, AddToList
    PROVE  StartupInv'
<1> USE DEF StartupInv, AddToList, databaseVars, gateVars, eventVars, orderVars
<1> DEFINE n == adding.name
<1>1. InAdd /\ ~InAdd' /\ n \in Names /\ n \notin Listed /\ n \in ioscan /\ reader[n] # "none"
  BY DEF InAdd, AddingInv, Additions
<1>2. /\ list' = [list EXCEPT !.boards = Append(list.boards, n)]
      /\ list'.boards = Append(list.boards, n) /\ list.boards \in Seq(Names)
  BY DEF TypeOK
<1>3. Listed' = Listed \cup {n}
  BY <1>1, <1>2, ListGrows DEF TypeOK
<1>4. Constructed' = Constructed /\ n \in Constructed /\ Listed \subseteq Constructed
  BY <1>1 DEF Constructed, TypeOK
<1>5. TypeOK'
  <2>1. list' \in [boards : Seq(Names), lock : BOOLEAN]
    <3>1. Append(list.boards, n) \in Seq(Names)
      BY <1>1, <1>2
    <3> QED
      BY <1>2, <3>1 DEF TypeOK
  <2>2. ASSUME NEW j \in 1 .. Len(list'.boards), NEW k \in 1 .. Len(list'.boards), j # k
        PROVE  list'.boards[j] # list'.boards[k]
    <3>1. \A i \in 1 .. Len(list.boards) : list'.boards[i] = list.boards[i] /\ list.boards[i] # n
      BY <1>1, <1>2 DEF Listed
    <3>2. /\ Len(list'.boards) = Len(list.boards) + 1 /\ Len(list.boards) \in Nat
          /\ list'.boards[Len(list.boards) + 1] = n
      BY <1>2
    <3>3. CASE j \in 1 .. Len(list.boards) /\ k \in 1 .. Len(list.boards)
      BY <2>2, <3>1, <3>3 DEF TypeOK
    <3>4. CASE ~(j \in 1 .. Len(list.boards) /\ k \in 1 .. Len(list.boards))
      <4>1. \/ j = Len(list.boards) + 1 /\ k \in 1 .. Len(list.boards)
            \/ k = Len(list.boards) + 1 /\ j \in 1 .. Len(list.boards)
        BY <2>2, <3>2, <3>4
      <4> QED
        BY <3>1, <3>2, <4>1
    <3> QED
      BY <3>3, <3>4
  <2>3. Listed' \subseteq Constructed'
    BY <1>3, <1>4
  <2> QED
    BY <2>1, <2>2, <2>3 DEF TypeOK, Shells
<1>6. AddingInv' /\ GateInv' /\ EventInv'
  BY <1>1, <1>4 DEF AddingInv, GateInv, EventInv
<1>7. BoardsInv'
  <2>1. \A m \in Listed : device[m].tty # device[n].tty
    BY DEF AddingInv, InAdd
  <2> QED
    BY <1>1, <1>3, <1>4, <2>1 DEF BoardsInv, ListedIsComplete
<1>8. OrderInv'
  BY <1>1, <1>4 DEF OrderInv
<1> QED
  BY <1>5, <1>6, <1>7, <1>8

LEMMA IocInitKeeps ==
    ASSUME StartupInv, IocInit
    PROVE  StartupInv'
<1> USE DEF StartupInv, IocInit, Prompt, boardVars, gateVars, eventVars
<1>1. Listed' = Listed /\ Constructed' = Constructed /\ Listed \subseteq Constructed
  BY SameList DEF Constructed, TypeOK
<1>2. ~InAdd /\ ~InAdd' /\ adding' = adding
  BY DEF InAdd
<1>3. TypeOK'
  BY <1>1 DEF TypeOK, Shells
<1>4. AddingInv' /\ BoardsInv' /\ GateInv' /\ EventInv'
  BY <1>1, <1>2 DEF AddingInv, BoardsInv, GateInv, EventInv, ListedIsComplete, TypeOK
<1>5. OrderInv'
  <2> SUFFICES ASSUME orderly'
               PROVE  OrderInv'
    BY DEF OrderInv
  <2>1. orderly /\ Listed = Names
    BY DEF TypeOK
  <2>2. loaded
    BY <1>1, <2>1, StartupAssumption DEF OrderInv
  <2> QED
    BY <1>1, <1>2, <2>1, <2>2 DEF OrderInv
<1> QED
  BY <1>3, <1>4, <1>5

LEMMA StartKeeps ==
    ASSUME StartupInv, ipimbStart
    PROVE  StartupInv'
<1> USE DEF StartupInv, ipimbStart, Prompt, databaseVars, boardVars, eventVars
<1>1. Listed' = Listed /\ Constructed' = Constructed
  BY SameList DEF Constructed
<1>2. ~InAdd /\ ~InAdd' /\ adding' = adding
  BY DEF InAdd
<1>3. TypeOK'
  BY <1>1 DEF TypeOK, Shells
<1>4. AddingInv' /\ BoardsInv' /\ GateInv' /\ EventInv'
  BY <1>1, <1>2 DEF AddingInv, BoardsInv, GateInv, EventInv, ListedIsComplete
<1>5. OrderInv'
  <2> SUFFICES ASSUME orderly'
               PROVE  OrderInv'
    BY DEF OrderInv
  <2>1. orderly /\ running /\ start_mutex # "none"
    BY StartupAssumption DEF OrderInv, GateInv, TypeOK
  <2> QED
    BY <1>1, <1>2, <2>1 DEF OrderInv
<1> QED
  BY <1>3, <1>4, <1>5

-----------------------------------------------------------------------------
(* The steps of the readers.                                               *)

LEMMA ReaderKeeps ==
    ASSUME StartupInv, NEW n \in Names, Reader(n)
    PROVE  StartupInv'
<1> USE DEF StartupInv, Reader, LockGate, UnlockGate, GateReleased, shellVars, databaseVars,
            boardVars, eventVars, orderVars
<1>1. Listed' = Listed /\ InAdd' = InAdd
  BY SameList DEF InAdd
<1>2. Constructed' = Constructed
  BY DEF Constructed, TypeOK
<1>3. TypeOK'
  BY <1>1, <1>2 DEF TypeOK
<1>4. started /\ started'
  <2>1. reader[n] = "enters" => started
    BY DEF GateInv
  <2> QED
    BY <2>1 DEF GateInv, gateVars
<1>5. n \in Constructed
  BY DEF Constructed
<1>6. AddingInv'
  BY <1>1, <1>5 DEF AddingInv, InAdd, TypeOK, Additions
<1>7. BoardsInv' /\ EventInv' /\ OrderInv'
  BY <1>1, <1>2 DEF BoardsInv, EventInv, OrderInv, ListedIsComplete, InAdd
<1>8. GateInv'
  BY <1>2, <1>4, <1>5, StartupAssumption DEF GateInv
<1> QED
  BY <1>3, <1>6, <1>7, <1>8

LEMMA SendKeeps ==
    ASSUME StartupInv, NEW n \in Names, SendData(n)
    PROVE  StartupInv'
<1> USE DEF StartupInv, SendData, shellVars, databaseVars, boardVars, gateVars, orderVars
<1>1. Listed' = Listed /\ Constructed' = Constructed /\ InAdd' = InAdd
  BY SameList DEF InAdd, Constructed
<1>2. started /\ n \in Constructed
  BY DEF GateInv, Constructed
<1>3. n \notin ioscan => n \in late
  BY <1>2 DEF BoardsInv, ListedIsComplete, AddingInv, InAdd
<1>4. TypeOK'
  BY <1>1 DEF TypeOK
<1>5. AddingInv' /\ BoardsInv' /\ GateInv' /\ OrderInv'
  BY <1>1 DEF AddingInv, BoardsInv, GateInv, OrderInv, ListedIsComplete, InAdd
<1>6. EventInv'
  BY <1>2, <1>3 DEF EventInv
<1> QED
  BY <1>4, <1>5, <1>6

-----------------------------------------------------------------------------
(* The theorems.                                                           *)

LEMMA StartupInvariant == Spec => []StartupInv
<1>1. StartupInv /\ [Next]_vars => StartupInv'
  <2> SUFFICES ASSUME StartupInv, [Next]_vars
               PROVE  StartupInv'
    OBVIOUS
  <2>1. CASE UNCHANGED vars
    <3>1. Listed' = Listed /\ Constructed' = Constructed /\ InAdd' = InAdd
      BY <2>1, SameList DEF vars, shellVars, boardVars, gateVars, InAdd, Constructed
    <3> QED
      BY <2>1, <3>1
         DEF StartupInv, TypeOK, AddingInv, BoardsInv, GateInv, EventInv, OrderInv,
             ListedIsComplete, vars, shellVars, databaseVars, boardVars, gateVars, eventVars,
             orderVars
  <2>2. CASE Adding
    BY <2>2, ConstructKeeps, ScanListKeeps, ListKeeps DEF Adding
  <2> QED
    BY <2>1, <2>2, LoadKeeps, AddKeeps, CrashKeeps, IocInitKeeps, StartKeeps, ReaderKeeps,
       SendKeeps DEF Next
<1> QED
  BY InitEstablishes, <1>1, PTL DEF Spec

\* Every variable has its type; no board is in the list twice, and none that
\* was not constructed.
THEOREM TypeCorrect == Spec => []TypeOK
<1>1. StartupInv => TypeOK
  BY DEF StartupInv
<1> QED
  BY <1>1, StartupInvariant, PTL

\* Whoever finds a board by name or by port finds it with its scan list, and
\* alone on its port, also if it was added while the IOC runs.
THEOREM ListComplete == Spec => []ListedIsComplete
<1>1. StartupInv => ListedIsComplete
  BY DEF StartupInv, BoardsInv
<1> QED
  BY <1>1, StartupInvariant, PTL

\* No order of commands loses an event but ipimbStart before iocInit, and none
\* uses a scan list too early but ipimbAdd after ipimbStart.
THEOREM LostOnlyForCause == Spec => []LostForCause
<1>1. StartupInv => LostForCause
  BY DEF StartupInv, EventInv, LostForCause
<1> QED
  BY <1>1, StartupInvariant, PTL

\* Database, ipimbTprAdd for every board, iocInit, ipimbStart: nothing crashes,
\* everything is bound and no event is lost, whatever the boards.
THEOREM OrderlyBootWorks == Spec => []OrderlyBoot
<1>1. StartupInv => OrderlyBoot
  <2> SUFFICES ASSUME StartupInv, orderly
               PROVE  OrderlyBoot
    BY DEF OrderlyBoot
  <2>1. missed = {} /\ misused = {}
    BY DEF StartupInv, EventInv, OrderInv
  <2>2. Listed \subseteq Constructed
    BY DEF StartupInv, TypeOK
  <2> QED
    BY <2>1, <2>2 DEF StartupInv, OrderInv, OrderlyBoot
<1> QED
  BY <1>1, StartupInvariant, PTL

=============================================================================
