------------------------------- MODULE Startup -------------------------------
(***************************************************************************)
(* How the IOC comes up.  One thread, the shell, runs the startup script   *)
(* and then what an operator types: load the database, ipimbAdd or         *)
(* ipimbTprAdd for each board, iocInit, ipimbStart, in any order.  Adding  *)
(* a board constructs IPIMB_DEVICE, whose IpimBoard starts the reader      *)
(* thread.  The reader waits at start_mutex for ipimbStart.                *)
(***************************************************************************)
EXTENDS Integers, Sequences

CONSTANTS
    Names, Ttys,    \* of boards and of serial ports
    Commands,       \* those used to add boards
    NoBoard

ASSUME StartupAssumption ==
    /\ Names # {} /\ NoBoard \notin Names
    /\ Names \cap {"none", "shell", "free"} = {}
    /\ Commands \subseteq {"ipimbAdd", "ipimbTprAdd"}

VARIABLES
    shell,          \* "prompt", where it is in ipimbAdd, "suspended" or "crashed"
    adding,         \* the board, port and command of that ipimbAdd
    loaded,         \* the database is loaded
    running,        \* iocInit is done: records are initialised and scanned
    list,           \* IPIMB_device_list, and whether it has a lock
    device,         \* what is known of the boards constructed
    ioscan,         \* boards whose scan list is initialised
    start_mutex,    \* "none", "shell" (locked), "free", or the reader in it
    started,
    reader,         \* of each board: "none", "waits", "enters" or "polls"
    record,         \* CHn_RAW of each board: "none", "bound" or "dead"
    missed, misused,    \* history: boards with an event nobody was told of,
                        \* with a scan requested of an uninitialised list
    orderly, early, late    \* history: see the actions that set them

shellVars == <<shell, adding>>
databaseVars == <<loaded, running, record>>
boardVars == <<list, device, ioscan>>
gateVars == <<start_mutex, started, reader>>
eventVars == <<missed, misused>>
orderVars == <<orderly, early, late>>
vars == <<shellVars, databaseVars, boardVars, gateVars, eventVars, orderVars>>

Nothing == [name |-> NoBoard, tty |-> NoBoard, command |-> NoBoard]

Init ==
    /\ shell = "prompt" /\ adding = Nothing
    /\ loaded = FALSE /\ running = FALSE
    /\ record = [n \in Names |-> "none"]
    /\ list = [boards |-> << >>, lock |-> FALSE]
    /\ device = [n \in Names |-> [tty |-> NoBoard, trigger |-> "none", args |-> Nothing]]
    /\ ioscan = {}
    /\ start_mutex = "none" /\ started = FALSE
    /\ reader = [n \in Names |-> "none"]
    /\ missed = {} /\ misused = {}
    /\ orderly = TRUE /\ early = FALSE /\ late = {}

Prompt == shell = "prompt"
Constructed == {n \in Names : reader[n] # "none"}
Listed == {list.boards[k] : k \in 1 .. Len(list.boards)}

-----------------------------------------------------------------------------
(* The iocsh commands.  What is typed for the parameters of a command is   *)
(* taken by position, and both commands take the same positions.           *)

Declared(command) ==
    IF command = "ipimbAdd"
      THEN <<"name", "ttyName", "mdestIP", "physID", "datatype",
             "trigger", "polarity", "delay", "sync">>
      ELSE <<"name", "ttyName", "mdestIP", "physID", "datatype",
             "gen", "trigger", "polarity", "delay", "sync">>

\* Which typed argument becomes each parameter of ipimbAdd().
Taken(command) ==
    LET typed == Declared(command)
        at(k) == IF k <= Len(typed) THEN typed[k] ELSE "nothing"
    IN  [trigger |-> at(7), polarity |-> at(8), delay |-> at(9), sync |-> at(10)]

LoadDatabase ==
    /\ Prompt /\ ~loaded /\ ~running
    /\ loaded' = TRUE
    /\ UNCHANGED <<shellVars, running, record, boardVars, gateVars, eventVars, orderVars>>

-----------------------------------------------------------------------------
(* ipimbAdd.                                                               *)

\* Mutant: only the name is looked for.
InstalledName(n, t) == n \in Listed

\* Mutant: only the port is looked for.
InstalledTty(n, t) == \E m \in Listed : device[m].tty = t

\* ipimbFindDeviceByName, ipimbFindDeviceByTtyName
Installed(n, t) == n \in Listed \/ \E m \in Listed : device[m].tty = t

\* A board or port that is in use suspends the shell for good.
ipimbAdd(n, t, command) ==
    /\ Prompt
    /\ list' = [list EXCEPT !.lock = TRUE]
    /\ IF Installed(n, t)
         THEN shell' = "suspended" /\ UNCHANGED <<adding, late>>
         ELSE /\ shell' = "construct"
              /\ adding' = [name |-> n, tty |-> t, command |-> command]
              /\ late' = IF started THEN late \cup {n} ELSE late
    /\ orderly' = (orderly /\ loaded /\ ~running /\ ~Installed(n, t)
                   /\ command = "ipimbTprAdd")
    /\ UNCHANGED <<databaseVars, device, ioscan, gateVars, eventVars, early>>

\* The trigger is a record of the database, if that is loaded, or event 140.
\* What is no string, or no argument at all, may crash the IOC.
Trigger == IF loaded /\ Taken(adding.command).trigger = "trigger" THEN "record" ELSE "140"

\* Mutant: the first board does not lock start_mutex.
GateUnlocked == IF start_mutex = "none" THEN "free" ELSE start_mutex

Gate == IF start_mutex = "none" THEN "shell" ELSE start_mutex

\* IpimBoard::IpimBoard: from here on the reader runs.
ConstructBoard ==
    /\ shell = "construct"
    /\ shell' = "constructed"
    /\ device' = [device EXCEPT ![adding.name] =
                    [tty |-> adding.tty, trigger |-> Trigger,
                     args |-> Taken(adding.command)]]
    /\ start_mutex' = Gate
    /\ reader' = [reader EXCEPT ![adding.name] = "waits"]
    /\ UNCHANGED <<adding, databaseVars, list, ioscan, started, eventVars, orderVars>>

Crash ==
    /\ shell' = "crashed"
    /\ UNCHANGED <<adding, databaseVars, boardVars, gateVars, eventVars, orderVars>>

BadArguments ==
    /\ shell = "construct"
    /\ adding.command = "ipimbAdd"
    /\ Crash

\* Mutant: the scan list is not initialised.
ScanListForgotten == ioscan

ScanListInitialised == ioscan \cup {adding.name}

\* The rest of IPIMB_DEVICE::IPIMB_DEVICE.
InitScanList ==
    /\ shell = "constructed"
    /\ shell' = "initialised"
    /\ ioscan' = ScanListInitialised
    /\ UNCHANGED <<adding, databaseVars, list, device, gateVars, eventVars, orderVars>>

AddToList ==
    /\ shell = "initialised"
    /\ shell' = "prompt"
    /\ list' = [list EXCEPT !.boards = Append(@, adding.name)]
    /\ adding' = Nothing
    /\ UNCHANGED <<databaseVars, device, ioscan, gateVars, eventVars, orderVars>>

-----------------------------------------------------------------------------
(* iocInit and ipimbStart.                                                 *)

\* init_ai and ai_ioint_info for CHn_RAW of every board: without a board the
\* record is dead, and asking it for its scan list reads through a null
\* pointer.  Without any board the list has no lock.
IocInit ==
    /\ Prompt /\ ~running
    /\ orderly' = (orderly /\ Listed = Names)
    /\ UNCHANGED <<adding, loaded, boardVars, gateVars, eventVars, early, late>>
    /\ IF loaded /\ Listed # Names
         THEN /\ shell' = "crashed"
              /\ record' = [n \in Names |-> IF n \in Listed THEN "bound" ELSE "dead"]
              /\ UNCHANGED running
         ELSE /\ running' = TRUE
              /\ record' = IF loaded THEN [n \in Names |-> "bound"] ELSE record
              /\ UNCHANGED shell

\* Unlocking start_mutex before there is one is undefined.
ipimbStart ==
    /\ Prompt /\ ~started
    /\ IF start_mutex = "none" THEN shell' = "crashed" ELSE UNCHANGED shell
    /\ start_mutex' = "free"
    /\ started' = TRUE
    /\ early' = ~running
    /\ orderly' = (orderly /\ running)
    /\ UNCHANGED <<adding, databaseVars, boardVars, reader, eventVars, late>>

-----------------------------------------------------------------------------
(* The reader threads.                                                     *)

Alive == shell # "crashed"

\* ipimbSyncObject::ipimbSyncObject: lock start_mutex, and unlock it.
LockGate(n) ==
    /\ Alive /\ reader[n] = "waits" /\ start_mutex = "free"
    /\ start_mutex' = n
    /\ reader' = [reader EXCEPT ![n] = "enters"]
    /\ UNCHANGED <<shellVars, databaseVars, boardVars, started, eventVars, orderVars>>

\* Mutant: a reader that got through keeps start_mutex.
GateKept(n) == n

GateReleased(n) == "free"

UnlockGate(n) ==
    /\ Alive /\ reader[n] = "enters"
    /\ start_mutex' = GateReleased(n)
    /\ reader' = [reader EXCEPT ![n] = "polls"]
    /\ UNCHANGED <<shellVars, databaseVars, boardVars, started, eventVars, orderVars>>

\* sendData: before iocInit is done, a request to scan is ignored, and the
\* event stays in the ring.
SendData(n) ==
    /\ Alive /\ reader[n] = "polls"
    /\ misused' = IF n \in ioscan THEN misused ELSE misused \cup {n}
    /\ missed' = IF running THEN missed ELSE missed \cup {n}
    /\ UNCHANGED <<shellVars, databaseVars, boardVars, gateVars, orderVars>>

-----------------------------------------------------------------------------
Adding == ConstructBoard \/ InitScanList \/ AddToList
Reader(n) == LockGate(n) \/ UnlockGate(n)

Next ==
    \/ LoadDatabase
    \/ \E n \in Names, t \in Ttys, c \in Commands : ipimbAdd(n, t, c)
    \/ BadArguments
    \/ Adding
    \/ IocInit
    \/ ipimbStart
    \/ \E n \in Names : Reader(n) \/ SendData(n)

Spec == Init /\ [][Next]_vars

\* Threads run.  Nobody has to type anything, and frames need not come.
FairSpec ==
    /\ Spec
    /\ WF_vars(Adding)
    /\ \A n \in Names : WF_vars(LockGate(n)) /\ WF_vars(UnlockGate(n))

-----------------------------------------------------------------------------
(* Properties.                                                             *)

Shells == {"prompt", "construct", "constructed", "initialised", "suspended", "crashed"}
Additions == [name : Names, tty : Ttys, command : Commands]
Devices == [tty : Ttys \cup {NoBoard}, trigger : {"none", "record", "140"},
            args : {Nothing} \cup {Taken(c) : c \in Commands}]

\* No board is in the list twice, and none that is not constructed.
TypeOK ==
    /\ shell \in Shells /\ adding \in Additions \cup {Nothing}
    /\ loaded \in BOOLEAN /\ running \in BOOLEAN /\ started \in BOOLEAN
    /\ record \in [Names -> {"none", "bound", "dead"}]
    /\ list \in [boards : Seq(Names), lock : BOOLEAN]
    /\ \A j, k \in 1 .. Len(list.boards) : j # k => list.boards[j] # list.boards[k]
    /\ Listed \subseteq Constructed
    /\ device \in [Names -> Devices]
    /\ ioscan \subseteq Names
    /\ start_mutex \in {"none", "shell", "free"} \cup Names
    /\ reader \in [Names -> {"none", "waits", "enters", "polls"}]
    /\ missed \subseteq Names /\ misused \subseteq Names
    /\ orderly \in BOOLEAN /\ early \in BOOLEAN /\ late \subseteq Names

\* Who finds a board in the list, the message thread or a record, finds it
\* complete and alone on its port, whenever it was added.
ListedIsComplete ==
    \A n \in Listed :
        /\ n \in ioscan
        /\ \A m \in Listed : m # n => device[m].tty # device[n].tty

\* Every parameter of ipimbAdd() gets what was typed for it.
AsTyped == [trigger |-> "trigger", polarity |-> "polarity", delay |-> "delay", sync |-> "sync"]

\* The order the code is made for: load the database, ipimbTprAdd for all the
\* boards of its records, iocInit, ipimbStart.  It brings everything up:
\* records and triggers bound, every argument where it belongs, no event lost.
OrderlyBoot ==
    orderly =>
        /\ shell \notin {"suspended", "crashed"}
        /\ missed = {} /\ misused = {}
        /\ \A n \in Listed : device[n].trigger = "record" /\ device[n].args = AsTyped
        /\ running => \A n \in Names : record[n] = "bound"

\* In any order: events are lost only if the readers were started before
\* iocInit, and a scan list is used too early only for a board added after
\* ipimbStart.
LostForCause == (missed # {} => early) /\ misused \subseteq late

\* Every reader gets past start_mutex once the boards are started, also one
\* that is added later.
ReadersRun ==
    \A n \in Names : reader[n] = "waits" /\ started /\ Alive ~> reader[n] = "polls" \/ ~Alive

=============================================================================
