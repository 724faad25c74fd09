---------------------------- MODULE ConfigHandshake ----------------------------
(***************************************************************************)
(* Configuring IPIMB boards: the threads that meet on a board's mutex.     *)
(*                                                                         *)
(*  - a client (channel access, PINI or a scan thread) writes a setting    *)
(*    record; holding the lock set, the Configure aSub runs SetTrigger and *)
(*    IpimBoard::configure, and its forward link processes WaitConfig;     *)
(*  - one configurer thread per board runs IpimBoard::do_configure;        *)
(*  - the callback thread of EPICS runs ipimbConfigCallback, queued by a   *)
(*    one second timer per WaitConfig record.                              *)
(*                                                                         *)
(* Boards that sit on the same trigger share its enable PV: the first      *)
(* board to configure saves it and turns it off, the last one out restores *)
(* it.  The enable PVs of an EVR are fields of one record, and Configure   *)
(* links to one of them, so the records of all boards whose triggers are   *)
(* on one EVR are in one EPICS lock set.                                   *)
(*                                                                         *)
(* Locks are not variables: who holds one follows from where each thread   *)
(* is.  A configuration is an opaque value of Settings; applying it to the *)
(* board is one step with the outcomes do_configure can have.              *)
(***************************************************************************)
EXTENDS Integers, FiniteSets

CONSTANTS
    Boards,         \* the boards of this IOC
    Triggers,       \* the trigger enable PVs
    TrigOf,         \* TrigOf[b]: the PV that link INPR of b's Configure names
    Evrs,           \* the records that hold the trigger enable PVs
    EvrOf,          \* EvrOf[t]: the record that t is a field of
    Settings,       \* values of the setting records
    NoSetting,      \* no setting, or a mixture of several
    NoTrigger,      \* trigger_index = -1
    NoBoard,        \* the callback thread is idle
    Scenarios       \* how clients behave, and the bound on their requests

ASSUME BoardsAssumption ==
    /\ TrigOf \in [Boards -> Triggers]
    /\ EvrOf \in [Triggers -> Evrs]
    /\ NoBoard \notin Boards
    /\ NoTrigger \notin Triggers
    /\ NoSetting \notin Settings
    /\ Scenarios \subseteq [polite : BOOLEAN, requests : [Boards -> Nat]]

VARIABLES
    put,                \* put[b]: where the client that configures b is
    trigger_index,      \* trigger_index[b]: the entry of triggers[] b uses
    known,              \* the names in triggers[0 .. trigger_count-1]
    use_cnt, saved,     \* triggers[].use_cnt, triggers[].saved_trigger
    trigger_user,       \* trigger_user[b]: b counts in use_cnt
    trig,               \* the enable PV of each trigger
    ipmConfig,          \* IPIMB_DEVICE::ipmConfig, shipped with beam line data
    newconfig, config_gen, conf_in_progress,
    cfg,                \* cfg[b]: where the configurer thread of b is
    current_gen, config,\* its locals
    config_ok,
    written,            \* the setting whose register writes all went out
    pact,               \* pact[b]: WaitConfig is active
    timer,              \* timer[b]: the delayed callback request is armed
    queued,             \* queued[b]: occurrences of b's callback in the queue
    callback, serving,  \* the callback thread, and the board it serves
    wanted,             \* history: what the operator last wrote to each PV
    missed,             \* history: triggers of the boards that were configured
                        \* before WaitConfig looked, so that it did not wait
    scenario            \* how the clients of this behaviour behave

clientVars  == <<put, ipmConfig>>
triggerVars == <<trigger_index, known, use_cnt, saved, trigger_user, trig>>
requestVars == <<newconfig, config_gen>>
workerVars  == <<cfg, current_gen, config, config_ok, written>>
recordVars  == <<pact, timer>>
threadVars  == <<queued, callback, serving>>
history     == <<wanted, missed, scenario>>
vars == <<clientVars, triggerVars, history, requestVars, conf_in_progress,
          workerVars, recordVars, threadVars>>

\* Polite clients wait for WaitConfig before they configure again, and polite
\* operators leave a trigger alone while a board on it configures.
Polite == scenario.polite

-----------------------------------------------------------------------------
(* Locks *)

\* IpimBoard::mutex is held across a blocking call by configure() while it
\* waits for trigger_mutex, and by the callback while it restores the trigger.
MutexHeld(b) ==
    \/ put[b] = "borrow"
    \/ serving = b /\ callback \in {"restore", "putback"}

\* trigger_mutex is held across a blocking call by RestoreTrigger only.
TrigMutexHeld == callback = "putback"

\* The lock set of the EVR of trigger t, and of every record linked to it.
ScanLocked(t) == \E b \in Boards : EvrOf[TrigOf[b]] = EvrOf[t] /\ put[b] # "idle"

\* The boards that have counted themselves in at trigger t, and not out.  Such
\* a board need not be configuring any more.
Users(t) == {b \in Boards : trigger_index[b] = t /\ trigger_user[b] = 1}

\* Those use_cnt counts: the board that writes the PV back is counted out.
CountedIn(t) == {b \in Users(t) : ~(serving = b /\ callback = "putback")}

\* No board on trigger t configures, and no WaitConfig waits for one.
AtRest(t) ==
    \A b \in Boards :
       TrigOf[b] = t => put[b] = "idle" /\ ~pact[b] /\ ~conf_in_progress[b]

-----------------------------------------------------------------------------
Init ==
    /\ put = [b \in Boards |-> "idle"]
    /\ trigger_index = [b \in Boards |-> NoTrigger]
    /\ known = {}
    /\ use_cnt = [t \in Triggers |-> 0]
    /\ saved = [t \in Triggers |-> 0]
    /\ trigger_user = [b \in Boards |-> 0]
    /\ trig \in [Triggers -> {0, 1}]
    /\ ipmConfig = [b \in Boards |-> NoSetting]
    /\ newconfig = [b \in Boards |-> NoSetting]
    /\ config_gen = [b \in Boards |-> 0]
    /\ conf_in_progress = [b \in Boards |-> FALSE]
    /\ cfg = [b \in Boards |-> "check"]
    /\ current_gen = [b \in Boards |-> 0]
    /\ config = [b \in Boards |-> NoSetting]
    /\ config_ok = [b \in Boards |-> FALSE]
    /\ written = [b \in Boards |-> NoSetting]
    /\ pact = [b \in Boards |-> FALSE]
    /\ timer = [b \in Boards |-> FALSE]
    /\ queued = [b \in Boards |-> 0]
    /\ callback = "idle"
    /\ serving = NoBoard
    /\ wanted = trig
    /\ missed = {}
    /\ scenario \in Scenarios

-----------------------------------------------------------------------------
(* Clients.  From "settrigger" to "forward" the lock set is held.          *)

MovePut(b, from, to) == put[b] = from /\ put' = [put EXCEPT ![b] = to]

\* An operator sets the enable PV of a trigger by hand.
OperatorSet(t, v) ==
    /\ ~ScanLocked(t)
    /\ Polite => AtRest(t)
    /\ v # trig[t]
    /\ trig'   = [trig EXCEPT ![t] = v]
    /\ wanted' = [wanted EXCEPT ![t] = v]
    /\ UNCHANGED <<missed, scenario, clientVars, trigger_index, known, use_cnt, saved, trigger_user,
                   requestVars, conf_in_progress, workerVars, recordVars, threadVars>>

\* A write to a setting record takes the lock set and reaches Configure.
PutStart(b) ==
    /\ MovePut(b, "idle", "settrigger")
    /\ ~ScanLocked(TrigOf[b])
    /\ config_gen[b] < scenario.requests[b]
    /\ Polite => ~pact[b]
    /\ UNCHANGED <<ipmConfig, triggerVars, history, requestVars, conf_in_progress,
                   workerVars, recordVars, threadVars>>

NewEntry(t) ==
    /\ use_cnt' = [use_cnt EXCEPT ![t] = 0]
    /\ saved'   = [saved EXCEPT ![t] = -1]

\* Mutant: the table is not searched, every board starts its entry afresh.
SetTriggerUnsearched(b) ==
    \/ /\ trigger_index[b] # NoTrigger
       /\ UNCHANGED <<trigger_index, known, use_cnt, saved>>
    \/ /\ trigger_index[b] = NoTrigger
       /\ ~TrigMutexHeld
       /\ trigger_index' = [trigger_index EXCEPT ![b] = TrigOf[b]]
       /\ known' = known \cup {TrigOf[b]}
       /\ NewEntry(TrigOf[b])

\* SetTrigger finds or creates the entry of triggers[], once per board.
SetTrigger(b) ==
    \/ /\ trigger_index[b] # NoTrigger
       /\ UNCHANGED <<trigger_index, known, use_cnt, saved>>
    \/ /\ trigger_index[b] = NoTrigger
       /\ ~TrigMutexHeld
       /\ trigger_index' = [trigger_index EXCEPT ![b] = TrigOf[b]]
       /\ known' = known \cup {TrigOf[b]}
       /\ IF TrigOf[b] \in known
            THEN UNCHANGED <<use_cnt, saved>>
            ELSE NewEntry(TrigOf[b])

ConfigureByName(b) ==
    /\ MovePut(b, "settrigger", "configure")
    /\ SetTrigger(b)
    /\ \E s \in Settings : ipmConfig' = [ipmConfig EXCEPT ![b] = s]
    /\ UNCHANGED <<trigger_user, trig, history, requestVars, conf_in_progress,
                   workerVars, recordVars, threadVars>>

\* Mutant: a request that meets an unfinished one is not counted.
NextGenUnlessBusy(b) ==
    config_gen' = [config_gen EXCEPT ![b] = IF conf_in_progress[b] THEN @ ELSE @ + 1]

NextGen(b) == config_gen' = [config_gen EXCEPT ![b] = @ + 1]

\* configure(), up to the lock of trigger_mutex.
Configure(b) ==
    /\ MovePut(b, "configure", "borrow")
    /\ ~MutexHeld(b)
    /\ newconfig' = [newconfig EXCEPT ![b] = ipmConfig[b]]
    /\ NextGen(b)
    /\ conf_in_progress' = [conf_in_progress EXCEPT ![b] = TRUE]
    /\ UNCHANGED <<ipmConfig, triggerVars, history, workerVars, recordVars, threadVars>>

\* Mutant: every board saves the PV, not just the first one.
EveryoneIn(t) ==
    /\ saved' = [saved EXCEPT ![t] = trig[t]]
    /\ trig'  = [trig EXCEPT ![t] = 0]

\* The first board in saves the PV of trigger t and turns it off.
FirstIn(t) ==
    IF use_cnt[t] = 0
      THEN /\ saved' = [saved EXCEPT ![t] = trig[t]]
           /\ trig'  = [trig EXCEPT ![t] = 0]
      ELSE UNCHANGED <<saved, trig>>

\* Mutant: a board that holds the trigger already counts itself again.
CountInAgain(b) ==
    /\ use_cnt' = [use_cnt EXCEPT ![trigger_index[b]] = @ + 1]
    /\ FirstIn(trigger_index[b])
    /\ trigger_user' = [trigger_user EXCEPT ![b] = @ + 1]

CountIn(b) ==
    IF trigger_user[b] = 0
      THEN /\ use_cnt' = [use_cnt EXCEPT ![trigger_index[b]] = @ + 1]
           /\ FirstIn(trigger_index[b])
           /\ trigger_user' = [trigger_user EXCEPT ![b] = 1]
      ELSE UNCHANGED <<use_cnt, saved, trig, trigger_user>>

\* Mutant: the configurer is not woken.
SignalNobody(b) == UNCHANGED cfg

SignalRequest(b) == cfg' = [cfg EXCEPT ![b] = IF @ = "wait" THEN "check" ELSE @]

\* configure(), from the lock of trigger_mutex: count this board in, wake the
\* configurer, release the mutex.
BorrowTrigger(b) ==
    /\ MovePut(b, "borrow", "forward")
    /\ ~TrigMutexHeld
    /\ CountIn(b)
    /\ SignalRequest(b)
    /\ UNCHANGED <<ipmConfig, trigger_index, known, history, requestVars, conf_in_progress,
                   current_gen, config, config_ok, written, recordVars, threadVars>>

\* Mutant: the record completes without asking whether the board is busy.
ProcessUnasked(b, wasActive) ==
    /\ ~MutexHeld(b)
    /\ pact' = [pact EXCEPT ![b] = FALSE]
    /\ UNCHANGED timer

\* bi process() around read_bi: a record that was not active before stays
\* active until its callback; one the callback processes completes either way.
\* No result reaches the record: read_bi takes it for an ai record, stores
\* config_ok where an ai record has RVAL, and returns 2, for no conversion.
ProcessWaitConfig(b, wasActive) ==
    /\ ~MutexHeld(b)
    /\ IF conf_in_progress[b]
         THEN /\ timer' = [timer EXCEPT ![b] = TRUE]
              /\ pact'  = [pact EXCEPT ![b] = ~wasActive]
         ELSE /\ pact'  = [pact EXCEPT ![b] = FALSE]
              /\ UNCHANGED timer

\* The forward link of Configure.  dbProcess leaves an active record alone.  A
\* record that finds its board configured already completes at once, without
\* the callback that would restore the trigger.
Forward(b) ==
    /\ MovePut(b, "forward", "idle")
    /\ IF pact[b] THEN UNCHANGED recordVars ELSE ProcessWaitConfig(b, FALSE)
    /\ missed' = IF pact[b] \/ conf_in_progress[b] THEN missed ELSE missed \cup {TrigOf[b]}
    /\ UNCHANGED <<wanted, scenario, ipmConfig, triggerVars, requestVars, conf_in_progress,
                   workerVars, threadVars>>

-----------------------------------------------------------------------------
(* The configurer thread.                                                  *)

\* Mutant: the busy flag is cleared when the request is taken.
TakeAndClear(b) ==
    /\ current_gen' = [current_gen EXCEPT ![b] = config_gen[b]]
    /\ config' = [config EXCEPT ![b] = newconfig[b]]
    /\ cfg' = [cfg EXCEPT ![b] = "start"]
    /\ conf_in_progress' = [conf_in_progress EXCEPT ![b] = FALSE]

TakeRequest(b) ==
    /\ current_gen' = [current_gen EXCEPT ![b] = config_gen[b]]
    /\ config' = [config EXCEPT ![b] = newconfig[b]]
    /\ cfg' = [cfg EXCEPT ![b] = "start"]
    /\ UNCHANGED conf_in_progress

\* The locked part of the loop of do_configure.
CheckRequest(b) ==
    /\ cfg[b] = "check"
    /\ ~MutexHeld(b)
    /\ IF current_gen[b] = config_gen[b]
         THEN /\ conf_in_progress' = [conf_in_progress EXCEPT ![b] = FALSE]
              /\ cfg' = [cfg EXCEPT ![b] = "wait"]
              /\ UNCHANGED <<current_gen, config>>
         ELSE TakeRequest(b)
    /\ UNCHANGED <<clientVars, triggerVars, history, requestVars, config_ok, written,
                   recordVars, threadVars>>

\* config_ok = true, after the mutex is released.
StartConfigure(b) ==
    /\ cfg[b] = "start"
    /\ cfg' = [cfg EXCEPT ![b] = "apply"]
    /\ config_ok' = [config_ok EXCEPT ![b] = TRUE]
    /\ UNCHANGED <<clientVars, triggerVars, history, requestVars, conf_in_progress,
                   current_gen, config, written, recordVars, threadVars>>

\* The register traffic: every setter wrote its register; the board does not
\* answer and nothing is written; or a setter refuses its value, and the board
\* holds a mixture.  The register reads take the mutex.
ApplyConfig(b) ==
    /\ cfg[b] = "apply"
    /\ ~MutexHeld(b)
    /\ cfg' = [cfg EXCEPT ![b] = "check"]
    /\ \/ /\ written' = [written EXCEPT ![b] = config[b]]
          /\ UNCHANGED config_ok
       \/ /\ config_ok' = [config_ok EXCEPT ![b] = FALSE]
          /\ UNCHANGED written
       \/ /\ config_ok' = [config_ok EXCEPT ![b] = FALSE]
          /\ written' = [written EXCEPT ![b] = NoSetting]
    /\ UNCHANGED <<clientVars, triggerVars, history, requestVars, conf_in_progress,
                   current_gen, config, recordVars, threadVars>>

\* pthread_cond_wait may return without a signal.
SpuriousWakeup(b) ==
    /\ cfg[b] = "wait"
    /\ cfg' = [cfg EXCEPT ![b] = "check"]
    /\ UNCHANGED <<clientVars, triggerVars, history, requestVars, conf_in_progress,
                   current_gen, config, config_ok, written, recordVars, threadVars>>

-----------------------------------------------------------------------------
(* The timer and the callback thread.                                      *)

TimerExpires(b) ==
    /\ timer[b]
    /\ timer'  = [timer EXCEPT ![b] = FALSE]
    /\ queued' = [queued EXCEPT ![b] = @ + 1]
    /\ UNCHANGED <<clientVars, triggerVars, history, requestVars, conf_in_progress,
                   workerVars, pact, callback, serving>>

CallbackStart(b) ==
    /\ callback = "idle"
    /\ queued[b] > 0
    /\ queued'   = [queued EXCEPT ![b] = @ - 1]
    /\ callback' = "lock"
    /\ serving'  = b
    /\ UNCHANGED <<clientVars, triggerVars, history, requestVars, conf_in_progress,
                   workerVars, recordVars>>

\* Mutant: a callback that finds the board busy does not look again.
LookNoMore(b) ==
    /\ callback' = "idle"
    /\ serving'  = NoBoard
    /\ UNCHANGED timer

LookAgain(b) ==
    /\ timer' = [timer EXCEPT ![b] = TRUE]
    /\ callback' = "idle"
    /\ serving'  = NoBoard

\* Still configuring: wait again.  Done: go on, holding the mutex.
CallbackCheck(b) ==
    /\ callback = "lock" /\ serving = b
    /\ ~MutexHeld(b)
    /\ IF conf_in_progress[b]
         THEN LookAgain(b)
         ELSE /\ callback' = "restore"
              /\ UNCHANGED <<timer, serving>>
    /\ UNCHANGED <<clientVars, triggerVars, history, requestVars, conf_in_progress,
                   workerVars, pact, queued>>

\* RestoreTrigger counts the board out; the last one out has the PV to write.
RestoreTrigger(b) ==
    /\ callback = "restore" /\ serving = b
    /\ use_cnt' = [use_cnt EXCEPT ![trigger_index[b]] = @ - 1]
    /\ IF use_cnt[trigger_index[b]] = 1
         THEN callback' = "putback" /\ UNCHANGED trigger_user
         ELSE /\ callback' = "process"
              /\ trigger_user' = [trigger_user EXCEPT ![b] = 0]
    /\ UNCHANGED <<clientVars, trigger_index, known, saved, trig, history, requestVars,
                   conf_in_progress, workerVars, recordVars, queued, serving>>

\* dbPutField takes the lock set of the trigger, both mutexes being held.
PutBack(b) ==
    /\ callback = "putback" /\ serving = b
    /\ ~ScanLocked(trigger_index[b])
    /\ trig' = [trig EXCEPT ![trigger_index[b]] = saved[trigger_index[b]]]
    /\ trigger_user' = [trigger_user EXCEPT ![b] = 0]
    /\ callback' = "process"
    /\ UNCHANGED <<clientVars, trigger_index, known, use_cnt, saved, history, requestVars,
                   conf_in_progress, workerVars, recordVars, queued, serving>>

\* The mutex is free again: finish the processing of WaitConfig.
CallbackProcess(b) ==
    /\ callback = "process" /\ serving = b
    /\ ~ScanLocked(TrigOf[b])
    /\ ProcessWaitConfig(b, pact[b])
    /\ callback' = "idle"
    /\ serving'  = NoBoard
    /\ UNCHANGED <<clientVars, triggerVars, history, requestVars, conf_in_progress,
                   workerVars, queued>>

-----------------------------------------------------------------------------
Client(b)     == ConfigureByName(b) \/ Configure(b) \/ BorrowTrigger(b) \/ Forward(b)
Configurer(b) == CheckRequest(b) \/ StartConfigure(b) \/ ApplyConfig(b)
Callback(b)   == CallbackStart(b) \/ CallbackCheck(b) \/ RestoreTrigger(b)
                   \/ PutBack(b) \/ CallbackProcess(b)

Next ==
    \/ \E t \in Triggers, v \in {0, 1} : OperatorSet(t, v)
    \/ \E b \in Boards :
          PutStart(b) \/ Client(b) \/ Configurer(b) \/ SpuriousWakeup(b)
            \/ TimerExpires(b) \/ Callback(b)

Spec == Init /\ [][Next]_vars

\* Threads that can run do run, and timers expire.  Nobody has to start a put.
Fairness ==
    \A b \in Boards : /\ WF_vars(Client(b))
                      /\ WF_vars(Configurer(b))
                      /\ WF_vars(TimerExpires(b))
                      /\ WF_vars(Callback(b))

FairSpec == Spec /\ Fairness

-----------------------------------------------------------------------------
(* Properties.                                                             *)

\* Every variable has its type; the counters are ints of the C++ code.
TypeOK ==
    /\ put \in [Boards -> {"idle", "settrigger", "configure", "borrow", "forward"}]
    /\ trigger_index \in [Boards -> Triggers \cup {NoTrigger}]
    /\ known \subseteq Triggers
    /\ use_cnt \in [Triggers -> Int]
    /\ saved \in [Triggers -> {-1, 0, 1}]
    /\ trigger_user \in [Boards -> {0, 1}]
    /\ trig \in [Triggers -> {-1, 0, 1}]
    /\ ipmConfig \in [Boards -> Settings \cup {NoSetting}]
    /\ newconfig \in [Boards -> Settings \cup {NoSetting}]
    /\ config_gen \in [Boards -> Nat]
    /\ conf_in_progress \in [Boards -> BOOLEAN]
    /\ cfg \in [Boards -> {"check", "wait", "start", "apply"}]
    /\ current_gen \in [Boards -> Nat]
    /\ config \in [Boards -> Settings \cup {NoSetting}]
    /\ config_ok \in [Boards -> BOOLEAN]
    /\ written \in [Boards -> Settings \cup {NoSetting}]
    /\ pact \in [Boards -> BOOLEAN]
    /\ timer \in [Boards -> BOOLEAN]
    /\ queued \in [Boards -> Nat]
    /\ callback \in {"idle", "lock", "restore", "putback", "process"}
    /\ serving \in Boards \cup {NoBoard}
    /\ wanted \in [Triggers -> {0, 1}]
    /\ missed \subseteq Triggers
    /\ scenario \in Scenarios

\* When a board is reported configured and ok, the registers that went out
\* are those of the newest request: a request that arrives while an older one
\* is being applied is neither lost nor reported with the older one's result.
LatestApplied ==
    \A b \in Boards : ~conf_in_progress[b] /\ config_ok[b] => written[b] = newconfig[b]

\* The configurer never sleeps on the condition variable with a request
\* pending, except for one whose client is about to signal.
NoLostWakeup ==
    \A b \in Boards : cfg[b] = "wait" => \/ current_gen[b] = config_gen[b]
                                         \/ put[b] = "borrow"

\* While a configuration is outstanding and its client gone, something is left
\* that will look at it again: the timer, a queued callback or a running one.
Watched ==
    \A b \in Boards :
       put[b] = "idle" /\ conf_in_progress[b]
          => timer[b] \/ queued[b] > 0 \/ serving = b

\* With polite clients the shared enable PV is counted exactly: use_cnt is the
\* number of boards that have counted themselves in and not out.
CountExact == \A t \in Triggers : use_cnt[t] = Cardinality(CountedIn(t))

UseCountExact == Polite => CountExact

\* A board on trigger t is being configured, and has counted itself in.
Configuring(t) ==
    \E b \in Boards : TrigOf[b] = t /\ conf_in_progress[b] /\ put[b] # "borrow"

\* With polite clients a trigger is off while any board on it is configured,
\* and has the operator's value again when none is and every WaitConfig has
\* finished; but for the triggers of boards that were configured before
\* WaitConfig looked, which is what TriggerRestored is about.
TriggerLent ==
    Polite => \A t \in Triggers \ missed :
                 /\ AtRest(t) => trig[t] = wanted[t]
                 /\ Configuring(t) => trig[t] = 0

\* What a finished WaitConfig means to a polite client: nothing is left to do,
\* and unless config_ok is cleared the board was sent the setting that beam
\* line data carry, which ipimbConfigureByName set long before the board had it.
FinishedIsApplied ==
    Polite => \A b \in Boards :
                 put[b] = "idle" /\ ~pact[b]
                    => /\ ~conf_in_progress[b]
                       /\ config_ok[b] => written[b] = ipmConfig[b]

\* The board's mutex, condition variable and generations implement a mailbox
\* of depth one whose busy flag covers everything that was posted.
Mailbox == INSTANCE ConfigMailbox
    WITH posted  <- config_gen,
         taken   <- current_gen,
         working <- {b \in Boards : cfg[b] \in {"start", "apply"}},
         busy    <- conf_in_progress

ImplementsMailbox == Mailbox!MailboxSpec

\* The callback thread waits for a lock set, holding trigger_mutex, and a client
\* that holds the lock set waits for trigger_mutex.
Deadlock ==
    /\ callback = "putback"
    /\ \E b \in Boards :
          /\ EvrOf[TrigOf[b]] = EvrOf[trigger_index[serving]]
          /\ put[b] = "borrow" \/ (put[b] = "settrigger" /\ trigger_index[b] = NoTrigger)

\* An active WaitConfig record finishes, with its board configured and counted
\* out of its trigger, if the clients are polite; that deadlock is the only
\* thing that can keep it from it.
WaitConfigCompletes ==
    \A b \in Boards :
       Polite /\ pact[b]
          ~> (~pact[b] /\ ~conf_in_progress[b] /\ trigger_user[b] = 0) \/ Deadlock

-----------------------------------------------------------------------------
(* What a comment of the code says and the code does not do.               *)

\* ipimbALL.tpl-db says of WaitConfig that it "also restores the saved trigger":
\* when it has finished for every board on a trigger, the enable PV is as the
\* operator left it.
TriggerRestored ==
    Polite => \A t \in Triggers : AtRest(t) => trig[t] = wanted[t]

\* And that it finishes once the configurations are complete.
WaitConfigFinishes == \A b \in Boards : pact[b] ~> ~pact[b]

=============================================================================
