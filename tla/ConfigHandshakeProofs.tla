------------------------- MODULE ConfigHandshakeProofs -------------------------
(***************************************************************************)
(* Theorems of ConfigHandshake for any boards, triggers, settings and      *)
(* number of requests.  Whatever the clients do: type correctness, the     *)
(* generation handshake (no request lost, none reported with another's     *)
(* result, no lost wake-up), that every configuration is looked at again,  *)
(* and the implementation of the mailbox.  When clients are polite: the    *)
(* trigger count is exact; unless a configuration was over before its      *)
(* WaitConfig looked, the trigger is off while a board configures and has  *)
(* the operator's value when all have finished; and what a finished        *)
(* WaitConfig says of the board.                                           *)
(***************************************************************************)
EXTENDS ConfigHandshake, FiniteSetTheorems, TLAPS

-----------------------------------------------------------------------------
(* Type correctness.                                                       *)

\* Updating a function at one point keeps its type if the value has it.
LEMMA ExceptType ==
    ASSUME NEW S, NEW T, NEW f \in [S -> T], NEW x, NEW v, x \in S => v \in T
    PROVE  [f EXCEPT ![x] = v] \in [S -> T]
OBVIOUS

\* WaitConfig keeps the types of its record, however it is processed.
LEMMA WaitConfigType ==
    ASSUME TypeOK, NEW b \in Boards, NEW w \in BOOLEAN, ProcessWaitConfig(b, w)
    PROVE  /\ pact' \in [Boards -> BOOLEAN]
           /\ timer' \in [Boards -> BOOLEAN]
<1>1. pact \in [Boards -> BOOLEAN] /\ timer \in [Boards -> BOOLEAN]
  BY DEF TypeOK
<1>2. CASE conf_in_progress[b]
  <2>1. /\ timer' = [timer EXCEPT ![b] = TRUE]
        /\ pact'  = [pact EXCEPT ![b] = ~w]
    BY <1>2 DEF ProcessWaitConfig
  <2>2. TRUE \in BOOLEAN /\ (~w) \in BOOLEAN
    OBVIOUS
  <2> QED
    BY <1>1, <2>1, <2>2
<1>3. CASE ~ conf_in_progress[b]
  <2>1. /\ timer' = timer
        /\ pact'  = [pact EXCEPT ![b] = FALSE]
    BY <1>3 DEF ProcessWaitConfig
  <2> QED
    BY <1>1, <2>1
<1> QED
  BY <1>2, <1>3

LEMMA InitType == Init => TypeOK
BY BoardsAssumption DEF Init, TypeOK

\* A step of a client keeps the types.
LEMMA ClientType ==
    ASSUME TypeOK, NEW b \in Boards, PutStart(b) \/ Client(b)
    PROVE  TypeOK'
<1>1. CASE PutStart(b)
  BY <1>1, BoardsAssumption
     DEF PutStart, MovePut, TypeOK, triggerVars, requestVars, workerVars, recordVars, threadVars,
         history
<1>2. CASE ConfigureByName(b)
  <2>1. SetTrigger(b)
    BY <1>2 DEF ConfigureByName
  <2>2. /\ trigger_index' \in [Boards -> Triggers \cup {NoTrigger}]
        /\ known' \subseteq Triggers
    BY <2>1, BoardsAssumption DEF SetTrigger, TypeOK
  <2>3. use_cnt' \in [Triggers -> Int] /\ saved' \in [Triggers -> {-1, 0, 1}]
    BY <2>1, BoardsAssumption DEF SetTrigger, NewEntry, TypeOK
  <2>4. ipmConfig' \in [Boards -> Settings \cup {NoSetting}]
    BY <1>2 DEF ConfigureByName, TypeOK
  <2> QED
    BY <1>2, <2>2, <2>3, <2>4
       DEF ConfigureByName, MovePut, TypeOK, requestVars, workerVars, recordVars, threadVars,
           history
<1>3. CASE Configure(b)
  BY <1>3, BoardsAssumption
     DEF Configure, NextGen, MovePut, TypeOK, triggerVars, workerVars, recordVars, threadVars,
         history
<1>4. CASE BorrowTrigger(b)
  <2>1. CountIn(b) /\ SignalRequest(b)
    BY <1>4 DEF BorrowTrigger
  <2>2. /\ use_cnt' \in [Triggers -> Int]
        /\ saved' \in [Triggers -> {-1, 0, 1}]
        /\ trig' \in [Triggers -> {-1, 0, 1}]
        /\ trigger_user' \in [Boards -> {0, 1}]
    <3>1. CASE trigger_user[b] = 0
      <4> DEFINE t == trigger_index[b]
      <4>1. use_cnt' = [use_cnt EXCEPT ![t] = @ + 1] /\ FirstIn(t)
        BY <2>1, <3>1 DEF CountIn
      <4>2. use_cnt' \in [Triggers -> Int]
        <5>1. use_cnt \in [Triggers -> Int]
          BY DEF TypeOK
        <5>2. t \in Triggers => use_cnt[t] + 1 \in Int
          BY <5>1
        <5> QED
          BY <4>1, <5>1, <5>2, ExceptType
      <4>3. saved' \in [Triggers -> {-1, 0, 1}] /\ trig' \in [Triggers -> {-1, 0, 1}]
        <5>1. saved \in [Triggers -> {-1, 0, 1}] /\ trig \in [Triggers -> {-1, 0, 1}]
          BY DEF TypeOK
        <5>2. 0 \in {-1, 0, 1} /\ (t \in Triggers => trig[t] \in {-1, 0, 1})
          BY <5>1
        <5>3. CASE use_cnt[t] = 0
          BY <4>1, <5>1, <5>2, <5>3, ExceptType DEF FirstIn
        <5>4. CASE use_cnt[t] # 0
          BY <4>1, <5>1, <5>4 DEF FirstIn
        <5> QED
          BY <5>3, <5>4
      <4> QED
        BY <2>1, <3>1, <4>2, <4>3 DEF CountIn, TypeOK
    <3>2. CASE trigger_user[b] # 0
      BY <2>1, <3>2 DEF CountIn, TypeOK
    <3> QED
      BY <3>1, <3>2
  <2>3. cfg' \in [Boards -> {"check", "wait", "start", "apply"}]
    BY <2>1 DEF SignalRequest, TypeOK
  <2> QED
    BY <1>4, <2>2, <2>3
       DEF BorrowTrigger, MovePut, TypeOK, requestVars, recordVars, threadVars, history
<1>5. CASE Forward(b)
  <2>1. /\ pact' \in [Boards -> BOOLEAN]
        /\ timer' \in [Boards -> BOOLEAN]
    <3>1. CASE pact[b]
      BY <1>5, <3>1 DEF Forward, TypeOK, recordVars
    <3>2. CASE ~ pact[b]
      BY <1>5, <3>2, WaitConfigType DEF Forward
    <3> QED
      BY <3>1, <3>2
  <2>2. missed' \subseteq Triggers
    BY <1>5, BoardsAssumption DEF Forward, TypeOK
  <2> QED
    BY <1>5, <2>1, <2>2
       DEF Forward, MovePut, TypeOK, triggerVars, requestVars, workerVars, threadVars
<1> QED
  BY <1>1, <1>2, <1>3, <1>4, <1>5 DEF Client

\* So does a step of a configurer thread.
LEMMA ConfigurerType ==
    ASSUME TypeOK, NEW b \in Boards, Configurer(b) \/ SpuriousWakeup(b)
    PROVE  TypeOK'
<1> USE DEF TypeOK, clientVars, triggerVars, requestVars, recordVars, threadVars, history
<1>1. CASE CheckRequest(b)
  <2>1. /\ conf_in_progress' \in [Boards -> BOOLEAN]
        /\ cfg' \in [Boards -> {"check", "wait", "start", "apply"}]
        /\ current_gen' \in [Boards -> Nat]
        /\ config' \in [Boards -> Settings \cup {NoSetting}]
    <3>1. CASE current_gen[b] = config_gen[b]
      BY <1>1, <3>1 DEF CheckRequest
    <3>2. CASE current_gen[b] # config_gen[b]
      BY <1>1, <3>2 DEF CheckRequest, TakeRequest
    <3> QED
      BY <3>1, <3>2
  <2> QED
    BY <1>1, <2>1 DEF CheckRequest
<1>2. CASE StartConfigure(b)
  BY <1>2 DEF StartConfigure
<1>3. CASE ApplyConfig(b)
  BY <1>3 DEF ApplyConfig
<1>4. CASE SpuriousWakeup(b)
  BY <1>4 DEF SpuriousWakeup
<1> QED
  BY <1>1, <1>2, <1>3, <1>4 DEF Configurer

\* And a step of the timer or of the callback thread.
LEMMA CallbackType ==
    ASSUME TypeOK, NEW b \in Boards, TimerExpires(b) \/ Callback(b)
    PROVE  TypeOK'
<1> USE BoardsAssumption
    DEF TypeOK, clientVars, triggerVars, requestVars, workerVars, recordVars, history
<1>1. CASE TimerExpires(b)
  BY <1>1 DEF TimerExpires
<1>2. CASE CallbackStart(b)
  BY <1>2 DEF CallbackStart
<1>3. CASE CallbackCheck(b)
  BY <1>3 DEF CallbackCheck, LookAgain
<1>4. CASE RestoreTrigger(b)
  <2>1. use_cnt' \in [Triggers -> Int]
    BY <1>4, ExceptType DEF RestoreTrigger
  <2>2. trigger_user' \in [Boards -> {0, 1}]
    BY <1>4 DEF RestoreTrigger
  <2> QED
    BY <1>4, <2>1, <2>2 DEF RestoreTrigger
<1>5. CASE PutBack(b)
  <2>1. trig' \in [Triggers -> {-1, 0, 1}]
    BY <1>5 DEF PutBack
  <2> QED
    BY <1>5, <2>1 DEF PutBack
<1>6. CASE CallbackProcess(b)
  <2>1. ProcessWaitConfig(b, pact[b])
    BY <1>6 DEF CallbackProcess
  <2>2. pact[b] \in BOOLEAN
    OBVIOUS
  <2>3. /\ pact' \in [Boards -> BOOLEAN]
        /\ timer' \in [Boards -> BOOLEAN]
    BY <2>1, <2>2, WaitConfigType
  <2> QED
    BY <1>6, <2>3 DEF CallbackProcess
<1> QED
  BY <1>1, <1>2, <1>3, <1>4, <1>5, <1>6 DEF Callback

LEMMA NextType == TypeOK /\ [Next]_vars => TypeOK'
<1> SUFFICES ASSUME TypeOK, [Next]_vars
             PROVE  TypeOK'
  OBVIOUS
<1>1. CASE \E t \in Triggers, v \in {0, 1} : OperatorSet(t, v)
  BY <1>1 DEF OperatorSet, TypeOK, clientVars, requestVars, workerVars, recordVars, threadVars
<1>2. ASSUME NEW b \in Boards,
             PutStart(b) \/ Client(b) \/ Configurer(b) \/ SpuriousWakeup(b)
               \/ TimerExpires(b) \/ Callback(b)
      PROVE  TypeOK'
  BY <1>2, ClientType, ConfigurerType, CallbackType
<1>3. CASE UNCHANGED vars
  BY <1>3 DEF vars, TypeOK, clientVars, triggerVars, requestVars, workerVars, recordVars,
              threadVars, history
<1> QED
  BY <1>1, <1>2, <1>3 DEF Next

\* Every variable of the configuration path has its type, whatever the
\* clients, timers and callbacks do (IpimBoard.cc, devIpimb.cpp).
THEOREM TypeCorrect == Spec => []TypeOK
BY InitType, NextType, PTL DEF Spec

-----------------------------------------------------------------------------
(* The generation handshake.                                               *)

\* What holds of the request, the configurer and its locals at every step.
HandshakeOf(b) ==
    /\ current_gen[b] <= config_gen[b]
    /\ current_gen[b] = config_gen[b] /\ config_gen[b] # 0 => config[b] = newconfig[b]
    /\ cfg[b] \in {"start", "apply"} => current_gen[b] # 0
    /\ cfg[b] \in {"check", "wait"} /\ config_ok[b]
          => written[b] = config[b] /\ current_gen[b] # 0
    /\ ~conf_in_progress[b] => /\ current_gen[b] = config_gen[b]
                               /\ cfg[b] \in {"check", "wait"}
    /\ cfg[b] = "wait" => \/ current_gen[b] = config_gen[b]
                          \/ put[b] = "borrow"

HandshakeInv == \A b \in Boards : HandshakeOf(b)

\* The part of the state HandshakeOf(b) reads.
handshake == <<requestVars, conf_in_progress, workerVars>>

LEMMA InitHandshake == Init => HandshakeInv
BY DEF Init, HandshakeInv, HandshakeOf

\* A step that leaves the handshake alone, and no client out of "borrow".
LEMMA HandshakeStutter ==
    ASSUME HandshakeInv, UNCHANGED handshake,
           \A b \in Boards : put[b] = "borrow" => put'[b] = "borrow"
    PROVE  HandshakeInv'
BY DEF HandshakeInv, HandshakeOf, handshake, requestVars, workerVars

LEMMA ConfigureKeepsHandshake ==
    ASSUME TypeOK, HandshakeInv, NEW b \in Boards, Configure(b)
    PROVE  HandshakeInv'
<1> SUFFICES ASSUME NEW c \in Boards
             PROVE  HandshakeOf(c)'
  BY DEF HandshakeInv
<1>1. HandshakeOf(c)
  BY DEF HandshakeInv
<1>2. CASE c = b
  <2>1. config_gen'[b] = config_gen[b] + 1 /\ conf_in_progress'[b] /\ put'[b] = "borrow"
    BY DEF Configure, NextGen, MovePut, TypeOK
  <2>2. UNCHANGED <<cfg, current_gen, config, config_ok, written>>
    BY DEF Configure, workerVars
  <2> QED
    BY <1>1, <1>2, <2>1, <2>2 DEF HandshakeOf, TypeOK
<1>3. CASE c # b
  BY <1>1, <1>3 DEF Configure, NextGen, MovePut, HandshakeOf, TypeOK, workerVars
<1> QED
  BY <1>2, <1>3

LEMMA BorrowKeepsHandshake ==
    ASSUME TypeOK, HandshakeInv, NEW b \in Boards, BorrowTrigger(b)
    PROVE  HandshakeInv'
<1> SUFFICES ASSUME NEW c \in Boards
             PROVE  HandshakeOf(c)'
  BY DEF HandshakeInv
<1>1. HandshakeOf(c)
  BY DEF HandshakeInv
<1>2. UNCHANGED <<config_gen, newconfig, conf_in_progress, current_gen, config, config_ok, written>>
  BY DEF BorrowTrigger, requestVars
<1>3. CASE c = b
  <2>1. cfg'[b] = IF cfg[b] = "wait" THEN "check" ELSE cfg[b]
    BY DEF BorrowTrigger, SignalRequest, TypeOK
  <2> QED
    BY <1>1, <1>2, <1>3, <2>1 DEF HandshakeOf, TypeOK
<1>4. CASE c # b
  <2>1. cfg'[c] = cfg[c] /\ put'[c] = put[c]
    BY <1>4 DEF BorrowTrigger, SignalRequest, MovePut, TypeOK
  <2> QED
    BY <1>1, <1>2, <2>1 DEF HandshakeOf
<1> QED
  BY <1>3, <1>4

LEMMA ConfigurerKeepsHandshake ==
    ASSUME TypeOK, HandshakeInv, NEW b \in Boards, Configurer(b) \/ SpuriousWakeup(b)
    PROVE  HandshakeInv'
<1> SUFFICES ASSUME NEW c \in Boards
             PROVE  HandshakeOf(c)'
  BY DEF HandshakeInv
<1> USE DEF TypeOK
<1>1. HandshakeOf(c)
  BY DEF HandshakeInv
<1>2. UNCHANGED <<put, config_gen, newconfig>>
  BY DEF Configurer, CheckRequest, StartConfigure, ApplyConfig, SpuriousWakeup, clientVars,
         requestVars
<1>3. CASE c = b /\ CheckRequest(b)
  <2>1. CASE current_gen[b] = config_gen[b]
    BY <1>1, <1>2, <1>3, <2>1 DEF CheckRequest, HandshakeOf
  <2>2. CASE current_gen[b] # config_gen[b]
    BY <1>1, <1>2, <1>3, <2>2 DEF CheckRequest, TakeRequest, HandshakeOf
  <2> QED
    BY <2>1, <2>2
<1>4. CASE c = b /\ StartConfigure(b)
  BY <1>1, <1>2, <1>4 DEF StartConfigure, HandshakeOf
<1>5. CASE c = b /\ ApplyConfig(b)
  BY <1>1, <1>2, <1>5 DEF ApplyConfig, HandshakeOf
<1>6. CASE c = b /\ SpuriousWakeup(b)
  BY <1>1, <1>2, <1>6 DEF SpuriousWakeup, HandshakeOf
<1>7. CASE c # b
  <2>1. /\ cfg'[c] = cfg[c] /\ current_gen'[c] = current_gen[c] /\ config'[c] = config[c]
        /\ config_ok'[c] = config_ok[c] /\ written'[c] = written[c]
        /\ conf_in_progress'[c] = conf_in_progress[c]
    BY <1>7 DEF Configurer, CheckRequest, TakeRequest, StartConfigure, ApplyConfig, SpuriousWakeup
  <2> QED
    BY <1>1, <1>2, <2>1 DEF HandshakeOf
<1> QED
  BY <1>3, <1>4, <1>5, <1>6, <1>7 DEF Configurer

LEMMA NextHandshake == TypeOK /\ HandshakeInv /\ [Next]_vars => HandshakeInv'
<1> SUFFICES ASSUME TypeOK, HandshakeInv, [Next]_vars
             PROVE  HandshakeInv'
  OBVIOUS
<1> USE DEF handshake, MovePut, TypeOK, clientVars, requestVars, workerVars
<1>1. CASE \E t \in Triggers, v \in {0, 1} : OperatorSet(t, v)
  BY <1>1, HandshakeStutter DEF OperatorSet
<1>2. ASSUME NEW b \in Boards, PutStart(b) \/ ConfigureByName(b) \/ Forward(b)
      PROVE  HandshakeInv'
  BY <1>2, HandshakeStutter DEF PutStart, ConfigureByName, Forward
<1>3. ASSUME NEW b \in Boards, TimerExpires(b) \/ Callback(b)
      PROVE  HandshakeInv'
  BY <1>3, HandshakeStutter
     DEF TimerExpires, Callback, CallbackStart, CallbackCheck, RestoreTrigger, PutBack,
         CallbackProcess
<1>4. CASE UNCHANGED vars
  BY <1>4, HandshakeStutter DEF vars
<1> QED
  BY <1>1, <1>2, <1>3, <1>4, ConfigureKeepsHandshake, BorrowKeepsHandshake,
     ConfigurerKeepsHandshake DEF Next, Client

THEOREM HandshakeInvariant == Spec => []HandshakeInv
<1>1. Init => HandshakeInv
  BY InitHandshake
<1> QED
  BY <1>1, TypeCorrect, NextHandshake, PTL DEF Spec

\* do_configure and configure together: a board that is not configuring and is
\* ok was sent the newest setting.
THEOREM NewestApplied == Spec => []LatestApplied
<1>1. HandshakeInv /\ TypeOK => LatestApplied
  BY DEF HandshakeInv, HandshakeOf, LatestApplied, TypeOK
<1> QED
  BY <1>1, HandshakeInvariant, TypeCorrect, PTL

\* The condition variable confreq: no request waits with its worker asleep.
THEOREM WakeUpDelivered == Spec => []NoLostWakeup
<1>1. HandshakeInv => NoLostWakeup
  BY DEF HandshakeInv, HandshakeOf, NoLostWakeup
<1> QED
  BY <1>1, HandshakeInvariant, PTL

-----------------------------------------------------------------------------
(* The second look.                                                        *)

\* A look at board b's configuration is under way.
LookComing(b) == timer[b] \/ queued[b] > 0 \/ serving = b

\* Who waits for that look: an active record, and every busy board but one
\* whose client still has its forward link to process.
LookDue(b) == pact[b] \/ (conf_in_progress[b] /\ put[b] \notin {"borrow", "forward"})

WatchInv ==
    /\ callback = "idle" => serving = NoBoard
    /\ \A b \in Boards : LookDue(b) => LookComing(b)

\* What WatchInv says of a board depends on that board's part of the state.
LEMMA WatchStutter ==
    ASSUME WatchInv, NEW c \in Boards, LookDue(c)' => LookDue(c),
           timer'[c] = timer[c], queued'[c] = queued[c], serving = c => serving' = c
    PROVE  LookDue(c)' => LookComing(c)'
BY DEF WatchInv, LookComing

\* A record that is processed while its board is busy arms its timer.
LEMMA WaitConfigWatched ==
    ASSUME TypeOK, NEW b \in Boards, NEW w \in BOOLEAN, ProcessWaitConfig(b, w),
           UNCHANGED conf_in_progress
    PROVE  /\ LookDue(b)' => LookComing(b)'
           /\ \A c \in Boards : c # b => timer'[c] = timer[c] /\ pact'[c] = pact[c]
<1>1. CASE conf_in_progress[b]
  <2>1. timer' = [timer EXCEPT ![b] = TRUE] /\ pact' = [pact EXCEPT ![b] = ~w]
    BY <1>1 DEF ProcessWaitConfig
  <2> QED
    BY <2>1 DEF LookComing, TypeOK
<1>2. CASE ~conf_in_progress[b]
  <2>1. timer' = timer /\ pact' = [pact EXCEPT ![b] = FALSE] /\ ~conf_in_progress'[b]
    BY <1>2 DEF ProcessWaitConfig
  <2> QED
    BY <2>1 DEF LookDue, TypeOK
<1> QED
  BY <1>1, <1>2

LEMMA ClientKeepsWatch ==
    ASSUME TypeOK, WatchInv, NEW b \in Boards, PutStart(b) \/ Client(b)
    PROVE  WatchInv'
<1>1. UNCHANGED <<queued, callback, serving>>
  BY DEF PutStart, Client, ConfigureByName, Configure, BorrowTrigger, Forward, threadVars
<1> SUFFICES ASSUME NEW c \in Boards
             PROVE  LookDue(c)' => LookComing(c)'
  BY <1>1 DEF WatchInv
<1>2. CASE PutStart(b) \/ ConfigureByName(b) \/ Configure(b) \/ BorrowTrigger(b)
  <2>1. UNCHANGED <<timer, pact>>
    BY <1>2 DEF PutStart, ConfigureByName, Configure, BorrowTrigger, recordVars
  <2>2. conf_in_progress'[c] /\ put'[c] \notin {"borrow", "forward"}
           => conf_in_progress[c] /\ put[c] \notin {"borrow", "forward"}
    BY <1>2 DEF PutStart, ConfigureByName, Configure, BorrowTrigger, MovePut, TypeOK
  <2> QED
    BY <1>1, <2>1, <2>2, WatchStutter DEF LookDue
<1>3. CASE Forward(b) /\ pact[b]
  <2>1. UNCHANGED <<timer, pact, conf_in_progress>> /\ (c # b => put'[c] = put[c])
    BY <1>3 DEF Forward, MovePut, TypeOK, recordVars
  <2> QED
    BY <1>1, <1>3, <2>1, WatchStutter DEF LookDue
<1>4. CASE Forward(b) /\ ~pact[b]
  <2>1. ProcessWaitConfig(b, FALSE) /\ UNCHANGED conf_in_progress /\ (c # b => put'[c] = put[c])
    BY <1>4 DEF Forward, MovePut, TypeOK
  <2> QED
    BY <1>1, <2>1, WaitConfigWatched, WatchStutter DEF LookDue
<1> QED
  BY <1>2, <1>3, <1>4 DEF Client

LEMMA ConfigurerKeepsWatch ==
    ASSUME TypeOK, WatchInv, NEW b \in Boards, Configurer(b) \/ SpuriousWakeup(b)
    PROVE  WatchInv'
<1>1. UNCHANGED <<clientVars, recordVars, threadVars>>
  BY DEF Configurer, CheckRequest, StartConfigure, ApplyConfig, SpuriousWakeup
<1>2. \A c \in Boards : conf_in_progress'[c] => conf_in_progress[c]
  BY DEF Configurer, CheckRequest, TakeRequest, StartConfigure, ApplyConfig, SpuriousWakeup, TypeOK
<1> QED
  BY <1>1, <1>2 DEF WatchInv, LookDue, LookComing, clientVars, recordVars, threadVars

LEMMA CallbackKeepsWatch ==
    ASSUME TypeOK, WatchInv, NEW b \in Boards, TimerExpires(b) \/ Callback(b)
    PROVE  WatchInv'
<1> USE BoardsAssumption DEF clientVars
<1>1. UNCHANGED <<put, conf_in_progress>>
  BY DEF TimerExpires, Callback, CallbackStart, CallbackCheck, RestoreTrigger, PutBack,
         CallbackProcess
<1>2. CASE TimerExpires(b)
  <2>1. /\ timer' = [timer EXCEPT ![b] = FALSE] /\ queued' = [queued EXCEPT ![b] = @ + 1]
        /\ UNCHANGED <<pact, callback, serving>>
    BY <1>2 DEF TimerExpires
  <2>2. queued'[b] > 0
    BY <2>1 DEF TypeOK
  <2> QED
    BY <1>1, <2>1, <2>2 DEF WatchInv, LookDue, LookComing, TypeOK
<1>3. CASE CallbackStart(b)
  <2>1. /\ callback = "idle" /\ callback' = "lock" /\ serving' = b
        /\ queued' = [queued EXCEPT ![b] = @ - 1] /\ UNCHANGED <<pact, timer>>
    BY <1>3 DEF CallbackStart, recordVars
  <2>2. \A c \in Boards : c # b => queued'[c] = queued[c] /\ serving # c
    BY <2>1 DEF WatchInv, TypeOK
  <2> QED
    BY <1>1, <2>1, <2>2 DEF WatchInv, LookDue, LookComing
<1>4. CASE CallbackCheck(b) /\ conf_in_progress[b]
  <2>1. /\ timer' = [timer EXCEPT ![b] = TRUE] /\ callback' = "idle" /\ serving' = NoBoard
        /\ serving = b /\ UNCHANGED <<pact, queued>>
    BY <1>4 DEF CallbackCheck, LookAgain
  <2> QED
    BY <1>1, <2>1 DEF WatchInv, LookDue, LookComing, TypeOK
<1>5. CASE \/ CallbackCheck(b) /\ ~conf_in_progress[b]
           \/ RestoreTrigger(b) \/ PutBack(b)
  <2>1. UNCHANGED <<pact, timer, queued, serving>> /\ callback' # "idle"
    BY <1>5 DEF CallbackCheck, RestoreTrigger, PutBack, recordVars
  <2> QED
    BY <1>1, <2>1 DEF WatchInv, LookDue, LookComing
<1>6. CASE CallbackProcess(b)
  <2>1. /\ ProcessWaitConfig(b, pact[b]) /\ serving = b
        /\ serving' = NoBoard /\ UNCHANGED queued
    BY <1>6 DEF CallbackProcess
  <2>2. pact[b] \in BOOLEAN
    BY DEF TypeOK
  <2>3. \A c \in Boards : c # b => (LookDue(c)' => LookComing(c)')
    BY <1>1, <2>1, <2>2, WaitConfigWatched, WatchStutter DEF LookDue
  <2>4. LookDue(b)' => LookComing(b)'
    BY <1>1, <2>1, <2>2, WaitConfigWatched
  <2> QED
    BY <2>1, <2>3, <2>4 DEF WatchInv
<1> QED
  BY <1>2, <1>3, <1>4, <1>5, <1>6 DEF Callback

LEMMA NextWatch == TypeOK /\ WatchInv /\ [Next]_vars => WatchInv'
<1> SUFFICES ASSUME TypeOK, WatchInv, [Next]_vars
             PROVE  WatchInv'
  OBVIOUS
<1>1. CASE \E t \in Triggers, v \in {0, 1} : OperatorSet(t, v)
  BY <1>1 DEF OperatorSet, WatchInv, LookDue, LookComing, clientVars, recordVars, threadVars
<1>2. CASE UNCHANGED vars
  BY <1>2 DEF vars, WatchInv, LookDue, LookComing, clientVars, recordVars, threadVars
<1> QED
  BY <1>1, <1>2, ClientKeepsWatch, ConfigurerKeepsWatch, CallbackKeepsWatch DEF Next

THEOREM WatchInvariant == Spec => []WatchInv
<1>1. Init => WatchInv
  BY DEF Init, WatchInv, LookDue
<1> QED
  BY <1>1, TypeCorrect, NextWatch, PTL DEF Spec

\* ipimbConfigCallback and read_bi: a board that configures with its client
\* gone is looked at again, even when requests overlap and the record that
\* waits for it has been completed early.
THEOREM NobodyForgotten == Spec => []Watched
<1>1. WatchInv => Watched
  BY DEF WatchInv, LookDue, LookComing, Watched
<1> QED
  BY <1>1, WatchInvariant, PTL

-----------------------------------------------------------------------------
(* The mailbox.                                                            *)

\* The refinement mapping of the worker's state.
Working == {b \in Boards : cfg[b] \in {"start", "apply"}}

\* The variables the mapping reads.
mapped == <<config_gen, current_gen, cfg, conf_in_progress>>

LEMMA InitMailbox == Init => Mailbox!MailboxInit
<1> SUFFICES ASSUME Init
             PROVE  Mailbox!MailboxInit
  OBVIOUS
<1>1. \A b \in Boards : ~(cfg[b] \in {"start", "apply"})
  BY DEF Init
<1>2. Working = {}
  BY <1>1 DEF Working
<1> QED
  BY <1>2 DEF Init, Working, Mailbox!MailboxInit

LEMMA MailboxStutter == UNCHANGED mapped => UNCHANGED Mailbox!mailbox
BY DEF mapped, Mailbox!mailbox

LEMMA ConfigureMaps ==
    ASSUME TypeOK, NEW b \in Boards, Configure(b)
    PROVE  Mailbox!Post(b)
BY DEF Configure, NextGen, workerVars, TypeOK, Mailbox!Post

\* The wake-up changes where the worker is, not whether it works.
LEMMA WakeUpMaps ==
    ASSUME TypeOK, NEW b \in Boards, BorrowTrigger(b) \/ SpuriousWakeup(b)
    PROVE  UNCHANGED Mailbox!mailbox
<1>1. UNCHANGED <<config_gen, current_gen, conf_in_progress>>
  BY DEF BorrowTrigger, SpuriousWakeup, requestVars
<1>2. \A c \in Boards : (cfg'[c] \in {"start", "apply"}) <=> (cfg[c] \in {"start", "apply"})
  BY DEF BorrowTrigger, SignalRequest, SpuriousWakeup, TypeOK
<1>3. Working' = Working
  BY <1>2 DEF Working
<1> QED
  BY <1>1, <1>3 DEF Working, Mailbox!mailbox

LEMMA CheckRequestMaps ==
    ASSUME TypeOK, NEW b \in Boards, CheckRequest(b)
    PROVE  Mailbox!Take(b) \/ Mailbox!Clear(b)
<1> USE DEF TypeOK, requestVars
<1>1. cfg[b] = "check" /\ UNCHANGED config_gen
  BY DEF CheckRequest
<1>2. CASE current_gen[b] = config_gen[b]
  <2>1. /\ conf_in_progress' = [conf_in_progress EXCEPT ![b] = FALSE]
        /\ cfg' = [cfg EXCEPT ![b] = "wait"]
        /\ UNCHANGED current_gen
    BY <1>2 DEF CheckRequest
  <2>2. Working' = Working
    BY <1>1, <2>1 DEF Working
  <2> QED
    BY <1>1, <1>2, <2>1, <2>2 DEF Working, Mailbox!Clear
<1>3. CASE current_gen[b] # config_gen[b]
  <2>1. /\ current_gen' = [current_gen EXCEPT ![b] = config_gen[b]]
        /\ cfg' = [cfg EXCEPT ![b] = "start"]
        /\ UNCHANGED conf_in_progress
    BY <1>3 DEF CheckRequest, TakeRequest
  <2>2. Working' = Working \cup {b}
    BY <1>1, <2>1 DEF Working
  <2> QED
    BY <1>1, <1>3, <2>1, <2>2 DEF Working, Mailbox!Take
<1> QED
  BY <1>2, <1>3

LEMMA ApplyMaps ==
    ASSUME TypeOK, NEW b \in Boards, ApplyConfig(b)
    PROVE  Mailbox!Finish(b)
<1>1. cfg[b] = "apply" /\ cfg' = [cfg EXCEPT ![b] = "check"]
  BY DEF ApplyConfig
<1>2. UNCHANGED <<config_gen, current_gen, conf_in_progress>>
  BY DEF ApplyConfig, requestVars
<1>3. Working' = Working \ {b}
  BY <1>1 DEF Working, TypeOK
<1> QED
  BY <1>1, <1>2, <1>3 DEF Working, Mailbox!Finish

LEMMA StartMaps ==
    ASSUME TypeOK, NEW b \in Boards, StartConfigure(b)
    PROVE  UNCHANGED Mailbox!mailbox
<1>1. Working' = Working
  BY DEF StartConfigure, Working, TypeOK
<1> QED
  BY <1>1 DEF StartConfigure, requestVars, Working, Mailbox!mailbox

LEMMA NextMailbox == TypeOK /\ [Next]_vars => [Mailbox!MailboxNext]_(Mailbox!mailbox)
<1> SUFFICES ASSUME TypeOK, [Next]_vars
             PROVE  Mailbox!MailboxNext \/ UNCHANGED Mailbox!mailbox
  OBVIOUS
<1>1. CASE UNCHANGED mapped
  BY <1>1, MailboxStutter
<1>2. ASSUME NEW b \in Boards, Configure(b) \/ BorrowTrigger(b) \/ Configurer(b)
                                 \/ SpuriousWakeup(b)
      PROVE  Mailbox!MailboxNext \/ UNCHANGED Mailbox!mailbox
  BY <1>2, ConfigureMaps, WakeUpMaps, CheckRequestMaps, ApplyMaps, StartMaps
     DEF Configurer, Mailbox!MailboxNext
<1>3. ASSUME NEW b \in Boards,
             PutStart(b) \/ ConfigureByName(b) \/ Forward(b) \/ TimerExpires(b) \/ Callback(b)
      PROVE  UNCHANGED mapped
  BY <1>3 DEF PutStart, ConfigureByName, Forward, TimerExpires, Callback, CallbackStart,
              CallbackCheck, RestoreTrigger, PutBack, CallbackProcess, mapped, requestVars,
              workerVars
<1>4. CASE \E t \in Triggers, v \in {0, 1} : OperatorSet(t, v)
  BY <1>1, <1>4 DEF OperatorSet, mapped, requestVars, workerVars
<1>5. CASE UNCHANGED vars
  BY <1>1, <1>5 DEF vars, mapped, requestVars, workerVars
<1> QED
  BY <1>1, <1>2, <1>3, <1>4, <1>5 DEF Next, Client

\* configure() and do_configure() implement a mailbox of depth one whose busy
\* flag is cleared only when the newest request has been served.
THEOREM RefinesMailbox == Spec => ImplementsMailbox
BY InitMailbox, TypeCorrect, NextMailbox, PTL DEF Spec, ImplementsMailbox, Mailbox!MailboxSpec

-----------------------------------------------------------------------------
(* Polite clients wait for WaitConfig before they configure again, and     *)
(* polite operators leave a trigger alone while boards on it configure.    *)

\* Nobody changes his manners.
LEMMA ScenarioKept == [Next]_vars => (Polite' <=> Polite)
<1> SUFFICES ASSUME [Next]_vars
             PROVE  scenario' = scenario
  BY DEF Polite
<1> USE DEF history
<1>1. CASE \E t \in Triggers, v \in {0, 1} : OperatorSet(t, v)
  BY <1>1 DEF OperatorSet
<1>2. ASSUME NEW b \in Boards, PutStart(b) \/ Client(b)
      PROVE  scenario' = scenario
  BY <1>2 DEF PutStart, Client, ConfigureByName, Configure, BorrowTrigger, Forward
<1>3. ASSUME NEW b \in Boards, Configurer(b) \/ SpuriousWakeup(b)
      PROVE  scenario' = scenario
  BY <1>3 DEF Configurer, CheckRequest, StartConfigure, ApplyConfig, SpuriousWakeup
<1>4. ASSUME NEW b \in Boards, TimerExpires(b) \/ Callback(b)
      PROVE  scenario' = scenario
  BY <1>4 DEF TimerExpires, Callback, CallbackStart, CallbackCheck, RestoreTrigger, PutBack,
              CallbackProcess
<1>5. CASE UNCHANGED vars
  BY <1>5 DEF vars
<1> QED
  BY <1>1, <1>2, <1>3, <1>4, <1>5 DEF Next

\* One callback per active record: its timer, its place in the queue and the
\* callback thread exclude each other, and an idle record has none of them.
OneCallback(b) ==
    /\ put[b] # "idle" => ~pact[b]
    /\ ~pact[b] => ~timer[b] /\ queued[b] = 0 /\ serving # b
    /\ timer[b] => queued[b] = 0 /\ serving # b
    /\ queued[b] > 0 => queued[b] = 1 /\ serving # b

\* The board holds its trigger while its record is active and not restored,
\* and if the record never missed a configuration, only then.
Holding(b) ==
    /\ pact[b] /\ ~(serving = b /\ callback = "process") => trigger_user[b] = 1
    /\ put[b] = "forward" => trigger_user[b] = 1
    /\ serving = b /\ callback \in {"restore", "putback", "process"} => ~conf_in_progress[b]
    /\ serving = b /\ callback = "process" => trigger_user[b] = 0
    /\ trigger_user[b] = 1 => pact[b] \/ put[b] = "forward" \/ TrigOf[b] \in missed

\* The entry a board uses exists from its first configuration on.
Resolved(b) ==
    /\ trigger_user[b] = 1 => trigger_index[b] # NoTrigger
    /\ put[b] \in {"configure", "borrow", "forward"} => trigger_index[b] # NoTrigger
    /\ trigger_index[b] # NoTrigger => trigger_index[b] \in known /\ trigger_index[b] = TrigOf[b]

\* The callback thread, and the count of the trigger it is about to write back.
ThreadInv ==
    /\ callback = "idle" <=> serving = NoBoard
    /\ \A b \in Boards :
          serving = b /\ callback = "putback" => use_cnt[trigger_index[b]] = 0

\* The trigger is lent: its PV is off and the saved value is the operator's.
Lent(t) == trig[t] = 0 /\ saved[t] = wanted[t]

LentInv ==
    \A t \in Triggers \ missed :
       /\ Users(t) = {} => trig[t] = wanted[t]
       /\ Users(t) # {} => Lent(t)

BoardInv == \A b \in Boards : OneCallback(b) /\ Holding(b) /\ Resolved(b)

PoliteInv == ThreadInv /\ BoardInv /\ CountExact /\ LentInv

-----------------------------------------------------------------------------
(* Every step keeps what is said of each board.                            *)

LEMMA InitPolite == ASSUME IsFiniteSet(Boards), Init PROVE PoliteInv
<1>1. \A t \in Triggers : Users(t) = {} /\ CountedIn(t) = {}
  BY DEF Init, Users, CountedIn
<1>2. CountExact
  BY <1>1, FS_EmptySet DEF Init, CountExact
<1>3. ThreadInv /\ LentInv
  BY <1>1, BoardsAssumption DEF Init, ThreadInv, LentInv
<1>4. BoardInv
  BY BoardsAssumption DEF Init, BoardInv, OneCallback, Holding, Resolved
<1> QED
  BY <1>2, <1>3, <1>4 DEF PoliteInv

LEMMA ClientKeepsBoards ==
    ASSUME Polite, TypeOK, PoliteInv, NEW b \in Boards, PutStart(b) \/ Client(b)
    PROVE  BoardInv'
<1> SUFFICES ASSUME NEW c \in Boards
             PROVE  (OneCallback(c) /\ Holding(c) /\ Resolved(c))'
  BY DEF BoardInv
<1>1. OneCallback(c) /\ Holding(c) /\ Resolved(c)
  BY DEF PoliteInv, BoardInv
<1> USE BoardsAssumption
    DEF MovePut, TypeOK, OneCallback, Holding, Resolved, clientVars, triggerVars, requestVars,
        workerVars, recordVars, threadVars, history
<1>2. CASE PutStart(b)
  BY <1>1, <1>2 DEF PutStart
<1>3. CASE ConfigureByName(b)
  BY <1>1, <1>3 DEF ConfigureByName, SetTrigger
<1>4. CASE Configure(b)
  BY <1>1, <1>4 DEF Configure
<1>5. CASE BorrowTrigger(b)
  BY <1>1, <1>5 DEF BorrowTrigger, CountIn
<1>6. CASE Forward(b)
  BY <1>1, <1>6 DEF Forward, ProcessWaitConfig
<1> QED
  BY <1>2, <1>3, <1>4, <1>5, <1>6 DEF Client

LEMMA ConfigurerKeepsBoards ==
    ASSUME TypeOK, PoliteInv, NEW b \in Boards, Configurer(b) \/ SpuriousWakeup(b)
    PROVE  BoardInv'
<1> SUFFICES ASSUME NEW c \in Boards
             PROVE  (OneCallback(c) /\ Holding(c) /\ Resolved(c))'
  BY DEF BoardInv
<1>1. OneCallback(c) /\ Holding(c) /\ Resolved(c)
  BY DEF PoliteInv, BoardInv
<1>2. UNCHANGED <<clientVars, triggerVars, history, recordVars, threadVars>>
  BY DEF Configurer, CheckRequest, StartConfigure, ApplyConfig, SpuriousWakeup
<1>3. conf_in_progress'[c] => conf_in_progress[c]
  BY DEF Configurer, CheckRequest, TakeRequest, StartConfigure, ApplyConfig, SpuriousWakeup, TypeOK
<1> QED
  BY <1>1, <1>2, <1>3
     DEF OneCallback, Holding, Resolved, clientVars, triggerVars, history, recordVars, threadVars

LEMMA CallbackKeepsBoards ==
    ASSUME TypeOK, PoliteInv, NEW b \in Boards, TimerExpires(b) \/ Callback(b)
    PROVE  BoardInv'
<1> SUFFICES ASSUME NEW c \in Boards
             PROVE  (OneCallback(c) /\ Holding(c) /\ Resolved(c))'
  BY DEF BoardInv
<1>1. OneCallback(c) /\ Holding(c) /\ Resolved(c)
  BY DEF PoliteInv, BoardInv
<1>2. OneCallback(b) /\ Holding(b) /\ (callback = "idle" <=> serving = NoBoard)
  BY DEF PoliteInv, BoardInv, ThreadInv
<1> USE BoardsAssumption
    DEF TypeOK, OneCallback, Holding, Resolved, clientVars, triggerVars, requestVars,
        workerVars, recordVars, threadVars, history
<1>3. CASE TimerExpires(b)
  BY <1>1, <1>3 DEF TimerExpires
<1>4. CASE CallbackStart(b)
  BY <1>1, <1>2, <1>4 DEF CallbackStart
<1>5. CASE CallbackCheck(b)
  BY <1>1, <1>2, <1>5 DEF CallbackCheck, LookAgain
<1>6. CASE RestoreTrigger(b)
  BY <1>1, <1>2, <1>6 DEF RestoreTrigger
<1>7. CASE PutBack(b)
  BY <1>1, <1>2, <1>7 DEF PutBack
<1>8. CASE CallbackProcess(b)
  BY <1>1, <1>2, <1>8 DEF CallbackProcess, ProcessWaitConfig
<1> QED
  BY <1>3, <1>4, <1>5, <1>6, <1>7, <1>8 DEF Callback

-----------------------------------------------------------------------------
(* Every step keeps the count and the PV of each trigger.                  *)

SharingInv == ThreadInv /\ CountExact /\ LentInv

\* What SharingInv reads besides the callback thread.
sharing == <<trigger_index, trigger_user, use_cnt, saved, trig, wanted>>

LEMMA CountedFinite ==
    ASSUME IsFiniteSet(Boards), NEW t
    PROVE  /\ IsFiniteSet(CountedIn(t))
           /\ Cardinality(CountedIn(t)) \in Nat
           /\ Cardinality(CountedIn(t)) = 0 <=> CountedIn(t) = {}
<1>1. CountedIn(t) \subseteq Boards
  BY DEF CountedIn, Users
<1> QED
  BY <1>1, FS_Subset, FS_CardinalityType, FS_EmptySet

\* A step that leaves the triggers alone and nobody writing a PV back.
LEMMA SharingStutter ==
    ASSUME PoliteInv, UNCHANGED sharing, missed \subseteq missed', ThreadInv',
           \/ UNCHANGED <<callback, serving>>
           \/ callback # "putback" /\ callback' # "putback"
    PROVE  SharingInv'
<1>1. \A t : Users(t)' = Users(t) /\ CountedIn(t)' = CountedIn(t)
  BY DEF sharing, Users, CountedIn
<1> QED
  BY <1>1 DEF PoliteInv, SharingInv, CountExact, LentInv, Lent, sharing

LEMMA QuietKeepsSharing ==
    ASSUME PoliteInv, NEW b \in Boards,
           \/ PutStart(b) \/ Configure(b) \/ Forward(b)
           \/ Configurer(b) \/ SpuriousWakeup(b) \/ TimerExpires(b)
    PROVE  SharingInv'
<1>1. UNCHANGED sharing /\ UNCHANGED <<callback, serving>> /\ missed \subseteq missed'
  BY DEF PutStart, Configure, Forward, Configurer, CheckRequest, StartConfigure, ApplyConfig,
         SpuriousWakeup, TimerExpires, sharing, triggerVars, threadVars, history
<1>2. ThreadInv'
  BY <1>1 DEF PoliteInv, ThreadInv, sharing
<1> QED
  BY <1>1, <1>2, SharingStutter

LEMMA CallbackKeepsSharing ==
    ASSUME PoliteInv, NEW b \in Boards,
           CallbackStart(b) \/ CallbackCheck(b) \/ CallbackProcess(b)
    PROVE  SharingInv'
<1>1. UNCHANGED sharing /\ missed' = missed
  BY DEF CallbackStart, CallbackCheck, CallbackProcess, sharing, triggerVars, history
<1>2. callback # "putback" /\ callback' # "putback"
  BY DEF CallbackStart, CallbackCheck, LookAgain, CallbackProcess
<1>3. callback' = "idle" <=> serving' = NoBoard
  BY BoardsAssumption DEF CallbackStart, CallbackCheck, LookAgain, CallbackProcess, PoliteInv, ThreadInv
<1> QED
  BY <1>1, <1>2, <1>3, SharingStutter DEF ThreadInv

LEMMA OperatorKeepsSharing ==
    ASSUME Polite, TypeOK, PoliteInv, NEW t \in Triggers, NEW v \in {0, 1}, OperatorSet(t, v)
    PROVE  SharingInv' /\ BoardInv'
<1>1. /\ UNCHANGED <<trigger_index, trigger_user, use_cnt, saved, callback, serving, missed>>
      /\ trig' = [trig EXCEPT ![t] = v] /\ wanted' = [wanted EXCEPT ![t] = v]
  BY DEF OperatorSet, threadVars
<1>2. \A u : Users(u)' = Users(u) /\ CountedIn(u)' = CountedIn(u)
  BY <1>1 DEF Users, CountedIn
<1>3. t \notin missed => Users(t) = {}
  <2>1. AtRest(t)
    BY DEF OperatorSet
  <2>2. \A c \in Boards : Holding(c) /\ Resolved(c)
    BY DEF PoliteInv, BoardInv
  <2> QED
    BY <2>1, <2>2 DEF AtRest, Holding, Resolved, Users
<1>4. ThreadInv' /\ CountExact'
  BY <1>1, <1>2 DEF PoliteInv, ThreadInv, CountExact
<1>5. LentInv'
  BY <1>1, <1>2, <1>3 DEF PoliteInv, LentInv, Lent, TypeOK
<1>6. BoardInv'
  BY DEF OperatorSet, PoliteInv, BoardInv, OneCallback, Holding, Resolved, clientVars,
         recordVars, threadVars
<1> QED
  BY <1>4, <1>5, <1>6 DEF SharingInv

\* A new entry of triggers[] has no borrower.
LEMMA ConfigureByNameKeepsSharing ==
    ASSUME TypeOK, PoliteInv, NEW b \in Boards, ConfigureByName(b)
    PROVE  SharingInv'
<1>1. UNCHANGED <<trigger_user, trig, wanted, missed, callback, serving>> /\ SetTrigger(b)
  BY DEF ConfigureByName, threadVars, history
<1>2. \A c \in Boards : Resolved(c)
  BY DEF PoliteInv, BoardInv
<1>3. CASE trigger_index[b] # NoTrigger
  <2>1. UNCHANGED sharing
    BY <1>1, <1>3 DEF SetTrigger, sharing
  <2>2. ThreadInv'
    BY <1>1, <2>1 DEF PoliteInv, ThreadInv, sharing
  <2> QED
    BY <1>1, <2>1, <2>2, SharingStutter
<1>4. CASE trigger_index[b] = NoTrigger
  <2> DEFINE t == TrigOf[b]
  <2>1. /\ t \in Triggers /\ t # NoTrigger /\ callback # "putback"
        /\ trigger_index' = [trigger_index EXCEPT ![b] = t]
    BY <1>1, <1>4, BoardsAssumption DEF SetTrigger, TrigMutexHeld
  <2>2. trigger_user[b] # 1
    BY <1>2, <1>4 DEF Resolved
  <2>3. \A u : Users(u)' = Users(u)
    BY <1>1, <2>1, <2>2 DEF Users, TypeOK
  <2>4. \A u : CountedIn(u)' = CountedIn(u)
    BY <1>1, <2>3 DEF CountedIn
  <2>5. CASE t \in known
    BY <1>1, <1>4, <2>1, <2>3, <2>4, <2>5
       DEF SetTrigger, PoliteInv, SharingInv, ThreadInv, CountExact, LentInv, Lent
  <2>6. CASE t \notin known
    <3>1. Users(t) = {} /\ CountedIn(t) = {}
      BY <1>2, <2>1, <2>6 DEF Resolved, Users, CountedIn
    <3>2. use_cnt' = [use_cnt EXCEPT ![t] = 0] /\ saved' = [saved EXCEPT ![t] = -1]
      BY <1>1, <1>4, <2>6 DEF SetTrigger, NewEntry
    <3>3. CountExact'
      BY <2>1, <2>4, <3>1, <3>2, FS_EmptySet DEF PoliteInv, CountExact, TypeOK
    <3>4. LentInv'
      BY <1>1, <2>1, <2>3, <3>1, <3>2 DEF PoliteInv, LentInv, Lent, TypeOK
    <3>5. ThreadInv'
      BY <1>1, <2>1 DEF PoliteInv, ThreadInv
    <3> QED
      BY <3>3, <3>4, <3>5 DEF SharingInv
  <2> QED
    BY <2>5, <2>6
<1> QED
  BY <1>3, <1>4

\* A board that counts itself in was not counted, and the first one saves.
LEMMA BorrowKeepsSharing ==
    ASSUME IsFiniteSet(Boards), TypeOK, PoliteInv, NEW b \in Boards, BorrowTrigger(b)
    PROVE  SharingInv'
<1>1. /\ UNCHANGED <<trigger_index, wanted, missed, callback, serving>>
      /\ put[b] = "borrow" /\ callback # "putback" /\ CountIn(b)
  BY DEF BorrowTrigger, MovePut, TrigMutexHeld, threadVars, history
<1>2. ThreadInv'
  BY <1>1 DEF PoliteInv, ThreadInv
<1>3. CASE trigger_user[b] # 0
  <2>1. UNCHANGED sharing
    BY <1>1, <1>3 DEF CountIn, sharing
  <2> QED
    BY <1>1, <1>2, <2>1, SharingStutter
<1>4. CASE trigger_user[b] = 0
  <2>1. PICK t \in Triggers : t = trigger_index[b]
    BY <1>1 DEF PoliteInv, BoardInv, Resolved, TypeOK
  <2>2. /\ use_cnt' = [use_cnt EXCEPT ![t] = @ + 1]
        /\ FirstIn(t)
        /\ trigger_user' = [trigger_user EXCEPT ![b] = 1]
    BY <1>1, <1>4, <2>1 DEF CountIn
  <2>3. \A u : CountedIn(u) = Users(u) /\ CountedIn(u)' = Users(u)'
    BY <1>1 DEF CountedIn, Users
  <2>4. Users(t)' = Users(t) \cup {b} /\ b \notin Users(t)
    BY <1>1, <1>4, <2>1, <2>2 DEF Users, TypeOK
  <2>5. \A u : u # t => Users(u)' = Users(u)
    BY <1>1, <2>1, <2>2 DEF Users, TypeOK
  <2>6. Cardinality(CountedIn(t)') = Cardinality(CountedIn(t)) + 1
    BY <2>3, <2>4, CountedFinite, FS_AddElement
  <2>7. CountExact'
    <3>1. \A u \in Triggers : use_cnt[u] = Cardinality(CountedIn(u))
      BY DEF PoliteInv, CountExact
    <3>2. \A u : u # t => CountedIn(u)' = CountedIn(u)
      BY <2>3, <2>5
    <3>3. \A u \in Triggers : use_cnt'[u] = Cardinality(CountedIn(u)')
      BY <2>2, <2>6, <3>1, <3>2 DEF TypeOK
    <3> QED
      BY <3>3 DEF CountExact
  <2>8. use_cnt[t] = 0 <=> Users(t) = {}
    BY <2>1, <2>3, CountedFinite DEF PoliteInv, CountExact
  <2>9. LentInv'
    <3>1. CASE use_cnt[t] = 0
      BY <1>1, <2>1, <2>2, <2>4, <2>5, <2>8, <3>1 DEF FirstIn, PoliteInv, LentInv, Lent, TypeOK
    <3>2. CASE use_cnt[t] # 0
      BY <1>1, <2>1, <2>2, <2>4, <2>5, <2>8, <3>2 DEF FirstIn, PoliteInv, LentInv, Lent, TypeOK
    <3> QED
      BY <3>1, <3>2
  <2> QED
    BY <1>2, <2>7, <2>9 DEF SharingInv
<1> QED
  BY <1>3, <1>4

\* What the callback thread knows of the board it restores the trigger of.
LEMMA ServedHolds ==
    ASSUME TypeOK, PoliteInv, NEW b \in Boards, serving = b, callback \in {"restore", "putback"}
    PROVE  /\ trigger_user[b] = 1
           /\ trigger_index[b] \in Triggers
           /\ b \in Users(trigger_index[b])
<1>1. OneCallback(b) /\ Holding(b) /\ Resolved(b)
  BY DEF PoliteInv, BoardInv
<1>2. pact[b]
  BY <1>1 DEF OneCallback
<1> QED
  BY <1>1, <1>2 DEF Holding, Resolved, Users, TypeOK

LEMMA RestoreKeepsSharing ==
    ASSUME IsFiniteSet(Boards), TypeOK, PoliteInv, NEW b \in Boards, RestoreTrigger(b)
    PROVE  SharingInv'
<1> DEFINE t == trigger_index[b]
<1>1. /\ callback = "restore" /\ serving = b
      /\ UNCHANGED <<trigger_index, saved, trig, wanted, missed, serving>>
      /\ use_cnt' = [use_cnt EXCEPT ![t] = @ - 1]
  BY DEF RestoreTrigger, history
<1>2. t \in Triggers /\ b \in Users(t)
  BY <1>1, ServedHolds
<1>3. CountedIn(t) = Users(t) /\ Cardinality(CountedIn(t)) = use_cnt[t]
  BY <1>1, <1>2 DEF CountedIn, PoliteInv, CountExact
<1>4. CountedIn(t)' = CountedIn(t) \ {b} /\ \A u : u # t => CountedIn(u)' = CountedIn(u)
  BY <1>1, <1>2 DEF RestoreTrigger, CountedIn, Users, TypeOK
<1>5. Cardinality(CountedIn(t)') = use_cnt[t] - 1
  <2>1. IsFiniteSet(CountedIn(t)) /\ b \in CountedIn(t)
    BY <1>2, <1>3, CountedFinite
  <2>2. Cardinality(CountedIn(t) \ {b}) = Cardinality(CountedIn(t)) - 1
    BY <2>1, FS_RemoveElement
  <2> QED
    BY <1>3, <1>4, <2>2
<1>6. CountExact'
  BY <1>1, <1>2, <1>4, <1>5 DEF PoliteInv, CountExact, TypeOK
<1>7. CASE use_cnt[t] = 1
  <2>1. callback' = "putback" /\ UNCHANGED trigger_user
    BY <1>7 DEF RestoreTrigger
  <2>2. \A u : Users(u)' = Users(u)
    BY <1>1, <2>1 DEF Users
  <2>3. LentInv'
    BY <1>1, <2>2 DEF PoliteInv, LentInv, Lent
  <2>4. ThreadInv'
    BY <1>1, <1>2, <1>7, <2>1, BoardsAssumption DEF ThreadInv, TypeOK
  <2> QED
    BY <1>6, <2>3, <2>4 DEF SharingInv
<1>8. CASE use_cnt[t] # 1
  <2>1. callback' = "process" /\ trigger_user' = [trigger_user EXCEPT ![b] = 0]
    BY <1>8 DEF RestoreTrigger
  <2>2. Users(t)' = CountedIn(t)' /\ CountedIn(t)' # {}
    <3>1. Users(t)' = CountedIn(t)'
      BY <2>1 DEF CountedIn, Users
    <3>2. Cardinality(CountedIn(t)') # 0
      BY <1>2, <1>5, <1>8 DEF TypeOK
    <3> QED
      BY <3>1, <3>2, FS_EmptySet
  <2>3. \A u : u # t => Users(u)' = Users(u)
    BY <1>1, <2>1 DEF Users, TypeOK
  <2>4. LentInv'
    BY <1>1, <1>2, <2>2, <2>3 DEF PoliteInv, LentInv, Lent
  <2>5. ThreadInv'
    BY <1>1, <2>1, BoardsAssumption DEF ThreadInv
  <2> QED
    BY <1>6, <2>4, <2>5 DEF SharingInv
<1> QED
  BY <1>7, <1>8

\* The PV is written back when its last borrower leaves.
LEMMA PutBackKeepsSharing ==
    ASSUME IsFiniteSet(Boards), TypeOK, PoliteInv, NEW b \in Boards, PutBack(b)
    PROVE  SharingInv'
<1> DEFINE t == trigger_index[b]
<1>1. /\ callback = "putback" /\ serving = b /\ callback' = "process"
      /\ UNCHANGED <<trigger_index, use_cnt, saved, wanted, missed, serving>>
      /\ trig' = [trig EXCEPT ![t] = saved[t]]
      /\ trigger_user' = [trigger_user EXCEPT ![b] = 0]
  BY DEF PutBack, history
<1>2. t \in Triggers /\ b \in Users(t)
  BY <1>1, ServedHolds
<1>3. CountedIn(t) = Users(t) \ {b}
  BY <1>1 DEF CountedIn
<1>4. use_cnt[t] = 0 /\ CountedIn(t) = {}
  BY <1>1, <1>2, CountedFinite DEF PoliteInv, ThreadInv, CountExact
<1>5. /\ Users(t)' = {}
      /\ \A u : u # t => Users(u)' = Users(u)
      /\ \A u : CountedIn(u)' = CountedIn(u)
  BY <1>1, <1>3, <1>4 DEF CountedIn, Users, TypeOK
<1>6. CountExact'
  BY <1>1, <1>5 DEF PoliteInv, CountExact
<1>7. LentInv'
  BY <1>1, <1>2, <1>5 DEF PoliteInv, LentInv, Lent, TypeOK
<1>8. ThreadInv'
  BY <1>1, BoardsAssumption DEF ThreadInv
<1> QED
  BY <1>6, <1>7, <1>8 DEF SharingInv

-----------------------------------------------------------------------------
LEMMA NextPolite ==
    ASSUME Polite, IsFiniteSet(Boards), TypeOK, PoliteInv, [Next]_vars
    PROVE  PoliteInv'
<1> SUFFICES SharingInv' /\ BoardInv'
  BY DEF SharingInv, PoliteInv
<1>1. CASE \E t \in Triggers, v \in {0, 1} : OperatorSet(t, v)
  BY <1>1, OperatorKeepsSharing
<1>2. ASSUME NEW b \in Boards, PutStart(b) \/ Client(b)
      PROVE  SharingInv' /\ BoardInv'
  BY <1>2, ClientKeepsBoards, QuietKeepsSharing, ConfigureByNameKeepsSharing,
     BorrowKeepsSharing DEF Client
<1>3. ASSUME NEW b \in Boards, Configurer(b) \/ SpuriousWakeup(b)
      PROVE  SharingInv' /\ BoardInv'
  BY <1>3, ConfigurerKeepsBoards, QuietKeepsSharing
<1>4. ASSUME NEW b \in Boards, TimerExpires(b) \/ Callback(b)
      PROVE  SharingInv' /\ BoardInv'
  BY <1>4, CallbackKeepsBoards, QuietKeepsSharing, CallbackKeepsSharing, RestoreKeepsSharing,
     PutBackKeepsSharing DEF Callback
<1>5. CASE UNCHANGED vars
  <2>1. /\ UNCHANGED sharing /\ UNCHANGED <<callback, serving, missed>> /\ ThreadInv'
    BY <1>5 DEF vars, sharing, triggerVars, threadVars, history, PoliteInv, ThreadInv
  <2>2. BoardInv'
    BY <1>5 DEF PoliteInv, BoardInv, OneCallback, Holding, Resolved, vars, clientVars,
                triggerVars, recordVars, threadVars, history
  <2> QED
    BY <2>1, <2>2, SharingStutter
<1> QED
  BY <1>1, <1>2, <1>3, <1>4, <1>5 DEF Next

THEOREM PoliteInvariant ==
    ASSUME IsFiniteSet(Boards)
    PROVE  Spec => [](Polite => PoliteInv)
<1>1. Init => (Polite => PoliteInv)
  BY InitPolite
<1>2. TypeOK /\ (Polite => PoliteInv) /\ [Next]_vars => (Polite => PoliteInv)'
  BY NextPolite, ScenarioKept
<1> QED
  BY <1>1, <1>2, TypeCorrect, PTL DEF Spec

\* configure() and RestoreTrigger(): the use count of a trigger is the number
\* of boards that have counted themselves in and not out.
THEOREM UseCountCorrect ==
    ASSUME IsFiniteSet(Boards)
    PROVE  Spec => []UseCountExact
<1>1. (Polite => PoliteInv) => UseCountExact
  BY DEF PoliteInv, UseCountExact
<1> QED
  BY <1>1, PoliteInvariant, PTL

-----------------------------------------------------------------------------
(* What it means that WaitConfig has finished.                             *)

\* Where a client has not asked for a configuration yet, or no more waits.
NotAsking == {"idle", "settrigger", "configure"}

\* An inactive record tells of a board at rest; the request is the setting
\* that beam line data carries from configure() on.
FinishedOf(b) ==
    /\ put[b] # "configure" => newconfig[b] = ipmConfig[b]
    /\ ~pact[b] /\ put[b] \in NotAsking => ~conf_in_progress[b]

FinishedInv == \A b \in Boards : FinishedOf(b)

LEMMA ClientKeepsFinished ==
    ASSUME Polite, TypeOK, PoliteInv, FinishedInv, NEW b \in Boards, PutStart(b) \/ Client(b)
    PROVE  FinishedInv'
<1> SUFFICES ASSUME NEW c \in Boards
             PROVE  FinishedOf(c)'
  BY DEF FinishedInv
<1>1. FinishedOf(c) /\ OneCallback(c)
  BY DEF FinishedInv, PoliteInv, BoardInv
<1> USE DEF MovePut, TypeOK, FinishedOf, NotAsking, requestVars, workerVars, recordVars
<1>2. CASE PutStart(b)
  BY <1>1, <1>2 DEF PutStart
<1>3. CASE ConfigureByName(b)
  BY <1>1, <1>3 DEF ConfigureByName
<1>4. CASE Configure(b)
  BY <1>1, <1>4 DEF Configure
<1>5. CASE BorrowTrigger(b)
  BY <1>1, <1>5 DEF BorrowTrigger
<1>6. CASE Forward(b)
  BY <1>1, <1>6 DEF Forward, ProcessWaitConfig, OneCallback
<1> QED
  BY <1>2, <1>3, <1>4, <1>5, <1>6 DEF Client

\* The configurer makes no board busy.
LEMMA ConfigurerKeepsFinished ==
    ASSUME TypeOK, FinishedInv, NEW b \in Boards, Configurer(b) \/ SpuriousWakeup(b)
    PROVE  FinishedInv'
<1> SUFFICES ASSUME NEW c \in Boards
             PROVE  FinishedOf(c)'
  BY DEF FinishedInv
<1>1. FinishedOf(c)
  BY DEF FinishedInv
<1>2. UNCHANGED <<put, ipmConfig, newconfig, pact>>
  BY DEF Configurer, CheckRequest, StartConfigure, ApplyConfig, SpuriousWakeup, clientVars,
         requestVars, recordVars
<1>3. conf_in_progress'[c] => conf_in_progress[c]
  BY DEF Configurer, CheckRequest, TakeRequest, StartConfigure, ApplyConfig, SpuriousWakeup, TypeOK
<1> QED
  BY <1>1, <1>2, <1>3 DEF FinishedOf

\* The callback completes a record whose board it has found at rest.
LEMMA CallbackKeepsFinished ==
    ASSUME TypeOK, PoliteInv, FinishedInv, NEW b \in Boards, TimerExpires(b) \/ Callback(b)
    PROVE  FinishedInv'
<1> SUFFICES ASSUME NEW c \in Boards
             PROVE  FinishedOf(c)'
  BY DEF FinishedInv
<1>1. FinishedOf(c)
  BY DEF FinishedInv
<1>2. UNCHANGED <<put, ipmConfig, newconfig, conf_in_progress>>
  BY DEF TimerExpires, Callback, CallbackStart, CallbackCheck, RestoreTrigger, PutBack,
         CallbackProcess, clientVars, requestVars
<1>3. CASE CallbackProcess(b)
  <2>1. serving = b /\ callback = "process" /\ ProcessWaitConfig(b, pact[b])
    BY <1>3 DEF CallbackProcess
  <2>2. ~conf_in_progress[b]
    BY <2>1 DEF PoliteInv, BoardInv, Holding
  <2>3. pact' = [pact EXCEPT ![b] = FALSE]
    BY <2>1, <2>2 DEF ProcessWaitConfig
  <2> QED
    BY <1>1, <1>2, <2>2, <2>3 DEF FinishedOf, TypeOK
<1>4. CASE ~CallbackProcess(b)
  <2>1. UNCHANGED pact
    BY <1>4 DEF TimerExpires, Callback, CallbackStart, CallbackCheck, RestoreTrigger, PutBack,
                recordVars
  <2> QED
    BY <1>1, <1>2, <2>1 DEF FinishedOf
<1> QED
  BY <1>3, <1>4

LEMMA NextFinished ==
    ASSUME Polite, TypeOK, PoliteInv, FinishedInv, [Next]_vars
    PROVE  FinishedInv'
<1>1. CASE \E t \in Triggers, v \in {0, 1} : OperatorSet(t, v)
  BY <1>1 DEF OperatorSet, FinishedInv, FinishedOf, clientVars, requestVars, workerVars, recordVars
<1>2. CASE UNCHANGED vars
  BY <1>2 DEF vars, FinishedInv, FinishedOf, clientVars, requestVars, workerVars, recordVars
<1> QED
  BY <1>1, <1>2, ClientKeepsFinished, ConfigurerKeepsFinished, CallbackKeepsFinished DEF Next

THEOREM FinishedInvariant ==
    ASSUME IsFiniteSet(Boards)
    PROVE  Spec => [](Polite => FinishedInv)
<1>1. Init => FinishedInv
  BY DEF Init, FinishedInv, FinishedOf
<1>2. /\ TypeOK /\ (Polite => PoliteInv) /\ (Polite => FinishedInv) /\ [Next]_vars
      => (Polite => FinishedInv)'
  BY NextFinished, ScenarioKept
<1> QED
  BY <1>1, <1>2, TypeCorrect, PoliteInvariant, PTL DEF Spec

\* read_bi, configure() and do_configure together: when the WaitConfig record
\* of a polite client has finished, the board is not busy, and unless config_ok
\* is cleared it was sent the very setting that beam line data carry.
THEOREM FinishedMeansApplied ==
    ASSUME IsFiniteSet(Boards)
    PROVE  Spec => []FinishedIsApplied
<1>1. TypeOK /\ HandshakeInv /\ (Polite => FinishedInv) => FinishedIsApplied
  BY DEF HandshakeInv, HandshakeOf, FinishedInv, FinishedOf, NotAsking, FinishedIsApplied, TypeOK
<1> QED
  BY <1>1, TypeCorrect, HandshakeInvariant, FinishedInvariant, PTL

\* configure(), read_bi and RestoreTrigger(): unless a configuration of a board
\* on it was over before WaitConfig looked, a trigger is off while a board on it
\* is configured, and has the operator's value again when every board has
\* finished.  The boards of such a trigger count themselves out, all of them.
THEOREM TriggerGivenBack ==
    ASSUME IsFiniteSet(Boards)
    PROVE  Spec => []TriggerLent
<1>1. ASSUME Polite, TypeOK, PoliteInv, FinishedInv, NEW t \in Triggers \ missed
      PROVE  /\ AtRest(t) => trig[t] = wanted[t]
             /\ Configuring(t) => trig[t] = 0
  <2>1. \A b \in Boards : OneCallback(b) /\ Holding(b) /\ Resolved(b) /\ FinishedOf(b)
    BY <1>1 DEF PoliteInv, BoardInv, FinishedInv
  <2>2. AtRest(t) => Users(t) = {}
    BY <1>1, <2>1 DEF AtRest, Users, Holding, Resolved
  <2>3. Configuring(t) => Users(t) # {}
    <3> SUFFICES ASSUME NEW b \in Boards, TrigOf[b] = t, conf_in_progress[b], put[b] # "borrow"
                 PROVE  b \in Users(t)
      BY DEF Configuring
    <3>1. pact[b] \/ put[b] = "forward"
      BY <1>1, <2>1 DEF FinishedOf, NotAsking, TypeOK
    <3>2. trigger_user[b] = 1
      BY <2>1, <3>1 DEF Holding
    <3> QED
      BY <2>1, <3>2 DEF Resolved, Users
  <2> QED
    BY <1>1, <2>2, <2>3 DEF PoliteInv, LentInv, Lent
<1>2. TypeOK /\ (Polite => PoliteInv) /\ (Polite => FinishedInv) => TriggerLent
  BY <1>1 DEF TriggerLent
<1> QED
  BY <1>2, TypeCorrect, PoliteInvariant, FinishedInvariant, PTL

=============================================================================
