---------------------------- MODULE SystemProofs ----------------------------
(* The process with its callbacks: it behaves, seen without them, like the *)
(* process of Gateway, whose theorems therefore hold of it; and the        *)
(* threads and the callbacks share Winsock without harm, and what holds of *)
(* the callbacks alone holds of them beside the threads.                   *)
EXTENDS System, GatewayProofs, FiniteSetTheorems

(* The callbacks take no step that Gateway does not know. *)
LEMMA SysStepIsStep == [SysNext]_sysVars => [Next]_vars
<1>1. OtherStep => Step
  BY DEF OtherStep, Step, Main, Ev
<1>2. ProcessStartsWinsock \/ ServerBinds \/ ServerFreed \/ ServerCleansUp => Step
  BY DEF ProcessStartsWinsock, ServerBinds, ServerFreed, ServerCleansUp, Step, Main, Ev
<1>3. ThreadStep => Step
  BY <1>1, <1>2 DEF ThreadStep
<1>4. EventLost \/ (\E c \in AlarmThreads : EventCalledBack(c) \/ CallbackStep(c))
        => UNCHANGED vars
  BY DEF EventLost, EventCalledBack, CallbackStep
<1>5. UNCHANGED sysVars => UNCHANGED vars
  BY DEF sysVars
<1> QED
  BY <1>3, <1>4, <1>5 DEF SysNext, SysStep, Next

(* Seen without its callbacks, the whole process is the process of Gateway *)
(* for every number of doors, library threads and events.                  *)
THEOREM SystemRefinesGateway == SysSpec => Spec
<1>1. SysInit => Init
  BY DEF SysInit
<1> QED
  BY <1>1, SysStepIsStep, PTL DEF SysSpec, Spec

-----------------------------------------------------------------------------
(* Events                                                                  *)

(* An alarm channel without a callback exists only between its arming and  *)
(* the registration, or after the latter failed.                           *)
ArmedInv ==
    /\ pc["Door"] \in {"idle", "init", "login", "setup", "cleanup"} => armed = {}
    /\ armed # {} /\ ~callback => pc["Door"] \in {"register", "done"}

(* Only the door thread arms a channel, and a release of the library takes *)
(* channel and callback together.                                          *)
LEMMA ArmedStep == IInv /\ ArmedInv /\ [SysNext]_sysVars => ArmedInv'
<1> SUFFICES ASSUME IInv, ArmedInv, [Next]_vars PROVE ArmedInv'
  BY SysStepIsStep
<1>0. /\ pc \in [Threads -> {"idle", "config", "winsock", "init", "start", "wait",
                             "login", "failed", "store", "setup", "register",
                             "getchar", "malloc", "http", "serve", "unbind",
                             "logout0", "logout1", "cleanup", "run", "done"}]
      /\ armed \subseteq UserIds /\ callback \in BOOLEAN
  BY DEF IInv, TypeOK, SdkTypeOK
<1>1. ASSUME armed' \subseteq armed, callback' = callback \/ armed' = {},
             \/ pc'["Door"] = pc["Door"]
             \/ pc["Door"] \in {"idle", "init", "login", "setup", "cleanup"}
             \/ pc'["Door"] = "done"
      PROVE  ArmedInv'
  BY <1>1 DEF ArmedInv
<1>2. /\ NET_DVR_Init => UNCHANGED <<armed, callback>>
      /\ NET_DVR_Cleanup => armed' = {} \/ UNCHANGED <<armed, callback>>
      /\ \A a, u : LoginOK(a, u) => UNCHANGED <<armed, callback>>
      /\ \A u : NET_DVR_Logout(u) => armed' \subseteq armed /\ callback' = callback
      /\ CallFails => UNCHANGED <<armed, callback>>
  BY DEF NET_DVR_Init, NET_DVR_Cleanup, LoginOK, NET_DVR_Logout, CallFails, sdkVars
<1> USE <1>0, <1>1, <1>2 DEF Threads, Goto, sdkVars
<1>3. CASE ReadSection \/ TerminateList \/ StartWinsock \/ MainInit \/ JoinThreads
  BY <1>3 DEF ReadSection, TerminateList, StartWinsock, MainInit, JoinThreads
<1>4. ASSUME NEW t \in Threads, BeginThread(t) \/ HelperThread(t) PROVE ArmedInv'
  BY <1>4 DEF BeginThread, HelperThread
<1>5. CASE DoorInit \/ DoorLogin \/ DoorCleanup \/ DoorGetchar
  BY <1>5 DEF DoorInit, DoorLogin, DoorCleanup, DoorGetchar
<1>6. CASE DoorSetupAlarm
  BY <1>6 DEF DoorSetupAlarm, SetupAlarmChanOK, ArmedInv
<1>7. CASE DoorRegister
  BY <1>7 DEF DoorRegister, SetMessageCallBackOK, ArmedInv
<1>8. CASE EvInit \/ EvMalloc \/ EvLogin \/ EvLoginFailed \/ EvStore \/ EvLoopDone \/ EvBind
  BY <1>8 DEF EvInit, EvMalloc, EvLogin, EvLoginFailed, EvStore, EvLoopDone, EvBind
<1>9. CASE DispatchReturns \/ EvWSACleanup \/ EvLogout(0) \/ EvLogout(1) \/ EvCleanup
  BY <1>9 DEF DispatchReturns, EvWSACleanup, EvLogout, EvCleanup
<1>10. ASSUME NEW addr \in Addrs, ControlGateway(addr) PROVE ArmedInv'
  BY <1>10 DEF ControlGateway
<1>11. CASE UNCHANGED vars
  BY <1>11 DEF vars, threadVars
<1> HIDE DEF Threads, Goto, sdkVars
<1> QED
  BY <1>3, <1>4, <1>5, <1>6, <1>7, <1>8, <1>9, <1>10, <1>11, StepIsAction DEF Action

(* However the threads interleave, an event is lost only before the        *)
(* callback is registered, or after that failed.                           *)
THEOREM EventsLostThm == SysSpec => EventsLostOnlyUnregistered
<1>1. SysInit => ArmedInv
  BY DEF SysInit, Init, SdkInit, ArmedInv
<1>2. ArmedInv /\ [SysNext]_sysVars
        => [lost' /\ ~lost => pc["Door"] \in {"register", "done"}]_sysVars
  <2> SUFFICES ASSUME ArmedInv, SysNext, lost', ~lost
               PROVE  pc["Door"] \in {"register", "done"}
    OBVIOUS
  <2>1. EventLost
    BY DEF SysNext, SysStep, ThreadStep, ProcessStartsWinsock, ServerBinds, ServerFreed,
           ServerCleansUp, OtherStep, EventCalledBack, CallbackStep, reporterVars, sysVars
  <2> QED
    BY <2>1 DEF EventLost, ArmedInv
<1> QED
  BY <1>1, <1>2, ArmedStep, SystemRefinesGateway, Invariance, PTL
     DEF SysSpec, EventsLostOnlyUnregistered

-----------------------------------------------------------------------------
(* Winsock                                                                 *)

Busy == {c \in AlarmThreads : Active(c)}

WinsockTypes ==
    /\ at \in [AlarmThreads -> {"idle", "connect", "send", "recv", "close", "cleanup"}]
    /\ started \in [AlarmThreads -> BOOLEAN]
    /\ startups \in Nat /\ stray \in Nat /\ missed \in Nat

(* While no startup failed: who holds one, and what that keeps alive.      *)
Balanced ==
    /\ \A c \in Busy : started[c]
    /\ startups = winsock + Cardinality(Busy) + stray
    /\ pc["main"] \in {"config", "winsock"} => winsock = 0
    /\ pc["main"] \notin {"config", "winsock", "done"}
         /\ pc["ev"] \notin {"logout0", "logout1", "cleanup", "done"} => winsock = 1
    /\ pc["ev"] = "serve" => listener
    /\ \A c \in AlarmThreads : at[c] \in {"send", "recv", "close"} => c \in open

WinsockInv == WinsockTypes /\ (missed = 0 => Balanced)

(* At the start, nobody holds a startup. *)
LEMMA WinsockInit == SysInit => WinsockInv
<1> SUFFICES ASSUME SysInit PROVE WinsockInv
  OBVIOUS
<1>1. Busy = {}
  BY DEF SysInit, Busy, Active
<1>2. Cardinality(Busy) = 0
  BY <1>1, FS_EmptySet
<1> QED
  BY <1>1, <1>2 DEF SysInit, Init, Threads, WinsockInv, WinsockTypes, Balanced

(* A callback that comes or goes changes the number under way by one. *)
LEMMA BusyChanges ==
    ASSUME at \in [AlarmThreads -> {"idle", "connect", "send", "recv", "close", "cleanup"}],
           NEW c \in AlarmThreads, NEW p, at' = [at EXCEPT ![c] = p]
    PROVE  /\ Cardinality(Busy) \in Nat
           /\ at[c] # "idle" /\ p # "idle" => Busy' = Busy
           /\ at[c] = "idle" /\ p # "idle" =>
                  Busy' = Busy \cup {c} /\ Cardinality(Busy') = Cardinality(Busy) + 1
           /\ at[c] # "idle" /\ p = "idle" =>
                  /\ Busy' = Busy \ {c} /\ Cardinality(Busy') = Cardinality(Busy) - 1
                  /\ Cardinality(Busy) > 0
<1>1. IsFiniteSet(Busy)
  BY SystemAssumption, FS_Subset DEF Busy
<1>2. Cardinality(Busy) \in Nat
  BY <1>1, FS_CardinalityType
<1>3. ASSUME at[c] # "idle", p # "idle" PROVE Busy' = Busy
  BY <1>3 DEF Busy, Active
<1>4. ASSUME at[c] = "idle", p # "idle"
      PROVE  Busy' = Busy \cup {c} /\ Cardinality(Busy') = Cardinality(Busy) + 1
  <2>1. Busy' = Busy \cup {c} /\ c \notin Busy
    BY <1>4 DEF Busy, Active
  <2> QED
    BY <1>1, <2>1, FS_AddElement
<1>5. ASSUME at[c] # "idle", p = "idle"
      PROVE  /\ Busy' = Busy \ {c} /\ Cardinality(Busy') = Cardinality(Busy) - 1
             /\ Cardinality(Busy) > 0
  <2>1. Busy' = Busy \ {c} /\ c \in Busy
    BY <1>5 DEF Busy, Active
  <2>2. Cardinality(Busy') = Cardinality(Busy) - 1
    BY <1>1, <2>1, FS_RemoveElement
  <2>3. Cardinality(Busy) # 0
    BY <1>1, <2>1, FS_EmptySet
  <2> QED
    BY <1>2, <2>1, <2>2, <2>3
<1> QED
  BY <1>2, <1>3, <1>4, <1>5

(* What the callbacks' code does to the shared Winsock. *)
LEMMA CallbackMoves ==
    ASSUME WinsockTypes, NEW c \in AlarmThreads,
           Reporter!CM_AlarmCallBack(c) \/ Reporter!Work(c) \/ Reporter!Recv(c)
    PROVE  \/ \E up \in BOOLEAN :                              \* called
                 /\ at[c] = "idle"
                 /\ \/ at' = [at EXCEPT ![c] = "connect"] /\ UNCHANGED stray
                    \/ UNCHANGED at /\ stray' = stray + (IF up THEN 1 ELSE 0)
                 /\ started' = [started EXCEPT ![c] = up]
                 /\ startups' = startups + (IF up THEN 1 ELSE 0)
                 /\ missed' = missed + (IF up THEN 0 ELSE 1)
                 /\ UNCHANGED <<open, listener>>
           \/ /\ at[c] = "connect"                             \* connected
              /\ at' = [at EXCEPT ![c] = "send"] /\ open' = open \cup {c}
              /\ UNCHANGED <<started, startups, stray, missed, listener>>
           \/ /\ at[c] = "connect"                             \* not connected
              /\ at' = [at EXCEPT ![c] = "idle"]
              /\ stray' = stray + (IF started[c] THEN 1 ELSE 0)
              /\ UNCHANGED <<started, startups, missed, listener, open>>
           \/ /\ at[c] \in {"send", "recv"}                    \* posted, answered
              /\ \E p \in {"recv", "close"} : at' = [at EXCEPT ![c] = p]
              /\ UNCHANGED <<started, startups, stray, missed, listener, open>>
           \/ /\ at[c] = "close"                               \* closed
              /\ at' = [at EXCEPT ![c] = "cleanup"] /\ open' = open \ {c}
              /\ UNCHANGED <<started, startups, stray, missed, listener>>
           \/ /\ at[c] = "cleanup"                             \* cleaned up
              /\ at' = [at EXCEPT ![c] = "idle"]
              /\ Reporter!Release
              /\ UNCHANGED <<started, stray, missed>>
<1> USE DEF WinsockTypes, Reporter!Goto, Reporter!counters
<1>1. CASE Reporter!CM_AlarmCallBack(c)
  BY <1>1 DEF Reporter!CM_AlarmCallBack, Reporter!Called, Reporter!Leave
<1>2. CASE Reporter!Connect(c)
  BY <1>2 DEF Reporter!Connect, Reporter!Leave
<1>3. CASE Reporter!Send(c) \/ Reporter!SkipSend(c) \/ Reporter!Recv(c)
  BY <1>3 DEF Reporter!Send, Reporter!SkipSend, Reporter!Recv
<1>4. CASE Reporter!Close(c)
  BY <1>4 DEF Reporter!Close
<1>5. CASE Reporter!WSACleanup(c)
  BY <1>5 DEF Reporter!WSACleanup
<1> QED
  BY <1>1, <1>2, <1>3, <1>4, <1>5 DEF Reporter!Work

(* A callback takes its own startup with it, and no socket of others. *)
LEMMA CallbackKeeps ==
    ASSUME WinsockInv, TypeOK, UNCHANGED vars, NEW c \in AlarmThreads,
           Reporter!CM_AlarmCallBack(c) \/ Reporter!Work(c) \/ Reporter!Recv(c),
           pc["ev"] = "serve" => pc["main"] \notin {"config", "winsock", "done"}
    PROVE  WinsockInv'
<1> DEFINE Moves(p) == at' = [at EXCEPT ![c] = p]
<1>0. WinsockTypes /\ UNCHANGED <<pc, winsock>> /\ winsock \in Nat
  BY DEF WinsockInv, vars, threadVars, TypeOK
<1>1. Cardinality(Busy) \in Nat
  <2>1. IsFiniteSet(Busy)
    BY SystemAssumption, FS_Subset DEF Busy
  <2> QED
    BY <2>1, FS_CardinalityType
<1>2. /\ startups \in Nat /\ stray \in Nat /\ missed \in Nat
      /\ missed = 0 => startups = winsock + Cardinality(Busy) + stray
  BY <1>0 DEF WinsockTypes, WinsockInv, Balanced
<1>3. ASSUME NEW up \in BOOLEAN, at[c] = "idle",
             \/ Moves("connect") /\ UNCHANGED stray
             \/ UNCHANGED at /\ stray' = stray + (IF up THEN 1 ELSE 0),
             started' = [started EXCEPT ![c] = up],
             startups' = startups + (IF up THEN 1 ELSE 0),
             missed' = missed + (IF up THEN 0 ELSE 1),
             UNCHANGED <<open, listener>>
      PROVE  WinsockInv'
  <2>1. WinsockTypes'
    <3>1. /\ at' \in [AlarmThreads -> {"idle", "connect", "send", "recv", "close", "cleanup"}]
          /\ started' \in [AlarmThreads -> BOOLEAN]
      BY <1>0, <1>3 DEF WinsockTypes
    <3>2. startups' \in Nat /\ stray' \in Nat /\ missed' \in Nat
      BY <1>2, <1>3
    <3> QED
      BY <3>1, <3>2 DEF WinsockTypes
  <2>2. ASSUME missed' = 0 PROVE Balanced'
    <3>1. up /\ missed = 0 /\ startups' = startups + 1
      <4>1. CASE up
        BY <1>2, <1>3, <2>2, <4>1
      <4>2. CASE ~up
        BY <1>2, <1>3, <2>2, <4>2
      <4> QED
        BY <4>1, <4>2
    <3>2. started'[c] /\ \A d \in AlarmThreads : d # c => started'[d] = started[d]
      BY <1>0, <1>3, <3>1 DEF WinsockTypes
    <3>3. CASE Moves("connect") /\ UNCHANGED stray
      <4>1. Busy' = Busy \cup {c} /\ Cardinality(Busy') = Cardinality(Busy) + 1
        BY <1>0, <1>3, <3>3, BusyChanges DEF WinsockTypes
      <4>2. startups' = winsock + Cardinality(Busy') + stray'
        BY <1>0, <1>1, <1>2, <3>1, <3>3, <4>1
      <4> QED
        BY <1>0, <1>3, <3>1, <3>2, <3>3, <4>1, <4>2
           DEF WinsockInv, WinsockTypes, Balanced, Busy
    <3>4. CASE UNCHANGED at /\ stray' = stray + 1
      <4>1. Busy' = Busy
        BY <3>4 DEF Busy, Active
      <4>2. startups' = winsock + Cardinality(Busy') + stray'
        BY <1>0, <1>1, <1>2, <3>1, <3>4, <4>1
      <4> QED
        BY <1>0, <1>3, <3>1, <3>2, <3>4, <4>1, <4>2
           DEF WinsockInv, Balanced, Busy
    <3> QED
      BY <1>3, <3>1, <3>3, <3>4
  <2> QED
    BY <2>1, <2>2 DEF WinsockInv
<1>4. ASSUME at[c] # "idle", NEW p \in {"send", "recv", "close", "cleanup"}, Moves(p),
             UNCHANGED <<started, startups, stray, missed, listener>>,
             \A d \in AlarmThreads : d # c => (d \in open <=> d \in open'),
             p \in {"send", "recv", "close"} =>
                \/ c \in open'
                \/ at[c] \in {"send", "recv"} /\ open' = open
      PROVE  WinsockInv'
  <2>1. Busy' = Busy
    BY <1>0, <1>4, BusyChanges DEF WinsockTypes
  <2>2. WinsockTypes'
    BY <1>0, <1>4 DEF WinsockTypes
  <2> QED
    BY <1>0, <1>4, <2>1, <2>2 DEF WinsockInv, WinsockTypes, Balanced
<1>5. ASSUME at[c] = "connect", Moves("idle"),
             stray' = stray + (IF started[c] THEN 1 ELSE 0),
             UNCHANGED <<started, startups, missed, listener, open>>
      PROVE  WinsockInv'
  <2>1. /\ Busy' = Busy \ {c} /\ Cardinality(Busy') = Cardinality(Busy) - 1
        /\ Cardinality(Busy) > 0
    BY <1>0, <1>5, BusyChanges DEF WinsockTypes
  <2>2. WinsockTypes'
    BY <1>0, <1>5 DEF WinsockTypes
  <2>3. ASSUME missed = 0 PROVE stray' = stray + 1
    BY <1>5, <2>3 DEF WinsockInv, Balanced, Busy, Active
  <2>4. missed = 0 => startups' = winsock + Cardinality(Busy') + stray'
    BY <1>0, <1>1, <1>2, <1>5, <2>1, <2>3
  <2> QED
    BY <1>0, <1>5, <2>1, <2>2, <2>4 DEF WinsockInv, WinsockTypes, Balanced
<1>6. ASSUME at[c] = "cleanup", Moves("idle"), Reporter!Release,
             UNCHANGED <<started, stray, missed>>
      PROVE  WinsockInv'
  <2>1. /\ Busy' = Busy \ {c} /\ Cardinality(Busy') = Cardinality(Busy) - 1
        /\ Cardinality(Busy) > 0
    BY <1>0, <1>6, BusyChanges DEF WinsockTypes
  <2>2. startups' \in Nat
    BY <1>2, <1>6 DEF Reporter!Release
  <2>3. WinsockTypes'
    BY <1>0, <1>6, <2>2 DEF WinsockTypes
  <2>4. ASSUME missed = 0 PROVE Balanced'
    <3>1. startups = winsock + Cardinality(Busy) + stray /\ startups > 0
      BY <1>0, <1>1, <1>2, <2>1, <2>4
    <3>2. startups' = startups - 1
      BY <1>6, <3>1 DEF Reporter!Release
    <3>3. startups' = winsock + Cardinality(Busy') + stray'
      BY <1>0, <1>1, <1>2, <1>6, <2>1, <3>1, <3>2
    <3>4. pc["ev"] = "serve" => listener'
      <4> SUFFICES ASSUME pc["ev"] = "serve" PROVE listener'
        OBVIOUS
      <4>1. winsock = 1 /\ listener
        BY <2>4 DEF WinsockInv, Balanced
      <4>2. startups > 1
        BY <1>1, <1>2, <2>1, <3>1, <4>1
      <4>3. listener' = listener
        BY <1>6, <4>2 DEF Reporter!Release
      <4> QED
        BY <4>1, <4>3, Zenon
    <3>5. ASSUME NEW d \in AlarmThreads, at'[d] \in {"send", "recv", "close"}
          PROVE  d \in open'
      <4>1. d # c /\ at'[d] = at[d] /\ d \in open /\ d \in Busy'
        BY <1>0, <1>6, <2>4, <3>5 DEF WinsockTypes, WinsockInv, Balanced, Busy, Active
      <4>2. Cardinality(Busy') > 0
        <5>1. IsFiniteSet(Busy')
          BY <2>1, SystemAssumption, FS_Subset DEF Busy
        <5> QED
          BY <4>1, <5>1, FS_EmptySet, FS_CardinalityType
      <4>3. startups > 1
        BY <1>0, <1>1, <1>2, <2>1, <3>1, <4>2
      <4> QED
        BY <1>6, <4>1, <4>3 DEF Reporter!Release
    <3>6. \A d \in Busy' : started'[d]
      BY <1>6, <2>1, <2>4 DEF WinsockInv, Balanced
    <3> QED
      BY <1>0, <2>4, <3>3, <3>4, <3>5, <3>6 DEF WinsockInv, Balanced
  <2> QED
    BY <1>6, <2>3, <2>4 DEF WinsockInv
<1> QED
  <2> HIDE DEF WinsockInv
  <2>1. CASE /\ at[c] = "connect" /\ Moves("send") /\ open' = open \cup {c}
             /\ UNCHANGED <<started, startups, stray, missed, listener>>
    <3>1. Busy' = Busy
      BY <1>0, <2>1, BusyChanges DEF WinsockTypes
    <3>2. WinsockTypes'
      BY <1>0, <2>1 DEF WinsockTypes
    <3> QED
      BY <1>0, <2>1, <3>1, <3>2 DEF WinsockInv, WinsockTypes, Balanced
  <2>2. CASE /\ at[c] \in {"send", "recv"}
             /\ \E p \in {"recv", "close"} : Moves(p)
             /\ UNCHANGED <<started, startups, stray, missed, listener, open>>
    BY <1>4, <2>2
  <2>3. CASE /\ at[c] = "close" /\ Moves("cleanup") /\ open' = open \ {c}
             /\ UNCHANGED <<started, startups, stray, missed, listener>>
    BY <1>4, <2>3
  <2> QED
    BY <1>0, <1>3, <1>5, <1>6, <2>1, <2>2, <2>3, CallbackMoves

(* How main and the server thread move between the places where Winsock    *)
(* matters.                                                                *)
LEMMA OtherMoves ==
    ASSUME IInv, OtherStep
    PROVE  /\ UNCHANGED <<winsock, reporterVars>>
           /\ pc["main"] \in {"config", "winsock"} \/ pc'["main"] \notin {"config", "winsock"}
           /\ pc'["main"] \notin {"config", "winsock", "done"} =>
                  pc["main"] \notin {"config", "winsock", "done"}
           /\ pc'["ev"] = "serve" => pc["ev"] = "serve"
           /\ pc'["ev"] \notin {"logout0", "logout1", "cleanup", "done"} =>
                  pc["ev"] \notin {"logout0", "logout1", "cleanup", "done"}
<1>0. pc \in [Threads -> {"idle", "config", "winsock", "init", "start", "wait",
                          "login", "failed", "store", "setup", "register",
                          "getchar", "malloc", "http", "serve", "unbind",
                          "logout0", "logout1", "cleanup", "run", "done"}]
  BY DEF IInv, TypeOK
<1>1. UNCHANGED reporterVars
  BY DEF OtherStep
<1> USE <1>0, <1>1 DEF Threads, Goto, mainVars
<1>2. CASE ReadSection \/ TerminateList \/ MainInit \/ JoinThreads
  BY <1>2 DEF ReadSection, TerminateList, MainInit, JoinThreads
<1>3. ASSUME NEW t \in Threads, BeginThread(t) \/ HelperThread(t)
      PROVE  /\ UNCHANGED winsock
             /\ pc["main"] \in {"config", "winsock"} \/ pc'["main"] \notin {"config", "winsock"}
             /\ pc'["main"] \notin {"config", "winsock", "done"} =>
                    pc["main"] \notin {"config", "winsock", "done"}
             /\ pc'["ev"] = "serve" => pc["ev"] = "serve"
             /\ pc'["ev"] \notin {"logout0", "logout1", "cleanup", "done"} =>
                    pc["ev"] \notin {"logout0", "logout1", "cleanup", "done"}
  BY <1>3 DEF BeginThread, HelperThread
<1>4. CASE Door \/ DoorGetchar
  BY <1>4 DEF Door, DoorInit, DoorLogin, DoorCleanup, DoorSetupAlarm, DoorRegister, DoorGetchar
<1>5. CASE EvInit \/ EvMalloc \/ EvLogin \/ EvLoginFailed \/ EvStore \/ EvLoopDone
  BY <1>5 DEF EvInit, EvMalloc, EvLogin, EvLoginFailed, EvStore, EvLoopDone
<1>6. CASE EvLogout(0) \/ EvLogout(1) \/ EvCleanup
  BY <1>6 DEF EvLogout, EvCleanup
<1>7. ASSUME NEW addr \in Addrs, ControlGateway(addr) PROVE UNCHANGED <<winsock, pc>>
  BY <1>7 DEF ControlGateway
<1> QED
  BY <1>2, <1>3, <1>4, <1>5, <1>6, <1>7 DEF OtherStep

(* Main's startup is the server thread's to give back, once. *)
LEMMA ThreadKeeps ==
    ASSUME IInv, WinsockInv, ThreadStep, ~Ended
    PROVE  WinsockInv'
<1>0. /\ WinsockTypes /\ winsock \in Nat /\ Cardinality(Busy) \in Nat
      /\ pc \in [Threads -> {"idle", "config", "winsock", "init", "start", "wait",
                             "login", "failed", "store", "setup", "register",
                             "getchar", "malloc", "http", "serve", "unbind",
                             "logout0", "logout1", "cleanup", "run", "done"}]
      /\ pc["main"] # "done"
      /\ pc["ev"] # "idle" => pc["main"] \notin {"config", "winsock", "done"}
  <2>1. IsFiniteSet(Busy)
    BY SystemAssumption, FS_Subset DEF Busy
  <2> QED
    BY <2>1, FS_CardinalityType
       DEF WinsockInv, IInv, TypeOK, MainInv, Ended, Threads
<1>1. /\ startups \in Nat /\ stray \in Nat /\ missed \in Nat
      /\ missed = 0 => startups = winsock + Cardinality(Busy) + stray
  BY <1>0 DEF WinsockTypes, WinsockInv, Balanced
<1>2. ASSUME UNCHANGED <<at, started>> PROVE Busy' = Busy
  BY <1>2 DEF Busy, Active
<1> USE <1>0 DEF Threads, Goto, callbackVars, winsockVars
<1>3. CASE ProcessStartsWinsock
  <2>1. /\ pc["main"] = "winsock" /\ pc' = [pc EXCEPT !["main"] = "init"]
        /\ winsock' \in {0, 1} /\ startups' = startups + winsock'
        /\ missed' = missed + 1 - winsock'
        /\ UNCHANGED <<at, started, listener, open, stray>>
    BY <1>3 DEF ProcessStartsWinsock, StartWinsock
  <2>2. startups' \in Nat /\ missed' \in Nat
    <3>1. CASE winsock' = 0
      <4>1. startups' = startups + 0 /\ missed' = missed + 1 - 0
        BY <2>1, <3>1
      <4> QED
        BY <1>1, <4>1
    <3>2. CASE winsock' = 1
      <4>1. startups' = startups + 1 /\ missed' = missed + 1 - 1
        BY <2>1, <3>2
      <4> QED
        BY <1>1, <4>1
    <3> QED
      BY <2>1, <3>1, <3>2
  <2>3. WinsockTypes'
    BY <1>0, <2>1, <2>2 DEF WinsockTypes
  <2>4. ASSUME missed' = 0 PROVE Balanced'
    <3>1. winsock' = 1 /\ missed = 0
      <4>1. CASE winsock' = 0
        <5>1. missed' = missed + 1 - 0
          BY <2>1, <4>1
        <5> QED
          BY <1>1, <2>4, <5>1
      <4>2. CASE winsock' = 1
        <5>1. missed' = missed + 1 - 1
          BY <2>1, <4>2
        <5> QED
          BY <1>1, <2>4, <4>2, <5>1
      <4> QED
        BY <2>1, <4>1, <4>2
    <3>2. winsock' = 1 /\ missed = 0 /\ winsock = 0
      BY <2>1, <3>1 DEF WinsockInv, Balanced
    <3>3. startups' = winsock' + Cardinality(Busy') + stray'
      BY <1>1, <1>2, <2>1, <3>2
    <3> QED
      BY <1>2, <2>1, <3>2, <3>3 DEF WinsockInv, Balanced
  <2> QED
    BY <2>3, <2>4 DEF WinsockInv
<1>4. CASE ServerBinds
  <2>1. /\ pc["ev"] = "http" /\ pc'["ev"] \in {"serve", "done"} /\ pc'["main"] = pc["main"]
        /\ listener' = (pc'["ev"] = "serve")
        /\ UNCHANGED <<winsock, startups, at, started, open, stray, missed>>
    BY <1>4 DEF ServerBinds, EvBind, mainVars
  <2>2. pc'["ev"] = "serve" => listener'
    BY <2>1, Zenon
  <2> QED
    BY <1>2, <2>1, <2>2 DEF WinsockInv, WinsockTypes, Balanced
<1>5. CASE ServerFreed
  <2>1. /\ pc["ev"] = "serve" /\ pc'["ev"] = "unbind" /\ pc'["main"] = pc["main"]
        /\ UNCHANGED <<winsock, startups, at, started, open, stray, missed>>
    BY <1>5 DEF ServerFreed, DispatchReturns, mainVars
  <2> QED
    BY <1>2, <2>1 DEF WinsockInv, WinsockTypes, Balanced
<1>6. CASE ServerCleansUp
  <2>1. /\ pc["ev"] = "unbind" /\ pc'["ev"] = "logout0" /\ pc'["main"] = pc["main"]
        /\ winsock' = IF winsock = 0 THEN 0 ELSE winsock - 1
        /\ UNCHANGED <<at, started, stray, missed>>
        /\ Reporter!Release
    BY <1>6 DEF ServerCleansUp, EvWSACleanup
  <2>2. startups' \in Nat
    BY <1>1, <2>1 DEF Reporter!Release
  <2>3. WinsockTypes'
    BY <2>1, <2>2 DEF WinsockTypes
  <2>4. ASSUME missed = 0 PROVE Balanced'
    <3>1. winsock = 1 /\ winsock' = 0
      BY <2>1, <2>4 DEF WinsockInv, Balanced
    <3>2. startups > 0 /\ startups' = startups - 1
      BY <1>1, <2>1, <2>4, <3>1 DEF Reporter!Release
    <3>3. startups' = winsock' + Cardinality(Busy') + stray'
      BY <1>1, <1>2, <2>1, <2>4, <3>1, <3>2
    <3>4. ASSUME NEW d \in AlarmThreads, at[d] \in {"send", "recv", "close"}
          PROVE  d \in open'
      <4>1. d \in open /\ d \in Busy
        BY <2>4, <3>4 DEF WinsockInv, Balanced, Busy, Active
      <4>2. Cardinality(Busy) > 0
        <5>1. IsFiniteSet(Busy)
          BY SystemAssumption, FS_Subset DEF Busy
        <5> QED
          BY <4>1, <5>1, FS_EmptySet
      <4>3. startups > 1
        BY <1>1, <2>4, <3>1, <4>2
      <4> QED
        BY <2>1, <4>1, <4>3 DEF Reporter!Release
    <3> QED
      BY <1>2, <2>1, <2>4, <3>1, <3>3, <3>4 DEF WinsockInv, Balanced
  <2> QED
    BY <2>1, <2>3, <2>4 DEF WinsockInv
<1>7. CASE OtherStep
  BY <1>2, <1>7, OtherMoves DEF WinsockInv, WinsockTypes, Balanced, reporterVars
<1> QED
  BY <1>3, <1>4, <1>5, <1>6, <1>7 DEF ThreadStep

(* Threads and callbacks together. *)
LEMMA WinsockStep == IInv /\ WinsockInv /\ [SysNext]_sysVars => WinsockInv'
<1> SUFFICES ASSUME IInv, WinsockInv, [SysNext]_sysVars PROVE WinsockInv'
  OBVIOUS
<1>1. CASE UNCHANGED sysVars
  BY <1>1 DEF sysVars, vars, threadVars, reporterVars, callbackVars, winsockVars,
              WinsockInv, WinsockTypes, Balanced, Busy, Active
<1>2. CASE EventLost
  BY <1>2 DEF EventLost, vars, threadVars, callbackVars, winsockVars,
              WinsockInv, WinsockTypes, Balanced, Busy, Active
<1>3. ASSUME NEW c \in AlarmThreads, EventCalledBack(c) \/ CallbackStep(c), ~Ended
      PROVE  WinsockInv'
  <2>1. pc["ev"] = "serve" => pc["main"] \notin {"config", "winsock", "done"}
    BY <1>3 DEF IInv, MainInv, Ended, Threads
  <2>2. /\ UNCHANGED vars
        /\ Reporter!CM_AlarmCallBack(c) \/ Reporter!Work(c) \/ Reporter!Recv(c)
    BY <1>3 DEF EventCalledBack, CallbackStep
  <2> QED
    BY <2>1, <2>2, CallbackKeeps DEF IInv
<1> QED
  BY <1>1, <1>2, <1>3, ThreadKeeps DEF SysNext, SysStep

(* The invariant behind the sharing of Winsock. *)
THEOREM WinsockInvariance == SysSpec => []WinsockInv
  BY WinsockInit, WinsockStep, SystemRefinesGateway, Invariance, PTL DEF SysSpec

(* For every number of doors, library threads and events, each startup of  *)
(* Winsock is held by somebody or lost with a callback that left early,    *)
(* while none failed.                                                      *)
THEOREM StartupsBalance == SysSpec => []StartupsBalanced
<1>1. WinsockInv => StartupsBalanced
  BY DEF WinsockInv, Balanced, StartupsBalanced, Busy
<1> QED
  BY <1>1, WinsockInvariance, PTL

(* For all of them, the HTTP server and the callbacks never lose a socket  *)
(* to each other's cleanups.                                               *)
THEOREM NobodyIsCutOff == SysSpec => []NobodyCutOff
<1>1. IInv /\ WinsockInv => NobodyCutOff
  BY DEF WinsockInv, Balanced, NobodyCutOff
<1> QED
  BY <1>1, WinsockInvariance, Invariance, SystemRefinesGateway, PTL

(* What was proved of Gateway alone holds with the callbacks beside it:    *)
(* a command for a configured door reaches that door or none, and the      *)
(* alarm channel outlives the server's failed logins.                      *)
THEOREM SystemKeepsDoors == SysSpec => [](NoMisdirectedCommand /\ AlarmKept)
  BY SystemRefinesGateway, CommandsReachTheirDoor, AlarmSurvives, PTL

(* And so does the promise to those who operate doors, as far as it says   *)
(* what may happen: callbacks coming and going break no part of it.        *)
THEOREM SystemKeepsDoorPromise ==
    ASSUME HeapFill \cap UserIds = {}
    PROVE  SysSpec /\ []HandlesSafe => Doors!Safety
  BY SystemRefinesGateway, ServerKeepsPromiseWhileSafe, PTL

-----------------------------------------------------------------------------
(* Reports                                                                 *)

(* The callbacks of the process are those of AlarmReporter, without cars:  *)
(* what its proofs say of one step holds here of each callback's.          *)
Reports == INSTANCE AlarmReporterProofs
    WITH CarThreads <- {}, count <- events, pc <- at, winsock <- startups

(* Its assumption on the threads holds of the process's. *)
LEMMA CallbacksAreReporters == Reports!ReporterAssumption
  BY SystemAssumption, FS_EmptySet
     DEF Reports!ReporterAssumption, IsFiniteSet, Reports!IsFiniteSet

(* A callback's step is one of AlarmReporter. *)
LEMMA CallbackReports ==
    ASSUME NEW c \in AlarmThreads, EventCalledBack(c) \/ CallbackStep(c)
    PROVE  Reports!Next
<1>1. c \in Reports!Callbacks
  BY DEF Reports!Callbacks
<1>2. CASE EventCalledBack(c)
  <2>1. Reports!CM_AlarmCallBack(c)
    BY <1>2 DEF EventCalledBack, Reporter!CM_AlarmCallBack, Reporter!Goto, Reporter!Called,
                Reporter!Leave, Reports!CM_AlarmCallBack, Reports!Goto, Reports!Called,
                Reports!Leave
  <2> QED
    BY <1>1, <2>1 DEF Reports!Next
<1>3. CASE CallbackStep(c)
  <2> USE DEF Reporter!Goto, Reporter!Leave, Reporter!counters,
              Reports!Goto, Reports!Leave, Reports!counters
  <2>1. Reporter!Connect(c) => Reports!Connect(c)
    BY DEF Reporter!Connect, Reports!Connect
  <2>2. Reporter!Send(c) => Reports!Send(c)
    BY DEF Reporter!Send, Reports!Send, Reporter!Url, Reports!Url
  <2>3. Reporter!SkipSend(c) => Reports!SkipSend(c)
    BY DEF Reporter!SkipSend, Reports!SkipSend
  <2>4. Reporter!Recv(c) => Reports!Recv(c)
    BY DEF Reporter!Recv, Reports!Recv
  <2>5. Reporter!Close(c) => Reports!Close(c)
    BY DEF Reporter!Close, Reports!Close
  <2>6. Reporter!WSACleanup(c) => Reports!WSACleanup(c)
    BY DEF Reporter!WSACleanup, Reporter!Release, Reports!WSACleanup, Reports!Release
  <2> QED
    BY <1>1, <1>3, <2>1, <2>2, <2>3, <2>4, <2>5, <2>6
       DEF CallbackStep, Reporter!Work, Reports!Work, Reports!Next
<1> QED
  BY <1>2, <1>3

(* The threads leave the callbacks' own state alone, and close sockets     *)
(* without making new ones.                                                *)
LEMMA ThreadsReportNothing ==
    ASSUME Reports!TypeOK, ThreadStep \/ EventLost \/ UNCHANGED sysVars
    PROVE  /\ UNCHANGED <<callbackVars, stray>>
           /\ orphans' \in {0, orphans} /\ missed' \in {missed, missed + 1}
           /\ open' \in {{}, open} /\ startups' \in Nat /\ listener' \in BOOLEAN
<1>0. /\ orphans \in Nat /\ missed \in Nat /\ startups \in Nat /\ listener \in BOOLEAN
  BY DEF Reports!TypeOK
<1> USE <1>0
<1>1. CASE ProcessStartsWinsock
  <2>1. /\ winsock' \in {0, 1} /\ startups' = startups + winsock'
        /\ missed' = missed + 1 - winsock'
        /\ UNCHANGED <<callbackVars, stray, orphans, open, listener>>
    BY <1>1 DEF ProcessStartsWinsock, StartWinsock
  <2>2. startups' \in Nat /\ missed' \in {missed, missed + 1}
    <3>1. CASE winsock' = 0
      <4>1. startups' = startups + 0 /\ missed' = missed + 1 - 0
        BY <2>1, <3>1
      <4> QED
        BY <4>1
    <3>2. CASE winsock' = 1
      <4>1. startups' = startups + 1 /\ missed' = missed + 1 - 1
        BY <2>1, <3>2
      <4> QED
        BY <4>1
    <3> QED
      BY <2>1, <3>1, <3>2
  <2>3. listener' \in BOOLEAN
    BY <2>1
  <2> QED
    BY <2>1, <2>2, <2>3
<1>2. CASE ServerBinds \/ ServerFreed
  <2>1. /\ UNCHANGED <<callbackVars, startups, open, orphans, stray, missed>>
        /\ \/ listener' = (pc'["ev"] = "serve") \/ listener' = FALSE
    BY <1>2 DEF ServerBinds, ServerFreed
  <2>2. listener' \in BOOLEAN
    BY <2>1, Zenon
  <2> QED
    BY <2>1, <2>2
<1>3. CASE ServerCleansUp
  <2>1. UNCHANGED <<callbackVars, stray, missed>> /\ Reporter!Release
    BY <1>3 DEF ServerCleansUp
  <2>2. startups' \in Nat
    BY <2>1 DEF Reporter!Release
  <2>3. listener' \in BOOLEAN
    BY <2>1 DEF Reporter!Release
  <2>4. orphans' \in {0, orphans} /\ open' \in {{}, open}
    BY <2>1 DEF Reporter!Release
  <2> QED
    BY <2>1, <2>2, <2>3, <2>4
<1>4. CASE OtherStep \/ EventLost \/ UNCHANGED sysVars
  BY <1>4 DEF OtherStep, EventLost, reporterVars, winsockVars, sysVars
<1> QED
  BY <1>1, <1>2, <1>3, <1>4 DEF ThreadStep

(* At the start, nothing is reported and nothing lost. *)
LEMMA ReportsInit == SysInit => Reports!LeakInv
<1> SUFFICES ASSUME SysInit PROVE Reports!LeakInv
  OBVIOUS
<1>0. 0 \in 0 .. MaxEvents
  BY SystemAssumption
<1> USE DEF SysInit, Reports!Callbacks, Reports!Events, Reports!Urls, Reporter!Urls
<1>1. Reports!TypeOK
  BY <1>0 DEF Reports!TypeOK, Reports!AlarmKinds, Reports!CarKinds
<1>2. Reports!Busy = {} /\ Reports!Unstarted = {}
  BY DEF Reports!Busy, Reports!Active, Reports!Unstarted
<1>3. Reports!EventInv /\ Reports!PostedAtMostOnce
  BY <1>2 DEF Reports!EventInv, Reports!PostedAtMostOnce
<1>4. /\ Reports!Cardinality(Reports!Unstarted) = 0
      /\ Reports!Cardinality(Reports!Lost) \in Nat
  BY <1>2, CallbacksAreReporters, Reports!LeakSetsFinite, Reports!FS_EmptySet
<1> QED
  BY <1>1, <1>3, <1>4 DEF Reports!LeakInv, Reports!PostInv

(* The leaks stay paid for, whoever takes the step. *)
LEMMA ReportsStep == Reports!LeakInv /\ [SysNext]_sysVars => Reports!LeakInv'
<1> SUFFICES ASSUME Reports!LeakInv, [SysNext]_sysVars PROVE Reports!LeakInv'
  OBVIOUS
<1>0. Reports!TypeOK /\ Reports!EventInv /\ Reports!PostedAtMostOnce
  BY DEF Reports!LeakInv, Reports!PostInv
<1>1. CASE \E c \in AlarmThreads : EventCalledBack(c) \/ CallbackStep(c)
  BY <1>1, CallbackReports, CallbacksAreReporters, Reports!LeakStep
<1>2. CASE ThreadStep \/ EventLost \/ UNCHANGED sysVars
  <2>1. /\ UNCHANGED <<kind, events, at, cur, started, posted, stray>>
        /\ orphans' \in {0, orphans} /\ missed' \in {missed, missed + 1}
        /\ open' \in {{}, open} /\ startups' \in Nat /\ listener' \in BOOLEAN
    BY <1>0, <1>2, ThreadsReportNothing DEF callbackVars
  <2>2. /\ Reports!Unstarted' = Reports!Unstarted /\ Reports!Lost' = Reports!Lost
        /\ Reports!Busy' = Reports!Busy
    BY <2>1 DEF Reports!Unstarted, Reports!Lost, Reports!Unposted, Reports!Busy,
                Reports!Active
  <2>3. Reports!TypeOK'
    BY <1>0, <2>1 DEF Reports!TypeOK
  <2>4. Reports!EventInv' /\ Reports!PostedAtMostOnce'
    BY <1>0, <2>1, <2>2 DEF Reports!EventInv, Reports!PostedAtMostOnce
  <2>5. /\ orphans' + Reports!Cardinality(Reports!Unstarted') <= stray' + missed'
        /\ stray' <= Reports!Cardinality(Reports!Lost')
    <3>1. /\ orphans + Reports!Cardinality(Reports!Unstarted) <= stray + missed
          /\ stray <= Reports!Cardinality(Reports!Lost)
      BY DEF Reports!LeakInv
    <3>2. /\ Reports!Cardinality(Reports!Unstarted) \in Nat
          /\ orphans \in Nat /\ stray \in Nat /\ missed \in Nat
      BY <1>0, CallbacksAreReporters, Reports!LeakSetsFinite DEF Reports!TypeOK
    <3> QED
      BY <2>1, <2>2, <3>1, <3>2
  <2> QED
    BY <2>3, <2>4, <2>5 DEF Reports!LeakInv, Reports!PostInv
<1> QED
  BY <1>1, <1>2 DEF SysNext, SysStep

(* In the whole process, too, whatever the threads do meanwhile, an event  *)
(* is posted at most once.                                                 *)
THEOREM SystemPostsOnce == SysSpec => []Reporter!PostedAtMostOnce
<1>1. Reports!LeakInv => Reporter!PostedAtMostOnce
  BY DEF Reports!LeakInv, Reports!PostInv, Reports!PostedAtMostOnce, Reports!Events,
         Reports!Urls, Reports!Url, Reporter!PostedAtMostOnce, Reporter!Events,
         Reporter!Urls, Reporter!Url
<1> QED
  BY <1>1, ReportsInit, ReportsStep, PTL DEF SysSpec

(* And whichever startups fail, main's included, a startup or a socket     *)
(* that is left behind is the trace of an event that was not posted; the   *)
(* server's shutdown takes the sockets, but no startup is lost by it.      *)
THEOREM SystemLeaksAreLosses == SysSpec => []Reporter!LeaksAreLosses
<1>1. Reports!LeakInv => Reports!LeaksAreLosses
  BY CallbacksAreReporters, Reports!LeakInvImplies
<1>2. Reports!LeaksAreLosses => Reporter!LeaksAreLosses
  BY DEF Reports!LeaksAreLosses, Reports!Unposted, Reports!Events, Reports!Urls,
         Reports!Cardinality, Reporter!LeaksAreLosses, Reporter!Unposted,
         Reporter!Events, Reporter!Urls, Reporter!Cardinality
<1> QED
  BY <1>1, <1>2, ReportsInit, ReportsStep, PTL DEF SysSpec
=============================================================================
