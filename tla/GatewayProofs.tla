--------------------------- MODULE GatewayProofs ---------------------------
(* The inductive invariant of the process and what follows from it; and    *)
(* that the process comes up, and ends when it should.                     *)
EXTENDS Gateway, TLAPS

(* Every action of the process, one name for each. *)
Action ==
    \/ ReadSection \/ TerminateList \/ StartWinsock \/ MainInit
    \/ (\E t \in Threads : BeginThread(t)) \/ JoinThreads
    \/ (\E t \in Threads : HelperThread(t))
    \/ DoorInit \/ DoorLogin \/ DoorCleanup \/ DoorSetupAlarm \/ DoorRegister
    \/ DoorGetchar
    \/ EvInit \/ EvMalloc \/ EvLogin \/ EvLoginFailed \/ EvStore \/ EvLoopDone
    \/ EvBind \/ (\E addr \in Addrs : ControlGateway(addr)) \/ DispatchReturns
    \/ EvWSACleanup \/ EvLogout(0) \/ EvLogout(1) \/ EvCleanup

(* A step of the process is one of its actions, taken while main runs, or  *)
(* changes nothing.                                                        *)
LEMMA StepIsAction ==
    [Next]_vars => (Action /\ ~Ended) \/ UNCHANGED vars
  BY DEF Next, Step, Main, Door, Ev, Action

-----------------------------------------------------------------------------
(* No call of the library makes its state ill-typed. *)
LEMMA SdkTypes ==
    ASSUME SdkTypeOK
    PROVE  /\ NET_DVR_Init => SdkTypeOK'
           /\ NET_DVR_Cleanup => SdkTypeOK'
           /\ \A a \in Addrs, u \in UserIds : LoginOK(a, u) => SdkTypeOK'
           /\ \A u : NET_DVR_Logout(u) => SdkTypeOK'
           /\ \A u : SetupAlarmChanOK(u) => SdkTypeOK'
           /\ SetMessageCallBackOK => SdkTypeOK'
           /\ CallFails => SdkTypeOK'
           /\ UNCHANGED sdkVars => SdkTypeOK'
<1> USE DEF SdkTypeOK, sdkVars
<1>1. NET_DVR_Init => SdkTypeOK'
  BY DEF NET_DVR_Init
<1>2. ASSUME NET_DVR_Cleanup PROVE SdkTypeOK'
  <2>1. CASE refs > 1
    BY <1>2, <2>1 DEF NET_DVR_Cleanup
  <2>2. CASE refs = 1
    <3>1. /\ refs' = 0
          /\ users' = [u \in UserIds |-> NoDevice]
          /\ armed' = {}
          /\ callback' = FALSE
      BY <1>2, <2>2 DEF NET_DVR_Cleanup
    <3>2. users' \in [UserIds -> Addrs \cup {NoDevice}]
      BY <3>1
    <3> QED
      BY <3>1, <3>2
  <2>3. CASE refs = 0
    BY <1>2, <2>3 DEF NET_DVR_Cleanup
  <2> QED
    BY <2>1, <2>2, <2>3
<1>3. ASSUME NEW a \in Addrs, NEW u \in UserIds, LoginOK(a, u) PROVE SdkTypeOK'
  BY <1>3 DEF LoginOK
<1>4. ASSUME NEW u, NET_DVR_Logout(u) PROVE SdkTypeOK'
  <2>1. CASE Live(u)
    BY <1>4, <2>1 DEF NET_DVR_Logout, Live
  <2>2. CASE ~Live(u)
    BY <1>4, <2>2 DEF NET_DVR_Logout, CallFails
  <2> QED
    BY <2>1, <2>2
<1>5. ASSUME NEW u, SetupAlarmChanOK(u) PROVE SdkTypeOK'
  BY <1>5 DEF SetupAlarmChanOK, Live
<1>6. SetMessageCallBackOK => SdkTypeOK'
  BY DEF SetMessageCallBackOK
<1>7. CallFails => SdkTypeOK'
  BY DEF CallFails
<1>8. UNCHANGED sdkVars => SdkTypeOK'
  OBVIOUS
<1> HIDE DEF SdkTypeOK, sdkVars
<1> QED
  BY <1>1, <1>2, <1>3, <1>4, <1>5, <1>6, <1>7, <1>8

(* Every variable keeps its type: in particular the loop never writes past *)
(* the table, and every handle main's threads hold is one the library gave *)
(* out.                                                                    *)
LEMMA TypeStep ==
    TypeOK /\ MainInv /\ CountInv /\ [Next]_vars => TypeOK'
<1> SUFFICES ASSUME TypeOK, MainInv, CountInv, [Next]_vars PROVE TypeOK'
  OBVIOUS
<1> USE SdkTypes, SdkAssumption, GatewayAssumption, IniAssumption
        DEF TypeOK, Entry, IniFile, Slots, Sections, Threads, Failed
<1>1. CASE ReadSection
  BY <1>1 DEF ReadSection, Goto, mainVars, doorVars, evVars, MainInv
<1>2. CASE TerminateList
  BY <1>2 DEF TerminateList, Goto, doorVars, evVars
<1>3. CASE StartWinsock
  BY <1>3 DEF StartWinsock, Goto, doorVars, evVars
<1>4. CASE MainInit
  BY <1>4 DEF MainInit, Goto, mainVars, doorVars, evVars
<1>5. ASSUME NEW t \in Threads, BeginThread(t) PROVE TypeOK'
  BY <1>5 DEF BeginThread, mainVars, doorVars, evVars
<1>6. CASE JoinThreads
  BY <1>6 DEF JoinThreads, Goto, mainVars, doorVars, evVars
<1>7. ASSUME NEW t \in Threads, HelperThread(t) PROVE TypeOK'
  BY <1>7 DEF HelperThread, Goto, mainVars, doorVars, evVars
<1>8. CASE DoorInit
  BY <1>8 DEF DoorInit, Goto, mainVars, doorVars, evVars
<1>9. CASE DoorLogin
  BY <1>9 DEF DoorLogin, Goto, mainVars, evVars
<1>10. CASE DoorCleanup
  BY <1>10 DEF DoorCleanup, Goto, mainVars, doorVars, evVars
<1>11. CASE DoorSetupAlarm
  BY <1>11 DEF DoorSetupAlarm, Goto, mainVars, doorVars, evVars
<1>12. CASE DoorRegister
  BY <1>12 DEF DoorRegister, Goto, mainVars, doorVars, evVars
<1>13. CASE DoorGetchar
  BY <1>13 DEF DoorGetchar, Goto, mainVars, doorVars, evVars
<1>14. CASE EvInit
  BY <1>14 DEF EvInit, Goto, mainVars, doorVars, evVars
<1>15. CASE EvMalloc
  BY <1>15 DEF EvMalloc, Goto, mainVars, doorVars, evVars
<1>16. CASE EvLogin
  <2>1. DoorParam[count].ip \in Addrs
    BY <1>16 DEF EvLogin, MainInv, CountInv, Listed, Goto
  <2> QED
    BY <1>16, <2>1 DEF EvLogin, Goto, mainVars, doorVars
<1>17. CASE EvLoginFailed
  BY <1>17 DEF EvLoginFailed, Goto, mainVars, doorVars, evVars
<1>18. CASE EvStore
  BY <1>18 DEF EvStore, Goto, mainVars, doorVars, CountInv
<1>19. CASE EvLoopDone
  BY <1>19 DEF EvLoopDone, Goto, mainVars, doorVars, evVars
<1>20. CASE EvBind
  BY <1>20 DEF EvBind, Goto, mainVars, doorVars, evVars
<1>21. ASSUME NEW addr \in Addrs, ControlGateway(addr) PROVE TypeOK'
  <2>1. \A u : DeviceOf(u) \in Addrs \cup {NoDevice}
    BY DEF DeviceOf, SdkTypeOK
  <2>2. last' \in [asked : Addrs \cup {NoDevice}, reached : Addrs \cup {NoDevice}]
    BY <1>21, <2>1 DEF ControlGateway
  <2> QED
    BY <1>21, <2>2 DEF ControlGateway, mainVars, doorVars
<1>22. CASE DispatchReturns
  BY <1>22 DEF DispatchReturns, Goto, mainVars, doorVars
<1>23. CASE EvWSACleanup
  BY <1>23 DEF EvWSACleanup, Goto, doorVars, evVars
<1>24. ASSUME NEW k \in {0, 1}, EvLogout(k) PROVE TypeOK'
  BY <1>24 DEF EvLogout, Goto, mainVars, doorVars, evVars
<1>25. CASE EvCleanup
  BY <1>25 DEF EvCleanup, Goto, mainVars, doorVars, evVars
<1>26. CASE UNCHANGED vars
  BY <1>26 DEF vars, threadVars
<1> HIDE DEF TypeOK, Entry, IniFile, Slots, Sections, Threads, Failed
<1>27. (\E t \in Threads : BeginThread(t)) => TypeOK'
  BY <1>5
<1>28. (\E t \in Threads : HelperThread(t)) => TypeOK'
  BY <1>7
<1>29. (\E addr \in Addrs : ControlGateway(addr)) => TypeOK'
  BY <1>21
<1>30. EvLogout(0) \/ EvLogout(1) => TypeOK'
  BY <1>24
<1> QED
  BY <1>1, <1>2, <1>3, <1>4, <1>6, <1>8, <1>9, <1>10, <1>11, <1>12, <1>13,
     <1>14, <1>15, <1>16, <1>17, <1>18, <1>19, <1>20, <1>22, <1>23, <1>25,
     <1>26, <1>27, <1>28, <1>29, <1>30, StepIsAction DEF Action

(* The list of doors is complete before any thread runs, and main outlives *)
(* its threads.                                                            *)
LEMMA MainStep ==
    TypeOK /\ MainInv /\ [Next]_vars => MainInv'
<1> SUFFICES ASSUME TypeOK, MainInv, [Next]_vars
             PROVE  MainInv'
  OBVIOUS
<1> USE GatewayAssumption, IniAssumption
        DEF TypeOK, MainInv, Listed, IniFile, Slots, Sections, Threads
<1>1. CASE ReadSection
  BY <1>1 DEF ReadSection, Goto, mainVars, doorVars, evVars
<1>2. CASE TerminateList
  BY <1>2 DEF TerminateList, Goto, mainVars, doorVars, evVars
<1>3. CASE StartWinsock
  BY <1>3 DEF StartWinsock, Goto, mainVars, doorVars, evVars
<1>4. CASE MainInit
  BY <1>4 DEF MainInit, Goto, mainVars, doorVars, evVars
<1>5. ASSUME NEW t \in Threads, BeginThread(t) PROVE MainInv'
  BY <1>5 DEF BeginThread, Goto, mainVars, doorVars, evVars
<1>6. CASE JoinThreads
  BY <1>6 DEF JoinThreads, Goto, mainVars, doorVars, evVars
<1>7. ASSUME NEW t \in Threads, HelperThread(t) PROVE MainInv'
  BY <1>7 DEF HelperThread, Goto, mainVars, doorVars, evVars
<1>8. CASE DoorInit
  BY <1>8 DEF DoorInit, Goto, mainVars, doorVars, evVars
<1>9. CASE DoorLogin
  BY <1>9 DEF DoorLogin, Goto, mainVars, doorVars, evVars
<1>10. CASE DoorCleanup
  BY <1>10 DEF DoorCleanup, Goto, mainVars, doorVars, evVars
<1>11. CASE DoorSetupAlarm
  BY <1>11 DEF DoorSetupAlarm, Goto, mainVars, doorVars, evVars
<1>12. CASE DoorRegister
  BY <1>12 DEF DoorRegister, Goto, mainVars, doorVars, evVars
<1>13. CASE DoorGetchar
  BY <1>13 DEF DoorGetchar, Goto, mainVars, doorVars, evVars
<1>14. CASE EvInit
  BY <1>14 DEF EvInit, Goto, mainVars, doorVars, evVars
<1>15. CASE EvMalloc
  BY <1>15 DEF EvMalloc, Goto, mainVars, doorVars, evVars
<1>16. CASE EvLogin
  BY <1>16 DEF EvLogin, Goto, mainVars, doorVars, evVars
<1>17. CASE EvLoginFailed
  BY <1>17 DEF EvLoginFailed, Goto, mainVars, doorVars, evVars
<1>18. CASE EvStore
  BY <1>18 DEF EvStore, Goto, mainVars, doorVars, evVars
<1>19. CASE EvLoopDone
  BY <1>19 DEF EvLoopDone, Goto, mainVars, doorVars, evVars
<1>20. CASE EvBind
  BY <1>20 DEF EvBind, Goto, mainVars, doorVars, evVars
<1>21. ASSUME NEW addr \in Addrs, ControlGateway(addr) PROVE MainInv'
  BY <1>21 DEF ControlGateway, Goto, mainVars, doorVars, evVars
<1>22. CASE DispatchReturns
  BY <1>22 DEF DispatchReturns, Goto, mainVars, doorVars, evVars
<1>23. CASE EvWSACleanup
  BY <1>23 DEF EvWSACleanup, Goto, mainVars, doorVars, evVars
<1>24. ASSUME NEW k \in {0, 1}, EvLogout(k) PROVE MainInv'
  BY <1>24 DEF EvLogout, Goto, mainVars, doorVars, evVars
<1>25. CASE EvCleanup
  BY <1>25 DEF EvCleanup, Goto, mainVars, doorVars, evVars
<1>26. CASE UNCHANGED vars
  BY <1>26 DEF vars, threadVars, sdkVars, Goto, mainVars, doorVars, evVars
<1> HIDE DEF TypeOK, MainInv, Listed, IniFile, Slots, Sections, Threads
<1>27. (\E t \in Threads : BeginThread(t)) => MainInv'
  BY <1>5
<1>28. (\E t \in Threads : HelperThread(t)) => MainInv'
  BY <1>7
<1>29. (\E addr \in Addrs : ControlGateway(addr)) => MainInv'
  BY <1>21
<1>30. EvLogout(0) \/ EvLogout(1) => MainInv'
  BY <1>24
<1> QED
  BY <1>1, <1>2, <1>3, <1>4, <1>6, <1>8, <1>9, <1>10, <1>11, <1>12, <1>13,
     <1>14, <1>15, <1>16, <1>17, <1>18, <1>19, <1>20, <1>22, <1>23, <1>25,
     <1>26, <1>27, <1>28, <1>29, <1>30, StepIsAction DEF Action

(* The server's counter follows the list and stops at its end. *)
LEMMA CountStep ==
    TypeOK /\ MainInv /\ CountInv /\ [Next]_vars => CountInv'
<1> SUFFICES ASSUME TypeOK, MainInv, CountInv, [Next]_vars
             PROVE  CountInv'
  OBVIOUS
<1> USE GatewayAssumption, IniAssumption
        DEF TypeOK, CountInv, DoorPc, EvLoopPc, EvServerPc, IniFile, Slots,
            Sections, Threads, Failed
<1>1. CASE ReadSection
  BY <1>1 DEF ReadSection, Goto, mainVars, doorVars, evVars
<1>2. CASE TerminateList
  BY <1>2 DEF TerminateList, Goto, mainVars, doorVars, evVars
<1>3. CASE StartWinsock
  BY <1>3 DEF StartWinsock, Goto, mainVars, doorVars, evVars
<1>4. CASE MainInit
  BY <1>4 DEF MainInit, Goto, mainVars, doorVars, evVars
<1>5. ASSUME NEW t \in Threads, BeginThread(t) PROVE CountInv'
  BY <1>5 DEF BeginThread, Goto, mainVars, doorVars, evVars
<1>6. CASE JoinThreads
  BY <1>6 DEF JoinThreads, Goto, mainVars, doorVars, evVars
<1>7. ASSUME NEW t \in Threads, HelperThread(t) PROVE CountInv'
  BY <1>7 DEF HelperThread, Goto, mainVars, doorVars, evVars
<1>8. CASE DoorInit
  BY <1>8 DEF DoorInit, Goto, mainVars, doorVars, evVars
<1>9. CASE DoorLogin
  BY <1>9 DEF DoorLogin, Goto, mainVars, doorVars, evVars
<1>10. CASE DoorCleanup
  BY <1>10 DEF DoorCleanup, Goto, mainVars, doorVars, evVars
<1>11. CASE DoorSetupAlarm
  BY <1>11 DEF DoorSetupAlarm, Goto, mainVars, doorVars, evVars
<1>12. CASE DoorRegister
  BY <1>12 DEF DoorRegister, Goto, mainVars, doorVars, evVars
<1>13. CASE DoorGetchar
  BY <1>13 DEF DoorGetchar, Goto, mainVars, doorVars, evVars
<1>14. CASE EvInit
  BY <1>14 DEF EvInit, Goto, mainVars, doorVars, evVars
<1>15. CASE EvMalloc
  BY <1>15 DEF EvMalloc, Goto, mainVars, doorVars, evVars
<1>16. CASE EvLogin
  BY <1>16 DEF EvLogin, Goto, mainVars, doorVars, MainInv, Listed
<1>17. CASE EvLoginFailed
  BY <1>17 DEF EvLoginFailed, Goto, mainVars, doorVars, evVars
<1>18. CASE EvStore
  BY <1>18 DEF EvStore, Goto, mainVars, doorVars, evVars
<1>19. CASE EvLoopDone
  BY <1>19 DEF EvLoopDone, Goto, mainVars, doorVars, evVars, MainInv, Listed
<1>20. CASE EvBind
  BY <1>20 DEF EvBind, Goto, mainVars, doorVars, evVars
<1>21. ASSUME NEW addr \in Addrs, ControlGateway(addr) PROVE CountInv'
  BY <1>21 DEF ControlGateway, Goto, mainVars, doorVars, evVars
<1>22. CASE DispatchReturns
  BY <1>22 DEF DispatchReturns, Goto, mainVars, doorVars, evVars
<1>23. CASE EvWSACleanup
  BY <1>23 DEF EvWSACleanup, Goto, mainVars, doorVars, evVars
<1>24. ASSUME NEW k \in {0, 1}, EvLogout(k) PROVE CountInv'
  BY <1>24 DEF EvLogout, Goto, mainVars, doorVars, evVars
<1>25. CASE EvCleanup
  BY <1>25 DEF EvCleanup, Goto, mainVars, doorVars, evVars
<1>26. CASE UNCHANGED vars
  BY <1>26 DEF vars, threadVars, sdkVars, Goto, mainVars, doorVars, evVars
<1> HIDE DEF TypeOK, CountInv, DoorPc, EvLoopPc, EvServerPc, IniFile, Slots,
         Sections, Threads, Failed
<1>27. (\E t \in Threads : BeginThread(t)) => CountInv'
  BY <1>5
<1>28. (\E t \in Threads : HelperThread(t)) => CountInv'
  BY <1>7
<1>29. (\E addr \in Addrs : ControlGateway(addr)) => CountInv'
  BY <1>21
<1>30. EvLogout(0) \/ EvLogout(1) => CountInv'
  BY <1>24
<1> QED
  BY <1>1, <1>2, <1>3, <1>4, <1>6, <1>8, <1>9, <1>10, <1>11, <1>12, <1>13,
     <1>14, <1>15, <1>16, <1>17, <1>18, <1>19, <1>20, <1>22, <1>23, <1>25,
     <1>26, <1>27, <1>28, <1>29, <1>30, StepIsAction DEF Action

(* Only the NET_DVR_Cleanup after a failed login adds to the lost doors,   *)
(* and it adds one.                                                        *)
LostChange ==
    IF pc["ev"] = "failed" /\ pc'["ev"] = "store"
    THEN Lost' = Lost \cup {count} /\ count \notin Lost
    ELSE Lost' = Lost

(* The set of lost doors grows by one door, at the login that failed, and  *)
(* by no other step.                                                       *)
LEMMA LostStep ==
    TypeOK /\ MainInv /\ CountInv /\ [Next]_vars => LostChange
<1> SUFFICES ASSUME TypeOK, MainInv, CountInv, [Next]_vars
             PROVE  LostChange
  OBVIOUS
<1> USE SdkAssumption, GatewayAssumption, IniAssumption
        DEF TypeOK, CountInv, DoorPc, EvLoopPc, EvServerPc, Slots, Threads,
            Failed, Lost, LostChange
<1>1. CASE ReadSection
  BY <1>1 DEF ReadSection, Goto, mainVars, doorVars, evVars
<1>2. CASE TerminateList
  BY <1>2 DEF TerminateList, Goto, mainVars, doorVars, evVars
<1>3. CASE StartWinsock
  BY <1>3 DEF StartWinsock, Goto, mainVars, doorVars, evVars
<1>4. CASE MainInit
  BY <1>4 DEF MainInit, Goto, mainVars, doorVars, evVars
<1>5. ASSUME NEW t \in Threads, BeginThread(t) PROVE LostChange
  BY <1>5 DEF BeginThread, Goto, mainVars, doorVars, evVars
<1>6. CASE JoinThreads
  BY <1>6 DEF JoinThreads, Goto, mainVars, doorVars, evVars
<1>7. ASSUME NEW t \in Threads, HelperThread(t) PROVE LostChange
  BY <1>7 DEF HelperThread, Goto, mainVars, doorVars, evVars
<1>8. CASE DoorInit
  BY <1>8 DEF DoorInit, Goto, mainVars, doorVars, evVars
<1>9. CASE DoorLogin
  BY <1>9 DEF DoorLogin, Goto, mainVars, doorVars, evVars
<1>10. CASE DoorCleanup
  BY <1>10 DEF DoorCleanup, Goto, mainVars, doorVars, evVars
<1>11. CASE DoorSetupAlarm
  BY <1>11 DEF DoorSetupAlarm, Goto, mainVars, doorVars, evVars
<1>12. CASE DoorRegister
  BY <1>12 DEF DoorRegister, Goto, mainVars, doorVars, evVars
<1>13. CASE DoorGetchar
  BY <1>13 DEF DoorGetchar, Goto, mainVars, doorVars, evVars
<1>14. CASE EvInit
  BY <1>14 DEF EvInit, Goto, mainVars, doorVars, evVars
<1>15. CASE EvMalloc
  BY <1>15 DEF EvMalloc, Goto, mainVars, doorVars, evVars
<1>16. CASE EvLogin
  BY <1>16 DEF EvLogin, Goto, mainVars, doorVars, evVars
<1>17. CASE EvLoginFailed
  BY <1>17 DEF EvLoginFailed, Goto, mainVars, doorVars, evVars
<1>18. CASE EvStore
  BY <1>18 DEF EvStore, Goto, mainVars, doorVars, evVars
<1>19. CASE EvLoopDone
  BY <1>19 DEF EvLoopDone, Goto, mainVars, doorVars, evVars
<1>20. CASE EvBind
  BY <1>20 DEF EvBind, Goto, mainVars, doorVars, evVars
<1>21. ASSUME NEW addr \in Addrs, ControlGateway(addr) PROVE LostChange
  BY <1>21 DEF ControlGateway, Goto, mainVars, doorVars, evVars
<1>22. CASE DispatchReturns
  BY <1>22 DEF DispatchReturns, Goto, mainVars, doorVars, evVars
<1>23. CASE EvWSACleanup
  BY <1>23 DEF EvWSACleanup, Goto, mainVars, doorVars, evVars
<1>24. ASSUME NEW k \in {0, 1}, EvLogout(k) PROVE LostChange
  BY <1>24 DEF EvLogout, Goto, mainVars, doorVars, evVars
<1>25. CASE EvCleanup
  BY <1>25 DEF EvCleanup, Goto, mainVars, doorVars, evVars
<1>26. CASE UNCHANGED vars
  BY <1>26 DEF vars, threadVars, sdkVars, Goto, mainVars, doorVars, evVars
<1> HIDE DEF TypeOK, CountInv, DoorPc, EvLoopPc, EvServerPc, Slots, Threads,
         Failed, Lost, LostChange
<1>27. (\E t \in Threads : BeginThread(t)) => LostChange
  BY <1>5
<1>28. (\E t \in Threads : HelperThread(t)) => LostChange
  BY <1>7
<1>29. (\E addr \in Addrs : ControlGateway(addr)) => LostChange
  BY <1>21
<1>30. EvLogout(0) \/ EvLogout(1) => LostChange
  BY <1>24
<1> QED
  BY <1>1, <1>2, <1>3, <1>4, <1>6, <1>8, <1>9, <1>10, <1>11, <1>12, <1>13,
     <1>14, <1>15, <1>16, <1>17, <1>18, <1>19, <1>20, <1>22, <1>23, <1>25,
     <1>26, <1>27, <1>28, <1>29, <1>30, StepIsAction DEF Action

(* While a thread other than main runs, main waits for it. *)
LEMMA MainUp ==
    ASSUME TypeOK, MainInv, CountInv
    PROVE  /\ pc["Door"] \notin {"idle", "done"} => pc["main"] \in {"start", "wait"}
           /\ pc["ev"] \notin {"idle", "done"} => pc["main"] \in {"start", "wait"}
  BY DEF TypeOK, MainInv, CountInv, Threads

(* While no more than one door is lost, the library keeps a reference for  *)
(* everyone who uses it.                                                   *)
LEMMA RefsStep ==
    TypeOK /\ MainInv /\ CountInv /\ RefsInv /\ [Next]_vars => RefsInv'
<1> SUFFICES ASSUME TypeOK, MainInv, CountInv, RefsInv, [Next]_vars
             PROVE  RefsInv'
  OBVIOUS
<1>0. LostChange
  BY LostStep
<1> USE SdkAssumption, GatewayAssumption, IniAssumption
        DEF TypeOK, SdkTypeOK, CountInv, DoorPc, EvLoopPc, EvServerPc, Slots,
            Threads, Failed, RefsInv, AtMostOneLost, LostChange, One
<1>1. CASE ReadSection
  BY <1>1, <1>0 DEF ReadSection, Goto, mainVars, doorVars, evVars, sdkVars
<1>2. CASE TerminateList
  BY <1>2, <1>0 DEF TerminateList, Goto, mainVars, doorVars, evVars, sdkVars
<1>3. CASE StartWinsock
  BY <1>3, <1>0 DEF StartWinsock, Goto, mainVars, doorVars, evVars, sdkVars
<1>4. CASE MainInit
  BY <1>4, <1>0 DEF MainInit, NET_DVR_Init, MainInv, Goto, mainVars, doorVars,
     evVars, sdkVars
<1>5. ASSUME NEW t \in Threads, BeginThread(t) PROVE RefsInv'
  BY <1>5, <1>0 DEF BeginThread, Goto, mainVars, doorVars, evVars, sdkVars
<1>6. CASE JoinThreads
  BY <1>6, <1>0 DEF JoinThreads, Goto, mainVars, doorVars, evVars, sdkVars
<1>7. ASSUME NEW t \in Threads, HelperThread(t) PROVE RefsInv'
  BY <1>7, <1>0 DEF HelperThread, Goto, mainVars, doorVars, evVars, sdkVars
<1>8. CASE DoorInit
  BY <1>8, <1>0 DEF DoorInit, NET_DVR_Init, Goto, mainVars, doorVars, evVars,
     sdkVars
<1>9. CASE DoorLogin
  BY <1>9, <1>0 DEF DoorLogin, LoginOK, CallFails, Goto, mainVars, doorVars,
     evVars, sdkVars
<1>10. CASE DoorCleanup
  BY <1>10, <1>0 DEF DoorCleanup, NET_DVR_Cleanup, Goto, mainVars, doorVars,
     evVars, sdkVars
<1>11. CASE DoorSetupAlarm
  BY <1>11, <1>0 DEF DoorSetupAlarm, SetupAlarmChanOK, CallFails, Goto,
     mainVars, doorVars, evVars, sdkVars
<1>12. CASE DoorRegister
  BY <1>12, <1>0 DEF DoorRegister, SetMessageCallBackOK, CallFails, Goto,
     mainVars, doorVars, evVars, sdkVars
<1>13. CASE DoorGetchar
  BY <1>13, <1>0 DEF DoorGetchar, Goto, mainVars, doorVars, evVars, sdkVars
<1>14. CASE EvInit
  BY <1>14, <1>0 DEF EvInit, NET_DVR_Init, Goto, mainVars, doorVars, evVars,
     sdkVars
<1>15. CASE EvMalloc
  BY <1>15, <1>0 DEF EvMalloc, Goto, mainVars, doorVars, evVars, sdkVars
<1>16. CASE EvLogin
  BY <1>16, <1>0 DEF EvLogin, LoginOK, CallFails, Goto, mainVars, doorVars,
     evVars, sdkVars
<1>17. CASE EvLoginFailed
  BY <1>17, <1>0, MainUp DEF EvLoginFailed, NET_DVR_Cleanup, Goto, mainVars,
     doorVars, evVars, sdkVars
<1>18. CASE EvStore
  BY <1>18, <1>0 DEF EvStore, Goto, mainVars, doorVars, evVars, sdkVars
<1>19. CASE EvLoopDone
  BY <1>19, <1>0 DEF EvLoopDone, Goto, mainVars, doorVars, evVars, sdkVars
<1>20. CASE EvBind
  BY <1>20, <1>0 DEF EvBind, Goto, mainVars, doorVars, evVars, sdkVars
<1>21. ASSUME NEW addr \in Addrs, ControlGateway(addr) PROVE RefsInv'
  BY <1>21, <1>0 DEF ControlGateway, Goto, mainVars, doorVars, evVars, sdkVars
<1>22. CASE DispatchReturns
  BY <1>22, <1>0 DEF DispatchReturns, Goto, mainVars, doorVars, evVars, sdkVars
<1>23. CASE EvWSACleanup
  BY <1>23, <1>0 DEF EvWSACleanup, Goto, mainVars, doorVars, evVars, sdkVars
<1>24. ASSUME NEW k \in {0, 1}, EvLogout(k) PROVE RefsInv'
  BY <1>24, <1>0 DEF EvLogout, NET_DVR_Logout, CallFails, Goto, mainVars,
     doorVars, evVars, sdkVars
<1>25. CASE EvCleanup
  BY <1>25, <1>0 DEF EvCleanup, NET_DVR_Cleanup, Goto, mainVars, doorVars,
     evVars, sdkVars
<1>26. CASE UNCHANGED vars
  <2>1. UNCHANGED <<refs, pc>>
    BY <1>26 DEF vars, threadVars, sdkVars
  <2> QED
    BY <1>0, <2>1
<1> HIDE DEF TypeOK, SdkTypeOK, CountInv, DoorPc, EvLoopPc, EvServerPc, Slots,
         Threads, Failed, RefsInv, AtMostOneLost, LostChange, One
<1>27. (\E t \in Threads : BeginThread(t)) => RefsInv'
  BY <1>5
<1>28. (\E t \in Threads : HelperThread(t)) => RefsInv'
  BY <1>7
<1>29. (\E addr \in Addrs : ControlGateway(addr)) => RefsInv'
  BY <1>21
<1>30. EvLogout(0) \/ EvLogout(1) => RefsInv'
  BY <1>24
<1> QED
  BY <1>1, <1>2, <1>3, <1>4, <1>6, <1>8, <1>9, <1>10, <1>11, <1>12, <1>13,
     <1>14, <1>15, <1>16, <1>17, <1>18, <1>19, <1>20, <1>22, <1>23, <1>25,
     <1>26, <1>27, <1>28, <1>29, <1>30, StepIsAction DEF Action

(* A door the server has passed, or is logging in to, has an address. *)
LEMMA ServedAddrs ==
    ASSUME TypeOK, MainInv, CountInv
    PROVE  \A k \in Slots :
              k < count \/ (k = count /\ pc["ev"] \in {"failed", "store"}) =>
                  DoorParam[k].ip \in Addrs
<1> TAKE k \in Slots
<1> HAVE k < count \/ (k = count /\ pc["ev"] \in {"failed", "store"})
<1>1. pc["ev"] # "idle" /\ k < ini.total
  BY GatewayAssumption, IniAssumption DEF TypeOK, CountInv, Slots, IniFile
<1>2. Listed(k)
  BY <1>1 DEF MainInv
<1> QED
  BY <1>2 DEF Listed

(* A successful login takes a free handle: no live one changes. *)
LEMMA LoginFresh ==
    ASSUME SdkTypeOK, NEW a \in Addrs, NEW u \in UserIds, LoginOK(a, u)
    PROVE  /\ DeviceOf(u) = NoDevice /\ DeviceOf(u)' = a
           /\ \A w : DeviceOf(w) # NoDevice => w # u /\ DeviceOf(w)' = DeviceOf(w)
           /\ UNCHANGED <<refs, armed, callback>>
  BY DEF SdkTypeOK, LoginOK, DeviceOf

(* A logout takes away one handle only. *)
LEMMA LogoutOne ==
    ASSUME SdkTypeOK, NEW u, NET_DVR_Logout(u)
    PROVE  /\ \A w : w # u => DeviceOf(w)' = DeviceOf(w)
           /\ \A w : w # u => (w \in armed' <=> w \in armed)
           /\ u \notin UserIds => UNCHANGED sdkVars
           /\ UNCHANGED <<refs, callback>>
<1>1. CASE Live(u)
  BY <1>1 DEF SdkTypeOK, NET_DVR_Logout, Live, DeviceOf
<1>2. CASE ~Live(u)
  BY <1>2 DEF NET_DVR_Logout, CallFails, sdkVars, DeviceOf
<1> QED
  BY <1>1, <1>2

(* The table stays truthful: no step of any thread takes away, replaces or *)
(* shares a handle the server still relies on.                             *)
LEMMA TableStep ==
    TypeOK /\ MainInv /\ CountInv /\ RefsInv /\ TableInv /\ [Next]_vars
        => TableInv'
<1> SUFFICES ASSUME TypeOK, MainInv, CountInv, RefsInv, TableInv, [Next]_vars
             PROVE  TableInv'
  OBVIOUS
<1>0. LostChange
  BY LostStep
<1> USE SdkAssumption, GatewayAssumption, IniAssumption
        DEF TypeOK, SdkTypeOK, CountInv, DoorPc, EvLoopPc, EvServerPc, Slots,
            Threads, Failed, AtMostOneLost, LostChange, TableInv, Held, Pending
<1>1. CASE ReadSection
  BY <1>1, <1>0 DEF DeviceOf, ReadSection, MainInv, Goto, mainVars,
     doorVars, evVars, sdkVars
<1>2. CASE TerminateList
  BY <1>2, <1>0 DEF DeviceOf, TerminateList, MainInv, Goto, mainVars,
     doorVars, evVars, sdkVars
<1>3. CASE StartWinsock
  BY <1>3, <1>0 DEF DeviceOf, StartWinsock, Goto, mainVars, doorVars, evVars,
     sdkVars
<1>4. CASE MainInit
  BY <1>4, <1>0 DEF DeviceOf, MainInit, NET_DVR_Init, Goto, mainVars,
     doorVars, evVars, sdkVars
<1>5. ASSUME NEW t \in Threads, BeginThread(t) PROVE TableInv'
  BY <1>5, <1>0 DEF DeviceOf, BeginThread, Goto, mainVars, doorVars, evVars,
     sdkVars
<1>6. CASE JoinThreads
  BY <1>6, <1>0 DEF DeviceOf, JoinThreads, Goto, mainVars, doorVars, evVars,
     sdkVars
<1>7. ASSUME NEW t \in Threads, HelperThread(t) PROVE TableInv'
  BY <1>7, <1>0 DEF DeviceOf, HelperThread, Goto, mainVars, doorVars, evVars,
     sdkVars
<1>8. CASE DoorInit
  BY <1>8, <1>0 DEF DeviceOf, DoorInit, NET_DVR_Init, Goto, mainVars,
     doorVars, evVars, sdkVars
<1>9. CASE DoorLogin
  <2>1. /\ UNCHANGED <<DoorParam, lUserID, count, login>>
        /\ pc'["ev"] = pc["ev"] /\ Lost' = Lost
    BY <1>9, <1>0 DEF DeviceOf, DoorLogin, Goto, mainVars, evVars
  <2>2. CASE \E u \in UserIds : LoginOK(AlarmAddr, u)
    BY <2>1, <2>2, ServedAddrs, LoginFresh
  <2>3. CASE CallFails
    BY <2>1, <2>3 DEF CallFails, sdkVars, DeviceOf
  <2> QED
    BY <1>9, <2>2, <2>3 DEF DoorLogin
<1>10. CASE DoorCleanup
  BY <1>10, <1>0, MainUp DEF DeviceOf, DoorCleanup, NET_DVR_Cleanup, RefsInv,
     One, Goto, mainVars, doorVars, evVars, sdkVars
<1>11. CASE DoorSetupAlarm
  BY <1>11, <1>0 DEF DeviceOf, DoorSetupAlarm, SetupAlarmChanOK, CallFails,
     Goto, mainVars, doorVars, evVars, sdkVars
<1>12. CASE DoorRegister
  BY <1>12, <1>0 DEF DeviceOf, DoorRegister, SetMessageCallBackOK, CallFails,
     Goto, mainVars, doorVars, evVars, sdkVars
<1>13. CASE DoorGetchar
  BY <1>13, <1>0 DEF DeviceOf, DoorGetchar, Goto, mainVars, doorVars, evVars,
     sdkVars
<1>14. CASE EvInit
  BY <1>14, <1>0 DEF DeviceOf, EvInit, NET_DVR_Init, Goto, mainVars, doorVars,
     evVars, sdkVars
<1>15. CASE EvMalloc
  BY <1>15, <1>0 DEF DeviceOf, EvMalloc, Goto, mainVars, doorVars, evVars,
     sdkVars
<1>16. CASE EvLogin
  <2>1. /\ UNCHANGED <<DoorParam, lUserID, count>>
        /\ pc["ev"] = "login" /\ Lost' = Lost
        /\ DoorParam[count].key # "total"
    BY <1>16, <1>0 DEF DeviceOf, EvLogin, Goto, mainVars
  <2>2. DoorParam[count].ip \in Addrs
    BY <2>1 DEF MainInv, Listed, IniFile
  <2>3. ASSUME NEW u \in UserIds, LoginOK(DoorParam[count].ip, u),
               login' = u, pc'["ev"] = "store"
        PROVE  TableInv'
    <3>1. /\ DeviceOf(u)' = DoorParam[count].ip
          /\ \A w : DeviceOf(w) # NoDevice => w # u /\ DeviceOf(w)' = DeviceOf(w)
      BY <2>2, <2>3, LoginFresh
    <3>2. \A w \in Slots : Held(w)' <=> Held(w)
      BY <2>1, <2>3
    <3>3. \A w \in Slots : Held(w) => DoorParam[w].ip # NoDevice
      BY ServedAddrs
    <3>4. ASSUME AtMostOneLost, NEW w \in Slots, Held(w)
          PROVE  /\ DeviceOf(lUserID[w])' = DoorParam[w].ip
                 /\ lUserID[w] # u
      <4>1. DeviceOf(lUserID[w]) = DoorParam[w].ip
        BY <3>4
      <4>2. DeviceOf(lUserID[w]) # NoDevice
        BY <4>1, <3>3, <3>4
      <4> QED
        BY <2>1, <3>1, <4>1, <4>2 DEF DeviceOf
    <3>5. AtMostOneLost' => AtMostOneLost
      BY <2>1
    <3>6. AtMostOneLost =>
              \A j, k \in Slots :
                  Held(j) /\ Held(k) /\ lUserID[j] = lUserID[k] => j = k
      BY DEF TableInv
    <3>7. /\ UNCHANGED <<DoorParam, lUserID, count>>
          /\ login' = u /\ DeviceOf(login)' = DoorParam[count].ip
      BY <2>1, <2>3, <3>1 DEF DeviceOf
    <3> HIDE DEF TypeOK, SdkTypeOK, CountInv, AtMostOneLost, LostChange, Held
    <3>8. AtMostOneLost' => /\ \A k \in Slots : Held(k)' =>
                                  DeviceOf(lUserID[k])' = DoorParam[k].ip
                            /\ \A j, k \in Slots :
                                  Held(j)' /\ Held(k)' /\ lUserID[j] = lUserID[k] => j = k
                            /\ \A k \in Slots : Held(k)' => lUserID[k] # u
      BY <3>2, <3>4, <3>5, <3>6
    <3> QED
      BY <3>7, <3>8 DEF TableInv
  <2>4. CASE CallFails /\ pc'["ev"] = "failed"
    BY <2>1, <2>4 DEF CallFails, sdkVars, DeviceOf
  <2> QED
    BY <1>16, <2>3, <2>4 DEF EvLogin, Goto
<1>17. CASE EvLoginFailed
  <2>1. /\ UNCHANGED <<DoorParam, lUserID, count, login>>
        /\ pc["ev"] = "failed" /\ pc'["ev"] = "store" /\ login = Failed
        /\ Lost' = Lost \cup {count} /\ count \notin Lost
    BY <1>17, <1>0 DEF EvLoginFailed, Goto, mainVars, evVars
  <2>2. CASE AtMostOneLost'
    <3>1. AtMostOneLost /\ Lost = {}
      BY <2>1, <2>2
    <3>2. refs > 1
      <4>1. pc["main"] \in {"start", "wait"}
        BY <2>1, MainUp
      <4> QED
        BY <2>1, <3>1, <4>1 DEF RefsInv, One
    <3>3. users' = users
      BY <1>17, <3>2 DEF EvLoginFailed, NET_DVR_Cleanup
    <3>4. \A w : DeviceOf(w)' = DeviceOf(w)
      BY <3>3 DEF DeviceOf
    <3> QED
      BY <2>1, <3>1, <3>4
  <2> QED
    BY <2>2
<1>18. CASE EvStore
  BY <1>18, <1>0 DEF DeviceOf, EvStore, Goto, mainVars, doorVars, evVars,
     sdkVars
<1>19. CASE EvLoopDone
  BY <1>19, <1>0 DEF DeviceOf, EvLoopDone, Goto, mainVars, doorVars, evVars,
     sdkVars
<1>20. CASE EvBind
  BY <1>20, <1>0 DEF DeviceOf, EvBind, Goto, mainVars, doorVars, evVars, sdkVars
<1>21. ASSUME NEW addr \in Addrs, ControlGateway(addr) PROVE TableInv'
  BY <1>21, <1>0 DEF DeviceOf, ControlGateway, Goto, mainVars, doorVars,
     evVars, sdkVars
<1>22. CASE DispatchReturns
  BY <1>22, <1>0 DEF DeviceOf, DispatchReturns, Goto, mainVars, doorVars,
     evVars, sdkVars
<1>23. CASE EvWSACleanup
  BY <1>23, <1>0 DEF DeviceOf, EvWSACleanup, Goto, mainVars, doorVars, evVars,
     sdkVars
<1>24. ASSUME NEW k \in {0, 1}, EvLogout(k) PROVE TableInv'
  <2>1. /\ UNCHANGED <<DoorParam, lUserID, count, login>>
        /\ Lost' = Lost
        /\ k = 0 => pc["ev"] = "logout0" /\ pc'["ev"] = "logout1"
        /\ k = 1 => pc["ev"] = "logout1" /\ pc'["ev"] = "cleanup"
    BY <1>24, <1>0 DEF DeviceOf, EvLogout, Goto, mainVars, evVars
  <2>2. CASE k = 1
    BY <2>1, <2>2
  <2>3. CASE k = 0
    <3>1. PICK u \in Stored(0) : NET_DVR_Logout(u)
      BY <1>24, <2>3 DEF EvLogout
    <3>2. ASSUME NEW w \in Slots, Held(w)', AtMostOneLost
          PROVE  /\ Held(w) /\ 0 < count
                 /\ lUserID[w] # lUserID[0]
      BY <2>1, <2>3, <3>2
    <3>3. ASSUME NEW w \in Slots, Held(w)', AtMostOneLost
          PROVE  Held(w) /\ DeviceOf(lUserID[w])' = DeviceOf(lUserID[w])
      BY <2>1, <2>3, <3>1, <3>2, <3>3, LogoutOne DEF Stored
    <3> QED
      BY <2>1, <2>3, <3>3
  <2> QED
    BY <2>2, <2>3
<1>25. CASE EvCleanup
  BY <1>25, <1>0 DEF DeviceOf, EvCleanup, Goto, mainVars, doorVars, evVars,
     sdkVars
<1>26. CASE UNCHANGED vars
  <2>1. UNCHANGED <<users, armed, callback, pc, lUserID, count, login, alarmUser, DoorParam, ini>>
    BY <1>26 DEF vars, threadVars, sdkVars
  <2> QED
    BY <1>0, <2>1 DEF DeviceOf
<1> HIDE DEF TypeOK, SdkTypeOK, CountInv, DoorPc, EvLoopPc, EvServerPc, Slots,
         Threads, Failed, AtMostOneLost, LostChange, TableInv, Held, Pending
<1>27. (\E t \in Threads : BeginThread(t)) => TableInv'
  BY <1>5
<1>28. (\E t \in Threads : HelperThread(t)) => TableInv'
  BY <1>7
<1>29. (\E addr \in Addrs : ControlGateway(addr)) => TableInv'
  BY <1>21
<1>30. EvLogout(0) \/ EvLogout(1) => TableInv'
  BY <1>24
<1> QED
  BY <1>1, <1>2, <1>3, <1>4, <1>6, <1>8, <1>9, <1>10, <1>11, <1>12, <1>13,
     <1>14, <1>15, <1>16, <1>17, <1>18, <1>19, <1>20, <1>22, <1>23, <1>25,
     <1>26, <1>27, <1>28, <1>29, <1>30, StepIsAction DEF Action

(* Nor does any step take away the door thread's login or alarm channel.   *)
LEMMA AlarmStep ==
    TypeOK /\ MainInv /\ CountInv /\ RefsInv /\ TableInv /\ AlarmInv /\ [Next]_vars
        => AlarmInv'
<1> SUFFICES ASSUME TypeOK, MainInv, CountInv, RefsInv, TableInv, AlarmInv, [Next]_vars
             PROVE  AlarmInv'
  OBVIOUS
<1>0. LostChange
  BY LostStep
<1> USE SdkAssumption, GatewayAssumption, IniAssumption
        DEF TypeOK, SdkTypeOK, CountInv, DoorPc, EvLoopPc, EvServerPc, Slots,
            Threads, Failed, AtMostOneLost, LostChange, AlarmInv, AlarmUp,
            Held, Pending, DeviceOf,
            LogoutsOwnHandles
<1>1. CASE ReadSection
  BY <1>1, <1>0 DEF ReadSection, MainInv, Goto, mainVars, doorVars,
     evVars, sdkVars
<1>2. CASE TerminateList
  BY <1>2, <1>0 DEF TerminateList, MainInv, Goto, mainVars, doorVars, evVars,
     sdkVars
<1>3. CASE StartWinsock
  BY <1>3, <1>0 DEF StartWinsock, Goto, mainVars, doorVars, evVars, sdkVars
<1>4. CASE MainInit
  BY <1>4, <1>0 DEF MainInit, NET_DVR_Init, Goto, mainVars, doorVars, evVars,
     sdkVars
<1>5. ASSUME NEW t \in Threads, BeginThread(t) PROVE AlarmInv'
  BY <1>5, <1>0 DEF BeginThread, Goto, mainVars, doorVars, evVars, sdkVars
<1>6. CASE JoinThreads
  BY <1>6, <1>0 DEF JoinThreads, Goto, mainVars, doorVars, evVars, sdkVars
<1>7. ASSUME NEW t \in Threads, HelperThread(t) PROVE AlarmInv'
  BY <1>7, <1>0 DEF HelperThread, Goto, mainVars, doorVars, evVars, sdkVars
<1>8. CASE DoorInit
  BY <1>8, <1>0 DEF DoorInit, NET_DVR_Init, Goto, mainVars, doorVars, evVars,
     sdkVars
<1>9. CASE DoorLogin
  <2>1. /\ UNCHANGED <<DoorParam, lUserID, count, login>>
        /\ pc'["ev"] = pc["ev"] /\ Lost' = Lost /\ UNCHANGED ini
    BY <1>9, <1>0 DEF DoorLogin, Goto, mainVars, evVars
  <2>2. ASSUME NEW u \in UserIds, LoginOK(AlarmAddr, u), alarmUser' = u,
               pc'["Door"] = "setup"
        PROVE  AlarmInv'
    <3>1. /\ DeviceOf(u) = NoDevice /\ DeviceOf(u)' = AlarmAddr
      BY <2>2, LoginFresh
    <3>2. ASSUME AtMostOneLost
          PROVE  /\ \A w \in Slots : Held(w) => lUserID[w] # u
                 /\ Pending => login # u
      BY <3>1, <3>2, ServedAddrs DEF TableInv
    <3> QED
      BY <2>1, <2>2, <3>1, <3>2
  <2>3. CASE pc'["Door"] = "cleanup"
    BY <2>3
  <2> QED
    BY <1>9, <2>2, <2>3 DEF DoorLogin, Goto
<1>10. CASE DoorCleanup
  BY <1>10, <1>0, MainUp DEF DoorCleanup, NET_DVR_Cleanup, RefsInv, One, Goto,
     mainVars, doorVars, evVars, sdkVars
<1>11. CASE DoorSetupAlarm
  BY <1>11, <1>0 DEF DoorSetupAlarm, SetupAlarmChanOK, CallFails, Goto,
     mainVars, doorVars, evVars, sdkVars
<1>12. CASE DoorRegister
  BY <1>12, <1>0 DEF DoorRegister, SetMessageCallBackOK, CallFails, Goto,
     mainVars, doorVars, evVars, sdkVars
<1>13. CASE DoorGetchar
  BY <1>13, <1>0 DEF DoorGetchar, Goto, mainVars, doorVars, evVars, sdkVars
<1>14. CASE EvInit
  BY <1>14, <1>0 DEF EvInit, NET_DVR_Init, Goto, mainVars, doorVars, evVars,
     sdkVars
<1>15. CASE EvMalloc
  BY <1>15, <1>0 DEF EvMalloc, Goto, mainVars, doorVars, evVars, sdkVars
<1>16. CASE EvLogin
  BY <1>16, <1>0 DEF EvLogin, LoginOK, CallFails, MainInv, Listed, Goto,
     mainVars, doorVars, evVars, sdkVars
<1>17. CASE EvLoginFailed
  BY <1>17, <1>0, MainUp DEF EvLoginFailed, NET_DVR_Cleanup, RefsInv, One,
     Goto, mainVars, doorVars, evVars, sdkVars
<1>18. CASE EvStore
  BY <1>18, <1>0 DEF EvStore, Goto, mainVars, doorVars, evVars, sdkVars
<1>19. CASE EvLoopDone
  BY <1>19, <1>0 DEF EvLoopDone, Goto, mainVars, doorVars, evVars, sdkVars
<1>20. CASE EvBind
  BY <1>20, <1>0 DEF EvBind, Goto, mainVars, doorVars, evVars, sdkVars
<1>21. ASSUME NEW addr \in Addrs, ControlGateway(addr) PROVE AlarmInv'
  BY <1>21, <1>0 DEF ControlGateway, Goto, mainVars, doorVars, evVars, sdkVars
<1>22. CASE DispatchReturns
  BY <1>22, <1>0 DEF DispatchReturns, Goto, mainVars, doorVars, evVars, sdkVars
<1>23. CASE EvWSACleanup
  BY <1>23, <1>0 DEF EvWSACleanup, Goto, mainVars, doorVars, evVars, sdkVars
<1>24. ASSUME NEW k \in {0, 1}, EvLogout(k) PROVE AlarmInv'
  BY <1>24, <1>0 DEF EvLogout, Stored, NET_DVR_Logout, Live, CallFails, Goto,
     mainVars, doorVars, evVars, sdkVars
<1>25. CASE EvCleanup
  <2>1. /\ UNCHANGED <<alarmUser, ini>> /\ Lost' = Lost
        /\ pc["ev"] = "cleanup" /\ pc'["ev"] = "done" /\ pc'["Door"] = pc["Door"]
    BY <1>25, <1>0 DEF EvCleanup, Goto, mainVars, doorVars, evVars
  <2>2. ASSUME AtMostOneLost, AlarmUp PROVE refs > 1
    BY <2>1, <2>2, MainUp DEF RefsInv, One
  <2>3. ASSUME AtMostOneLost, AlarmUp PROVE UNCHANGED <<users, armed, callback>>
    BY <1>25, <2>2, <2>3 DEF EvCleanup, NET_DVR_Cleanup
  <2> QED
    BY <2>1, <2>3
<1>26. CASE UNCHANGED vars
  <2>1. UNCHANGED <<users, armed, callback, pc, lUserID, count, login, alarmUser, DoorParam, ini>>
    BY <1>26 DEF vars, threadVars, sdkVars
  <2> QED
    BY <1>0, <2>1
<1> HIDE DEF TypeOK, SdkTypeOK, CountInv, DoorPc, EvLoopPc, EvServerPc, Slots,
         Threads, Failed, AtMostOneLost, LostChange, AlarmInv, AlarmUp, Held,
         Pending, DeviceOf,
         LogoutsOwnHandles
<1>27. (\E t \in Threads : BeginThread(t)) => AlarmInv'
  BY <1>5
<1>28. (\E t \in Threads : HelperThread(t)) => AlarmInv'
  BY <1>7
<1>29. (\E addr \in Addrs : ControlGateway(addr)) => AlarmInv'
  BY <1>21
<1>30. EvLogout(0) \/ EvLogout(1) => AlarmInv'
  BY <1>24
<1> QED
  BY <1>1, <1>2, <1>3, <1>4, <1>6, <1>8, <1>9, <1>10, <1>11, <1>12, <1>13,
     <1>14, <1>15, <1>16, <1>17, <1>18, <1>19, <1>20, <1>22, <1>23, <1>25,
     <1>26, <1>27, <1>28, <1>29, <1>30, StepIsAction DEF Action

(* Requests are answered out of the truthful table. *)
LEMMA LastStep ==
    TypeOK /\ MainInv /\ CountInv /\ TableInv /\ LastInv /\ [Next]_vars
        => LastInv'
<1> SUFFICES ASSUME TypeOK, MainInv, CountInv, TableInv, LastInv, [Next]_vars
             PROVE  LastInv'
  OBVIOUS
<1>0. LostChange
  BY LostStep
<1> USE SdkAssumption, GatewayAssumption, IniAssumption
        DEF TypeOK, CountInv, DoorPc, EvLoopPc, EvServerPc, Slots, Threads,
            AtMostOneLost, LostChange, LastInv, NoMisdirectedCommand
<1>1. CASE ReadSection
  <2>1. pc["ev"] # "serve" /\ pc'["ev"] # "serve" /\ last' = last
    BY <1>1 DEF ReadSection, Goto, evVars, MainInv
  <2> QED
    BY <2>1
<1>2. CASE TerminateList
  BY <1>2, <1>0 DEF TerminateList, Goto, mainVars, doorVars, evVars, sdkVars
<1>3. CASE StartWinsock
  BY <1>3, <1>0 DEF StartWinsock, Goto, mainVars, doorVars, evVars, sdkVars
<1>4. CASE MainInit
  BY <1>4, <1>0 DEF MainInit, Goto, mainVars, doorVars, evVars, sdkVars
<1>5. ASSUME NEW t \in Threads, BeginThread(t) PROVE LastInv'
  BY <1>5, <1>0 DEF BeginThread, Goto, mainVars, doorVars, evVars, sdkVars
<1>6. CASE JoinThreads
  BY <1>6, <1>0 DEF JoinThreads, Goto, mainVars, doorVars, evVars, sdkVars
<1>7. ASSUME NEW t \in Threads, HelperThread(t) PROVE LastInv'
  BY <1>7, <1>0 DEF HelperThread, Goto, mainVars, doorVars, evVars, sdkVars
<1>8. CASE DoorInit
  BY <1>8, <1>0 DEF DoorInit, Goto, mainVars, doorVars, evVars, sdkVars
<1>9. CASE DoorLogin
  BY <1>9, <1>0 DEF DoorLogin, Goto, mainVars, doorVars, evVars, sdkVars
<1>10. CASE DoorCleanup
  BY <1>10, <1>0 DEF DoorCleanup, Goto, mainVars, doorVars, evVars, sdkVars
<1>11. CASE DoorSetupAlarm
  BY <1>11, <1>0 DEF DoorSetupAlarm, Goto, mainVars, doorVars, evVars, sdkVars
<1>12. CASE DoorRegister
  BY <1>12, <1>0 DEF DoorRegister, Goto, mainVars, doorVars, evVars, sdkVars
<1>13. CASE DoorGetchar
  BY <1>13, <1>0 DEF DoorGetchar, Goto, mainVars, doorVars, evVars, sdkVars
<1>14. CASE EvInit
  BY <1>14, <1>0 DEF EvInit, Goto, mainVars, doorVars, evVars, sdkVars
<1>15. CASE EvMalloc
  BY <1>15, <1>0 DEF EvMalloc, Goto, mainVars, doorVars, evVars, sdkVars
<1>16. CASE EvLogin
  BY <1>16, <1>0 DEF EvLogin, Goto, mainVars, doorVars, evVars, sdkVars
<1>17. CASE EvLoginFailed
  BY <1>17, <1>0 DEF EvLoginFailed, Goto, mainVars, doorVars, evVars, sdkVars
<1>18. CASE EvStore
  BY <1>18, <1>0 DEF EvStore, Goto, mainVars, doorVars, evVars, sdkVars
<1>19. CASE EvLoopDone
  BY <1>19, <1>0 DEF EvLoopDone, Goto, mainVars, doorVars, evVars, sdkVars
<1>20. CASE EvBind
  BY <1>20, <1>0 DEF EvBind, Goto, mainVars, doorVars, evVars, sdkVars
<1>21. ASSUME NEW addr \in Addrs, ControlGateway(addr) PROVE LastInv'
  <2>a. PICK k \in Slots :
             /\ SearchStopsAt(addr, k)
             /\ \E u \in Stored(k) :
                   last' \in [asked : {addr}, reached : {NoDevice, DeviceOf(u)}]
    BY <1>21 DEF ControlGateway
  <2>1. PICK u \in Stored(k) :
             last' \in [asked : {addr}, reached : {NoDevice, DeviceOf(u)}]
    BY <2>a
  <2>2. /\ UNCHANGED <<DoorParam, ini, lUserID, count, login, pc>>
        /\ Lost' = Lost /\ pc["ev"] = "serve" /\ count = ini.total
    BY <1>21, <1>0 DEF ControlGateway, mainVars
  <2>3. ASSUME AtMostOneLost \/ ini.total <= 2, k < count
        PROVE  DeviceOf(u) \in {NoDevice, addr}
    <3>1. u = lUserID[k] /\ DoorParam[k].ip = addr
      BY <2>1, <2>a, <2>3 DEF Stored, SearchStopsAt
    <3>2. CASE lUserID[k] = Failed
      BY <3>1, <3>2 DEF DeviceOf, Failed
    <3>3. CASE lUserID[k] # Failed /\ AtMostOneLost
      BY <2>2, <2>3, <3>1, <3>3 DEF TableInv, Held
    <3>4. CASE lUserID[k] # Failed /\ ~AtMostOneLost
      <4>1. PICK a \in Lost, b \in Lost : a # b
        BY <3>4
      <4>2. /\ a \in 0 .. 1 /\ b \in 0 .. 1 /\ k \in 0 .. 1
            /\ lUserID[a] = Failed /\ lUserID[b] = Failed
        BY <2>2, <2>3, <3>4 DEF Lost, Failed
      <4> QED
        BY <4>1, <4>2, <3>4
    <3> QED
      BY <3>2, <3>3, <3>4
  <2>4. ASSUME NEW j \in Slots, j < count, DoorParam[j].ip = addr
        PROVE  k < count
    BY <2>a, <2>4 DEF SearchStopsAt
  <2>5. /\ last'.asked = addr /\ last'.reached \in {NoDevice, DeviceOf(u)}
    BY <2>1
  <2> QED
    BY <2>2, <2>3, <2>4, <2>5
<1>22. CASE DispatchReturns
  BY <1>22, <1>0 DEF DispatchReturns, Goto, mainVars, doorVars, evVars, sdkVars
<1>23. CASE EvWSACleanup
  BY <1>23, <1>0 DEF EvWSACleanup, Goto, mainVars, doorVars, evVars, sdkVars
<1>24. ASSUME NEW k \in {0, 1}, EvLogout(k) PROVE LastInv'
  BY <1>24, <1>0 DEF EvLogout, Goto, mainVars, doorVars, evVars, sdkVars
<1>25. CASE EvCleanup
  BY <1>25, <1>0 DEF EvCleanup, Goto, mainVars, doorVars, evVars, sdkVars
<1>26. CASE UNCHANGED vars
  BY <1>26, <1>0 DEF vars, threadVars
<1> HIDE DEF TypeOK, CountInv, DoorPc, EvLoopPc, EvServerPc, Slots, Threads,
         AtMostOneLost, LostChange, LastInv, NoMisdirectedCommand
<1>27. (\E t \in Threads : BeginThread(t)) => LastInv'
  BY <1>5
<1>28. (\E t \in Threads : HelperThread(t)) => LastInv'
  BY <1>7
<1>29. (\E addr \in Addrs : ControlGateway(addr)) => LastInv'
  BY <1>21
<1>30. EvLogout(0) \/ EvLogout(1) => LastInv'
  BY <1>24
<1> QED
  BY <1>1, <1>2, <1>3, <1>4, <1>6, <1>8, <1>9, <1>10, <1>11, <1>12, <1>13,
     <1>14, <1>15, <1>16, <1>17, <1>18, <1>19, <1>20, <1>22, <1>23, <1>25,
     <1>26, <1>27, <1>28, <1>29, <1>30, StepIsAction DEF Action

-----------------------------------------------------------------------------
(* No call but a login adds a login. *)
Fewer == \A u \in UserIds : Live(u)' => Live(u)

LEMMA FewerLogins ==
    /\ NET_DVR_Init => Fewer
    /\ SdkTypeOK /\ NET_DVR_Cleanup => Fewer
    /\ \A u : SdkTypeOK /\ NET_DVR_Logout(u) => Fewer /\ ~Live(u)'
    /\ \A u : SetupAlarmChanOK(u) => Fewer
    /\ SetMessageCallBackOK => Fewer
    /\ CallFails => Fewer
    /\ UNCHANGED sdkVars => Fewer
<1>1. SdkTypeOK /\ NET_DVR_Cleanup => Fewer
  BY DEF SdkTypeOK, NET_DVR_Cleanup, Fewer, Live, sdkVars
<1>2. ASSUME NEW u, SdkTypeOK, NET_DVR_Logout(u) PROVE Fewer /\ ~Live(u)'
  <2>1. CASE Live(u)
    BY <1>2, <2>1 DEF SdkTypeOK, NET_DVR_Logout, Fewer, Live
  <2>2. CASE ~Live(u)
    BY <1>2, <2>2 DEF NET_DVR_Logout, CallFails, sdkVars, Fewer, Live
  <2> QED
    BY <2>1, <2>2
<1> QED
  BY <1>1, <1>2
     DEF NET_DVR_Init, SetupAlarmChanOK, SetMessageCallBackOK, CallFails, sdkVars,
         Fewer, Live

(* A step that adds no login, moves none and passes none of the points     *)
(* where the server lets go of one keeps the account.                      *)
LEMMA LoginsStay ==
    ASSUME LoginsInv, Fewer, UNCHANGED <<alarmUser, lUserID, count, login>>,
           \/ pc'["ev"] = pc["ev"]
           \/ /\ pc["ev"] \notin {"store", "logout1", "cleanup", "done"}
              /\ pc'["ev"] \notin {"logout1", "cleanup"}
           \/ pc'["ev"] = "done",
           pc'["Door"] \in {"idle", "init", "login"}
               => pc["Door"] \in {"idle", "init", "login"}
    PROVE  LoginsInv'
  BY DEF LoginsInv, Fewer, Kept, Slots

(* Logins come from two places only, and no handle is forgotten before its *)
(* logout.                                                                 *)
LEMMA LoginsStep ==
    TypeOK /\ CountInv /\ LoginsInv /\ [Next]_vars => LoginsInv'
<1> SUFFICES ASSUME TypeOK, CountInv, LoginsInv, [Next]_vars PROVE LoginsInv'
  OBVIOUS
<1> USE SdkAssumption, GatewayAssumption, FewerLogins, LoginsStay
        DEF TypeOK, Threads, Goto, mainVars, doorVars, evVars
<1>1. CASE ReadSection
  BY <1>1 DEF ReadSection
<1>2. CASE TerminateList
  BY <1>2 DEF TerminateList
<1>3. CASE StartWinsock
  BY <1>3 DEF StartWinsock
<1>4. CASE MainInit
  BY <1>4 DEF MainInit
<1>5. ASSUME NEW t \in Threads, BeginThread(t) PROVE LoginsInv'
  BY <1>5 DEF BeginThread
<1>6. CASE JoinThreads
  BY <1>6 DEF JoinThreads
<1>7. ASSUME NEW t \in Threads, HelperThread(t) PROVE LoginsInv'
  BY <1>7 DEF HelperThread
<1>8. CASE DoorInit
  BY <1>8 DEF DoorInit
<1>9. CASE DoorLogin
  <2>1. alarmUser = Failed /\ Failed \notin UserIds
    BY <1>9 DEF DoorLogin, LoginsInv, Failed
  <2>2. pc'["ev"] = pc["ev"] /\ pc'["Door"] \notin {"idle", "init", "login"}
    BY <1>9 DEF DoorLogin
  <2>3. \A u \in UserIds : Live(u)' => Live(u) \/ u = alarmUser'
    BY <1>9 DEF DoorLogin, LoginOK, CallFails, sdkVars, Live, SdkTypeOK
  <2>4. UNCHANGED <<lUserID, count, login>>
    BY <1>9 DEF DoorLogin
  <2> QED
    BY <2>1, <2>2, <2>3, <2>4 DEF LoginsInv, Kept
<1>10. CASE DoorCleanup
  BY <1>10 DEF DoorCleanup
<1>11. CASE DoorSetupAlarm
  BY <1>11 DEF DoorSetupAlarm
<1>12. CASE DoorRegister
  BY <1>12 DEF DoorRegister
<1>13. CASE DoorGetchar
  BY <1>13 DEF DoorGetchar
<1>14. CASE EvInit
  BY <1>14 DEF EvInit
<1>15. CASE EvMalloc
  BY <1>15 DEF EvMalloc
<1>16. CASE EvLogin
  <2>1. /\ UNCHANGED <<alarmUser, lUserID, count>>
        /\ pc["ev"] = "login" /\ pc'["ev"] \in {"store", "failed"}
        /\ pc'["Door"] = pc["Door"]
    BY <1>16 DEF EvLogin
  <2>2. \A u \in UserIds :
            Live(u)' => Live(u) \/ (pc'["ev"] = "store" /\ u = login')
    BY <1>16 DEF EvLogin, LoginOK, CallFails, sdkVars, Live, SdkTypeOK
  <2> QED
    BY <2>1, <2>2 DEF LoginsInv, Kept
<1>17. CASE EvLoginFailed
  BY <1>17 DEF EvLoginFailed
<1>18. CASE EvStore
  <2>1. /\ UNCHANGED <<alarmUser, users>> /\ pc["ev"] = "store" /\ pc'["ev"] = "login"
        /\ pc'["Door"] = pc["Door"]
        /\ count' = count + 1 /\ count \in Slots
        /\ lUserID' = [lUserID EXCEPT ![count] = login]
    BY <1>18 DEF EvStore, sdkVars
  <2>2. lUserID'[count] = login /\ \A k \in Slots : k # count => lUserID'[k] = lUserID[k]
    BY <2>1
  <2>3. \A k \in Slots : Kept(k) => Kept(k)' /\ k # count
    BY <2>1 DEF Kept, Slots
  <2>4. \A k \in Slots : k = count => Kept(k)'
    BY <2>1 DEF Kept, Slots
  <2>5. \A u \in UserIds : Live(u)' => Live(u)
    BY <2>1 DEF Live
  <2> QED
    BY <2>1, <2>2, <2>3, <2>4, <2>5 DEF LoginsInv
<1>19. CASE EvLoopDone
  BY <1>19 DEF EvLoopDone
<1>20. CASE EvBind
  BY <1>20 DEF EvBind
<1>21. ASSUME NEW addr \in Addrs, ControlGateway(addr) PROVE LoginsInv'
  BY <1>21 DEF ControlGateway
<1>22. CASE DispatchReturns
  BY <1>22 DEF DispatchReturns
<1>23. CASE EvWSACleanup
  BY <1>23 DEF EvWSACleanup
<1>24. ASSUME NEW k \in {0, 1}, EvLogout(k) PROVE LoginsInv'
  <2>1. PICK u \in Stored(k) : NET_DVR_Logout(u)
    BY <1>24 DEF EvLogout
  <2>2. /\ UNCHANGED <<alarmUser, lUserID, count, login>>
        /\ pc'["Door"] = pc["Door"]
        /\ pc["ev"] = (IF k = 0 THEN "logout0" ELSE "logout1")
        /\ pc'["ev"] = (IF k = 0 THEN "logout1" ELSE "cleanup")
    BY <1>24 DEF EvLogout
  <2>3. Fewer /\ ~Live(u)'
    BY <2>1
  <2>4. ASSUME NEW v \in UserIds, Live(v)', v # alarmUser
        PROVE  \E j \in Slots : Kept(j)' /\ v = lUserID[j]
    <3>1. PICK j \in Slots : Kept(j) /\ v = lUserID[j]
      BY <2>2, <2>3, <2>4 DEF LoginsInv, Fewer
    <3>2. j # k
      BY <2>1, <2>3, <2>4, <3>1 DEF Stored, Kept
    <3> QED
      BY <2>2, <3>1, <3>2 DEF Kept, Slots
  <2> QED
    BY <2>2, <2>4 DEF LoginsInv
<1>25. CASE EvCleanup
  BY <1>25 DEF EvCleanup
<1>26. CASE UNCHANGED vars
  BY <1>26 DEF vars, threadVars
<1> HIDE DEF TypeOK, Threads, Goto, mainVars, doorVars, evVars
<1>27. (\E t \in Threads : BeginThread(t)) => LoginsInv'
  BY <1>5
<1>28. (\E t \in Threads : HelperThread(t)) => LoginsInv'
  BY <1>7
<1>29. (\E addr \in Addrs : ControlGateway(addr)) => LoginsInv'
  BY <1>21
<1>30. EvLogout(0) \/ EvLogout(1) => LoginsInv'
  BY <1>24
<1> QED
  BY <1>1, <1>2, <1>3, <1>4, <1>6, <1>8, <1>9, <1>10, <1>11, <1>12, <1>13,
     <1>14, <1>15, <1>16, <1>17, <1>18, <1>19, <1>20, <1>22, <1>23, <1>25,
     <1>26, <1>27, <1>28, <1>29, <1>30, StepIsAction DEF Action

-----------------------------------------------------------------------------
(* The invariant holds at the start: nothing has been configured or tried. *)
LEMMA InitInv == Init => IInv
<1> SUFFICES ASSUME Init PROVE IInv
  OBVIOUS
<1> USE SdkAssumption, GatewayAssumption, IniAssumption
DEF Init, SdkInit, Slots, Threads
<1>1. TypeOK
  <2>1. SdkTypeOK
    BY DEF SdkTypeOK
  <2>2. DoorParam \in [Slots -> Entry]
    BY DEF Entry, Unused
  <2>3. last \in [asked : Addrs \cup {NoDevice}, reached : Addrs \cup {NoDevice}]
    OBVIOUS
  <2>4. lUserID \in [Slots -> UserIds \cup {Failed}]
    OBVIOUS
  <2> QED
    BY <2>1, <2>2, <2>3, <2>4 DEF TypeOK, Failed
<1>2. MainInv
  BY DEF MainInv, IniFile, Listed
<1>3. CountInv
  BY DEF TypeOK, CountInv, DoorPc, EvLoopPc, EvServerPc, IniFile
<1>4. RefsInv
  BY DEF RefsInv, Lost, One, DoorPc, EvLoopPc, EvServerPc
<1>5. TableInv
  BY DEF TableInv, Held, Pending
<1>6. AlarmInv
  BY DEF AlarmInv, AlarmUp
<1>7. LastInv
  BY DEF LastInv, NoMisdirectedCommand
<1>8. LoginsInv
  BY DEF LoginsInv, Live
<1> QED
  BY <1>1, <1>2, <1>3, <1>4, <1>5, <1>6, <1>7, <1>8 DEF IInv

(* IInv is inductive. *)
LEMMA StepInv == IInv /\ [Next]_vars => IInv'
  BY TypeStep, MainStep, CountStep, RefsStep, TableStep, AlarmStep,
     LastStep, LoginsStep DEF IInv

(* In every behaviour of the process, whatever the configuration, the heap *)
(* and the outcomes of the library calls, the inductive invariant holds.   *)
THEOREM Invariance == Spec => []IInv
  BY InitInv, StepInv, PTL DEF Spec

(* In every configuration, and however the heap was filled, the variables  *)
(* keep their types: the server's loop stays inside the table it fills.    *)
THEOREM TypeCorrect == Spec => []TypeOK
<1>1. IInv => TypeOK
  BY DEF IInv
<1> QED
  BY <1>1, Invariance, PTL

(* The server thread has walked exactly the configured doors. *)
THEOREM DoorsVisitedThm == Spec => []DoorsVisited
<1>1. IInv => DoorsVisited
  <2> SUFFICES ASSUME IInv, pc["ev"] \in EvServerPc,
                      NEW k \in Slots, k < count
               PROVE  count = ini.total /\ DoorParam[k].ip = ini.door[k]
    BY DEF DoorsVisited, IInv, CountInv, EvServerPc
  <2>1. count = ini.total /\ pc["ev"] # "idle"
    BY DEF IInv, CountInv, EvServerPc
  <2>2. Listed(k)
    BY <2>1 DEF IInv, MainInv
  <2> QED
    BY <2>1, <2>2 DEF Listed
<1> QED
  BY <1>1, Invariance, PTL

(* No command for a configured door reaches another one, unless two logins *)
(* failed and three doors are configured.                                  *)
THEOREM CommandsReachTheirDoor == Spec => []NoMisdirectedCommand
<1>1. IInv => NoMisdirectedCommand
  BY DEF IInv, LastInv
<1> QED
  BY <1>1, Invariance, PTL

(* The alarm channel survives everything the server thread does while at   *)
(* most one door failed.                                                   *)
THEOREM AlarmSurvives == Spec => []AlarmKept
<1>1. IInv => AlarmKept
  BY DEF IInv, AlarmInv, AlarmKept, AlarmUp
<1> QED
  BY <1>1, Invariance, PTL

(* The shutdown of the server leaves no login behind but the door          *)
(* thread's, with at most two doors.                                       *)
THEOREM ShutdownLogsOut == Spec => []LogoutsCoverTable
<1>1. IInv => LogoutsCoverTable
  <2> SUFFICES ASSUME IInv, pc["ev"] = "cleanup", ini.total <= 2,
                      NEW u \in UserIds, Live(u)
               PROVE  u = alarmUser
    BY DEF LogoutsCoverTable
  <2>1. \A k \in Slots : ~Kept(k)
    BY DEF IInv, CountInv, Kept, Slots, TypeOK, EvServerPc, IniFile
  <2> QED
    BY <2>1 DEF IInv, LoginsInv
<1> QED
  BY <1>1, Invariance, PTL

(* While the server serves, each recorded handle is its door's own. *)
THEOREM TableStaysTruthful == Spec => []TableTruthful
<1>1. IInv => TableTruthful
  BY DEF IInv, TableInv, TableTruthful, Held, TypeOK
<1> QED
  BY <1>1, Invariance, PTL

(* No NET_DVR_Cleanup is one too many while at most one door failed. *)
THEOREM CleanupsAreOwed == Spec => NoOverRelease
<1>1. IInv /\ [Next]_vars =>
        [DoorCleanup \/ EvLoginFailed \/ EvCleanup =>
            refs > 0 \/ ~AtMostOneLost']_vars
  <2> SUFFICES ASSUME IInv, [Next]_vars, AtMostOneLost',
                      DoorCleanup \/ EvLoginFailed \/ EvCleanup
               PROVE  refs > 0
    OBVIOUS
  <2>1. LostChange
    BY LostStep DEF IInv
  <2>2. AtMostOneLost
    BY <2>1 DEF AtMostOneLost, LostChange
  <2>3. pc["Door"] = "cleanup" \/ pc["ev"] \in {"failed", "cleanup"}
    BY DEF DoorCleanup, EvLoginFailed, EvCleanup, Goto
  <2>4. pc["main"] \in {"start", "wait"}
    BY <2>3, MainUp DEF IInv
  <2> QED
    BY <2>2, <2>3, <2>4
       DEF IInv, RefsInv, One, TypeOK, SdkTypeOK, DoorPc, EvLoopPc, EvServerPc
<1> QED
  BY <1>1, Invariance, PTL DEF NoOverRelease, Spec

-----------------------------------------------------------------------------
(* What the promise calls the server's phase, by the place of its thread;  *)
(* main has returned only if the server thread was done or never started.  *)
LEMMA PhaseByPlace ==
    ASSUME TypeOK, MainInv
    PROVE  /\ pc["ev"] = "serve" => Phase = "up"
           /\ pc["ev"] \in {"unbind", "logout0", "logout1", "cleanup", "done"}
                  => Phase = "down"
           /\ pc["ev"] \notin {"serve", "unbind", "logout0", "logout1", "cleanup", "done"}
                  => Phase = IF Ended THEN "down" ELSE "starting"
  BY DEF TypeOK, MainInv, Phase, Ended, Threads

(* A step that neither ends the process nor answers a request, and leaves  *)
(* the server on the same side of its start and of its stop, is none of    *)
(* the promise's.                                                          *)
LEMMA NoPhaseChange ==
    ASSUME TypeOK, MainInv, TypeOK', MainInv', ~Ended, UNCHANGED <<ini, last>>,
           \/ pc'["ev"] = pc["ev"] /\ ~Ended'
           \/ /\ pc["ev"] \in {"idle", "init", "malloc", "http"} \cup EvLoopPc
              /\ pc'["ev"] \in {"idle", "init", "malloc", "http"} \cup EvLoopPc
              /\ ~Ended'
           \/ /\ pc["ev"] \in {"unbind", "logout0", "logout1", "cleanup", "done"}
              /\ pc'["ev"] \in {"unbind", "logout0", "logout1", "cleanup", "done"}
    PROVE  UNCHANGED Doors!dcVars
<1>1. Configured' = Configured
  BY DEF Configured
<1>2. Phase' = Phase
  BY PhaseByPlace DEF Phase, EvLoopPc, Ended
<1> QED
  BY <1>1, <1>2 DEF Doors!dcVars

(* What it takes for handles to stay on their doors: a failed login gives  *)
(* the library back once too often only when it is the second, and with    *)
(* two doors at most nobody logs in after it who would get a used handle.  *)
HandlesSafe == AtMostOneLost \/ ini.total <= 2

(* As long as handles are safe, and with a heap that cannot pass for one,  *)
(* the server carries out a command at the door it names or not at all.    *)
LEMMA CommandKept ==
    ASSUME HandlesSafe', HeapFill \cap UserIds = {}, IInv, LastInv',
           NEW addr \in Addrs, ControlGateway(addr)
    PROVE  last' \in [asked : {addr}, reached : {NoDevice} \cup ({addr} \cap Configured)]
<1>1. PICK k \in Slots :
           /\ SearchStopsAt(addr, k)
           /\ \E u \in Stored(k) :
                 last' \in [asked : {addr}, reached : {NoDevice, DeviceOf(u)}]
  BY DEF ControlGateway
<1>2. PICK u \in Stored(k) :
           last' \in [asked : {addr}, reached : {NoDevice, DeviceOf(u)}]
  BY <1>1
<1>3. /\ UNCHANGED <<ini, DoorParam, count>> /\ pc["ev"] = "serve"
      /\ count = ini.total /\ ini.total \in 0 .. MaxDoors
  BY IniAssumption, GatewayAssumption
     DEF ControlGateway, mainVars, IInv, CountInv, EvServerPc, TypeOK, IniFile, Slots
<1>4. CASE k < count
  <2>1. DoorParam[k].ip = addr
    BY <1>1, <1>3, <1>4, GatewayAssumption DEF SearchStopsAt, Slots
  <2>2. last'.reached \in {NoDevice, addr}
    BY <1>2, <1>3, <1>4, <2>1, GatewayAssumption
       DEF LastInv, NoMisdirectedCommand, HandlesSafe
  <2>3. addr = ini.door[k]
    <3>1. Listed(k)
      BY <1>3, <1>4 DEF IInv, MainInv
    <3> QED
      BY <2>1, <3>1 DEF Listed
  <2>4. addr \in Configured
    BY <1>3, <1>4, <2>3, GatewayAssumption, SdkAssumption DEF Configured, Sections, Slots
  <2> QED
    BY <1>2, <2>2, <2>4
<1>5. CASE ~(k < count)
  <2>1. u \in HeapFill
    BY <1>5 DEF Stored
  <2>2. DeviceOf(u) = NoDevice
    BY <2>1 DEF DeviceOf
  <2> QED
    BY <1>2, <2>2
<1> QED
  BY <1>4, <1>5

(* Every step of the process is a step of the promise, or invisible to it. *)
LEMMA DoorPromiseStep ==
    ASSUME HandlesSafe', HeapFill \cap UserIds = {}, IInv, IInv', [Next]_vars
    PROVE  [Doors!Next]_Doors!dcVars
<1> USE NoPhaseChange DEF IInv, TypeOK, Threads, EvLoopPc, Goto, Ended,
                          mainVars, doorVars, evVars
<1>1. CASE UNCHANGED vars
  <2>1. UNCHANGED <<ini, pc, last>>
    BY <1>1 DEF vars, threadVars
  <2> QED
    BY <2>1 DEF Doors!dcVars, Configured, Phase
<1>2. CASE Action /\ ~Ended
  <2>1. CASE ReadSection
    <3>1. CASE pc'["main"] = "done"
      <4>1. /\ pc["main"] = "config" /\ pc["ev"] = "idle" /\ pc'["ev"] = "idle"
            /\ UNCHANGED <<ini, last>>
        BY <2>1, <3>1 DEF ReadSection, MainInv
      <4>2. Phase = "starting" /\ Phase' = "down" /\ Configured' = Configured
        BY <3>1, <4>1, <1>2 DEF Phase, Configured
      <4> QED
        BY <4>1, <4>2 DEF Doors!Next, Doors!GiveUp
    <3>2. CASE pc'["main"] # "done"
      BY <1>2, <2>1, <3>2 DEF ReadSection
    <3> QED
      BY <3>1, <3>2
  <2>2. CASE TerminateList \/ StartWinsock \/ MainInit
    BY <1>2, <2>2 DEF TerminateList, StartWinsock, MainInit
  <2>3. ASSUME NEW t \in Threads, BeginThread(t) PROVE UNCHANGED Doors!dcVars
    BY <1>2, <2>3 DEF BeginThread
  <2>4. CASE JoinThreads
    BY <1>2, <2>4 DEF JoinThreads
  <2>5. ASSUME NEW t \in Threads, HelperThread(t) PROVE UNCHANGED Doors!dcVars
    BY <1>2, <2>5 DEF HelperThread
  <2>6. CASE DoorInit \/ DoorLogin \/ DoorCleanup \/ DoorSetupAlarm \/ DoorRegister
    BY <1>2, <2>6 DEF DoorInit, DoorLogin, DoorCleanup, DoorSetupAlarm, DoorRegister
  <2>7. CASE DoorGetchar
    BY <1>2, <2>7 DEF DoorGetchar
  <2>8. CASE EvInit \/ EvLogin \/ EvLoginFailed \/ EvStore \/ EvLoopDone
    BY <1>2, <2>8 DEF EvInit, EvLogin, EvLoginFailed, EvStore, EvLoopDone
  <2>9. CASE EvMalloc \/ EvBind
    <3>1. /\ pc["ev"] \in {"malloc", "http"} /\ pc'["main"] # "done"
          /\ pc'["ev"] \in {"login", "serve", "done"} /\ UNCHANGED <<ini, last>>
      BY <1>2, <2>9 DEF EvMalloc, EvBind
    <3>2. Phase = "starting" /\ UNCHANGED Configured
      BY <1>2, <3>1, PhaseByPlace DEF Configured
    <3>3. CASE pc'["ev"] = "login"
      BY <1>2, <3>1, <3>3
    <3>4. CASE pc'["ev"] = "serve"
      <4>1. Phase' = "up"
        BY <3>1, <3>4 DEF Phase
      <4> QED
        BY <3>1, <3>2, <4>1 DEF Doors!Next, Doors!ComeUp
    <3>5. CASE pc'["ev"] = "done"
      <4>1. Phase' = "down"
        BY <3>5 DEF Phase
      <4> QED
        BY <3>1, <3>2, <4>1 DEF Doors!Next, Doors!GiveUp
    <3> QED
      BY <3>1, <3>3, <3>4, <3>5
  <2>10. ASSUME NEW addr \in Addrs, ControlGateway(addr)
         PROVE  Doors!Command(addr)
    <3>1. /\ pc["ev"] = "serve" /\ UNCHANGED <<pc, ini>>
      BY <2>10 DEF ControlGateway
    <3>2. Phase = "up" /\ UNCHANGED <<Phase, Configured>>
      BY <3>1, PhaseByPlace DEF Phase, Configured
    <3> QED
      BY <2>10, <3>2, CommandKept DEF Doors!Command
  <2>11. CASE DispatchReturns
    <3>1. /\ pc["ev"] = "serve" /\ pc'["ev"] = "unbind" /\ UNCHANGED ini
          /\ last' = [asked |-> NoDevice, reached |-> NoDevice]
      BY <2>11 DEF DispatchReturns
    <3>2. Phase = "up" /\ UNCHANGED Configured
      BY <3>1, PhaseByPlace DEF Configured
    <3>3. Phase' = "down"
      BY <3>1 DEF Phase
    <3> QED
      BY <3>1, <3>2, <3>3 DEF Doors!Next, Doors!Stop, Doors!None
  <2>12. CASE EvWSACleanup \/ EvLogout(0) \/ EvLogout(1) \/ EvCleanup
    BY <1>2, <2>12 DEF EvWSACleanup, EvLogout, EvCleanup
  <2> HIDE DEF IInv, TypeOK, Threads, EvLoopPc, Goto, Ended, mainVars, doorVars, evVars
  <2>13. (\E addr \in Addrs : ControlGateway(addr)) => Doors!Next
    BY <2>10 DEF Doors!Next
  <2> QED
    BY <1>2, <2>1, <2>2, <2>3, <2>4, <2>5, <2>6, <2>7, <2>8, <2>9, <2>11, <2>12,
       <2>13 DEF Action
<1> QED
  BY <1>1, <1>2, StepIsAction

(* The threads implement the safety half of the promise to those who       *)
(* operate doors for every configuration, as long as no more than one      *)
(* door's login has failed, given a heap on which unwritten memory holds   *)
(* no handle.                                                              *)
THEOREM ServerKeepsPromiseWhileSafe ==
    ASSUME HeapFill \cap UserIds = {}
    PROVE  Spec /\ []HandlesSafe => Doors!Safety
<1>1. Init => Doors!Init
  BY IniAssumption, GatewayAssumption
     DEF Init, Doors!Init, Doors!None, Configured, Phase, Ended, Threads, IniFile,
         Sections, Slots
<1>2. IInv /\ IInv' /\ HandlesSafe' /\ [Next]_vars => [Doors!Next]_Doors!dcVars
  BY DoorPromiseStep
<1> QED
  BY <1>1, <1>2, Invariance, PTL DEF Spec, Doors!Safety

(* For every configuration of at most two doors it does so whatever fails. *)
THEOREM ServerKeepsPromise ==
    ASSUME MaxDoors <= 2, HeapFill \cap UserIds = {}
    PROVE  Spec => Doors!Safety
<1>1. IInv => HandlesSafe
  BY IniAssumption, GatewayAssumption DEF IInv, TypeOK, IniFile, Slots, HandlesSafe
<1> QED
  BY <1>1, Invariance, ServerKeepsPromiseWhileSafe, PTL

-----------------------------------------------------------------------------
(* Where main and the server thread go from each of their places. *)
MainArrow(from, to) ==
    \/ from = "config" /\ to \in {"winsock", "done"}
    \/ from = "winsock" /\ to = "init"
    \/ from = "init" /\ to = "start"
    \/ from = "start" /\ to = "wait"
    \/ from = "wait" /\ to = "done"

EvArrow(from, to) ==
    \/ from = "init" /\ to = "malloc"
    \/ from = "malloc" /\ to \in {"login", "done"}
    \/ from = "login" /\ to \in {"store", "failed", "http"}
    \/ from = "failed" /\ to = "store"
    \/ from = "store" /\ to = "login"
    \/ from = "http" /\ to \in {"serve", "done"}
    \/ from = "serve" /\ to = "unbind"
    \/ from = "unbind" /\ to = "logout0"
    \/ from = "logout0" /\ to = "logout1"
    \/ from = "logout1" /\ to = "cleanup"
    \/ from = "cleanup" /\ to = "done"

MainPlaces ==
    \/ pc'["main"] = pc["main"] /\ (pc["main"] = "config" => i' \in {i, i + 1})
    \/ MainArrow(pc["main"], pc'["main"])

EvPlaces ==
    \/ pc'["ev"] = pc["ev"] /\ count' = count
    \/ pc["ev"] = "idle" /\ pc'["ev"] = "init" /\ count' = count
    \/ /\ EvArrow(pc["ev"], pc'["ev"])
       /\ count' = IF pc["ev"] = "store" THEN count + 1 ELSE count

HelperPlaces(t) ==
    \/ pc'[t] = pc[t]
    \/ pc[t] = "idle" /\ pc'[t] = "run"
    \/ pc[t] = "run" /\ pc'[t] = "done"

(* What a step may do to where the threads are. *)
Places ==
    /\ MainPlaces /\ EvPlaces /\ HelperPlaces("Camera") /\ HelperPlaces("IDReader")
    /\ pc["Door"] # "idle" => pc'["Door"] # "idle"
    /\ pc["Door"] = "done" => pc'["Door"] = "done"
    /\ pc["main"] = "start" /\ pc["IDReader"] = "idle" =>
           pc'["main"] = "wait" <=> pc'["IDReader"] # "idle"
    /\ pc'["main"] = "wait" /\ pc["main"] # "wait" =>
           \A t \in {"Camera", "Door", "ev"} : pc[t] # "idle"
    /\ pc["IDReader"] = "idle" /\ pc'["IDReader"] # "idle" => pc["main"] = "start"
    /\ ini' = ini

(* Every action of the process goes along one arrow, and BeginThread from  *)
(* idle to a thread's first place.                                         *)
LEMMA PlaceSteps == ASSUME TypeOK, [Next]_vars PROVE Places
<1> USE DEF TypeOK, Places, MainPlaces, EvPlaces, HelperPlaces, MainArrow, EvArrow,
            Goto, Threads, mainVars, doorVars, evVars
<1>1. CASE UNCHANGED vars
  BY <1>1 DEF vars, threadVars
<1>2. CASE ReadSection
  BY <1>2 DEF ReadSection
<1>3. CASE TerminateList \/ StartWinsock \/ MainInit
  BY <1>3 DEF TerminateList, StartWinsock, MainInit
<1>4. ASSUME NEW t \in Threads, BeginThread(t) PROVE Places
  BY <1>4 DEF BeginThread, StartedBefore
<1>5. CASE JoinThreads
  BY <1>5 DEF JoinThreads
<1>6. ASSUME NEW t \in Threads, HelperThread(t) PROVE Places
  BY <1>6 DEF HelperThread
<1>7. CASE DoorInit \/ DoorLogin \/ DoorCleanup
  BY <1>7 DEF DoorInit, DoorLogin, DoorCleanup
<1>8. CASE DoorSetupAlarm \/ DoorRegister \/ DoorGetchar
  BY <1>8 DEF DoorSetupAlarm, DoorRegister, DoorGetchar
<1>9. CASE EvInit \/ EvMalloc
  BY <1>9 DEF EvInit, EvMalloc
<1>10. CASE EvLogin \/ EvLoginFailed
  BY <1>10 DEF EvLogin, EvLoginFailed
<1>11. CASE EvStore \/ EvLoopDone \/ EvBind
  BY <1>11 DEF EvStore, EvLoopDone, EvBind
<1>12. ASSUME NEW addr \in Addrs, ControlGateway(addr) PROVE Places
  BY <1>12 DEF ControlGateway
<1>13. CASE DispatchReturns \/ EvWSACleanup
  BY <1>13 DEF DispatchReturns, EvWSACleanup
<1>14. CASE EvLogout(0) \/ EvLogout(1) \/ EvCleanup
  BY <1>14 DEF EvLogout, EvCleanup
<1> QED
  BY <1>1, <1>2, <1>3, <1>4, <1>5, <1>6, <1>7, <1>8, <1>9, <1>10, <1>11, <1>12,
     <1>13, <1>14, StepIsAction DEF Action

(* A step of its own takes a thread on. *)
LEMMA OwnSteps ==
    ASSUME TypeOK
    PROVE  /\ Main => \/ MainArrow(pc["main"], pc'["main"])
                      \/ pc["main"] = "config" /\ i' = i + 1
                      \/ /\ pc["main"] = "start"
                         /\ \E t \in Threads : BeginThread(t)
           /\ Ev => EvArrow(pc["ev"], pc'["ev"])
           /\ \A t \in {"Camera", "IDReader"} : HelperThread(t) => pc'[t] = "done"
<1> USE DEF TypeOK, MainArrow, EvArrow, Goto, Threads
<1>1. ReadSection => \/ MainArrow(pc["main"], pc'["main"])
                     \/ pc["main"] = "config" /\ i' = i + 1
  BY DEF ReadSection
<1>2. TerminateList \/ StartWinsock \/ MainInit \/ JoinThreads =>
          MainArrow(pc["main"], pc'["main"])
  BY DEF TerminateList, StartWinsock, MainInit, JoinThreads
<1>3. \A t \in Threads : BeginThread(t) => pc["main"] = "start"
  BY DEF BeginThread
<1>4. EvInit \/ EvMalloc \/ EvLogin \/ EvLoginFailed => EvArrow(pc["ev"], pc'["ev"])
  BY DEF EvInit, EvMalloc, EvLogin, EvLoginFailed
<1>5. EvStore \/ EvLoopDone \/ EvBind \/ EvWSACleanup => EvArrow(pc["ev"], pc'["ev"])
  BY DEF EvStore, EvLoopDone, EvBind, EvWSACleanup
<1>6. EvLogout(0) \/ EvLogout(1) \/ EvCleanup => EvArrow(pc["ev"], pc'["ev"])
  BY DEF EvLogout, EvCleanup
<1>7. \A t \in {"Camera", "IDReader"} : HelperThread(t) => pc'[t] = "done"
  BY DEF HelperThread
<1> HIDE DEF MainArrow, EvArrow, TypeOK, Threads
<1> QED
  BY <1>1, <1>2, <1>3, <1>4, <1>5, <1>6, <1>7 DEF Main, Ev

(* Main starts the reader's thread last, and waits once all have started. *)
OrderInv ==
    /\ pc["Camera"] \in {"idle", "run", "done"}
    /\ pc["IDReader"] \in {"idle", "run", "done"}
    /\ pc["main"] \in {"config", "winsock", "init", "start"} => pc["IDReader"] = "idle"
    /\ pc["main"] = "wait" => \A t \in {"Camera", "Door", "ev", "IDReader"} : pc[t] # "idle"

LEMMA OrderInvariance == Spec => []OrderInv
<1>1. Init => OrderInv
  BY DEF Init, OrderInv, Threads
<1>2. IInv /\ OrderInv /\ [Next]_vars => OrderInv'
  <2> SUFFICES ASSUME IInv, OrderInv, [Next]_vars PROVE OrderInv'
    OBVIOUS
  <2>1. Places
    BY PlaceSteps DEF IInv
  <2>2. /\ pc["ev"] # "idle" => pc'["ev"] # "idle"
        /\ \A t \in {"Camera", "IDReader"} : pc[t] # "idle" => pc'[t] # "idle"
    BY <2>1 DEF Places, EvPlaces, EvArrow, HelperPlaces
  <2>3. pc'["main"] \in {"config", "winsock", "init", "start"} =>
            pc["main"] \in {"config", "winsock", "init", "start"}
    BY <2>1 DEF Places, MainPlaces, MainArrow, IInv, MainInv
  <2>4. pc'["main"] \in {"config", "winsock", "init", "start"} => pc'["IDReader"] = "idle"
    BY <2>1, <2>3 DEF OrderInv, Places, HelperPlaces, MainPlaces, MainArrow
  <2>5. pc["main"] # "wait" /\ pc'["main"] = "wait" => pc["main"] = "start"
    BY <2>1 DEF Places, MainPlaces, MainArrow
  <2> QED
    BY <2>1, <2>2, <2>4, <2>5 DEF OrderInv, Places, HelperPlaces
<1> QED
  BY <1>1, <1>2, Invariance, PTL DEF Spec

-----------------------------------------------------------------------------
(* What the proofs about the end of loops start from: the invariants hold, *)
(* the threads are scheduled, and none is stuck.                           *)
Running == FairSpec /\ []NeverStuck

Main_At(place) == pc["main"] = place
Ev_At(place) == pc["ev"] = place

(* Main at section n of the configuration, the server at entry n of its    *)
(* list.                                                                   *)
Reading(n) == pc["main"] = "config" /\ i = n
Visiting(n) == pc["ev"] \in EvLoopPc /\ count = n

ReadOn(n, m) == Reading(n) ~> Reading(m) \/ ~Main_At("config")
VisitOn(n, m) == Visiting(n) ~> Visiting(m) \/ Ev_At("http")

(* Every turn of main's loop comes to the next section or out of the loop. *)
LEMMA ReadingTurn ==
    ASSUME NEW n \in Nat, NEW m \in Nat, m = n + 1
    PROVE  Running => ReadOn(n, m)
<1>1. IInv /\ [Next]_vars /\ Reading(n) => (Reading(n) \/ Reading(m) \/ ~Main_At("config"))'
  BY PlaceSteps DEF IInv, Places, MainPlaces, MainArrow, Reading, Main_At
<1>2. IInv /\ Reading(n) /\ <<Main /\ ~Ended>>_vars => (Reading(m) \/ ~Main_At("config"))'
  BY OwnSteps DEF IInv, MainArrow, Reading, Main_At
<1>3. NeverStuck /\ Reading(n) => ENABLED <<Main /\ ~Ended>>_vars
  BY DEF NeverStuck, Reading, Ended
<1> QED
  BY <1>1, <1>2, <1>3, Invariance, PTL DEF Running, FairSpec, Spec, Fairness, ReadOn

(* Every turn of the server's loop comes to the next entry or out of the   *)
(* loop.                                                                   *)
LEMMA VisitingTurn ==
    ASSUME NEW n \in Nat, NEW m \in Nat, m = n + 1
    PROVE  Running => VisitOn(n, m)
<1> DEFINE At(place) == pc["ev"] = place /\ count = n
<1>1. Visiting(n) <=> At("login") \/ At("failed") \/ At("store")
  BY DEF Visiting, EvLoopPc
<1>2. IInv /\ [Next]_vars =>
          /\ At("login") => (At("login") \/ At("failed") \/ At("store") \/ Ev_At("http"))'
          /\ At("failed") => (At("failed") \/ At("store"))'
          /\ At("store") => (At("store") \/ Visiting(m))'
  BY PlaceSteps DEF IInv, Places, EvPlaces, EvArrow, Visiting, EvLoopPc, Ev_At
<1>3. IInv /\ [Next]_vars /\ <<Ev /\ ~Ended>>_vars =>
          /\ At("login") => (At("failed") \/ At("store") \/ Ev_At("http"))'
          /\ At("failed") => At("store")'
          /\ At("store") => Visiting(m)'
  <2> SUFFICES ASSUME IInv, [Next]_vars, Ev
               PROVE  /\ At("login") => (At("failed") \/ At("store") \/ Ev_At("http"))'
                      /\ At("failed") => At("store")'
                      /\ At("store") => Visiting(m)'
    OBVIOUS
  <2>1. EvArrow(pc["ev"], pc'["ev"]) /\ EvPlaces
    BY PlaceSteps, OwnSteps DEF IInv, Places
  <2> QED
    BY <2>1 DEF EvPlaces, EvArrow, Visiting, EvLoopPc, Ev_At
<1>4. IInv /\ NeverStuck /\ Visiting(n) => ENABLED <<Ev /\ ~Ended>>_vars
  BY DEF IInv, MainInv, NeverStuck, Visiting, EvLoopPc, Ended, Threads
<1> HIDE DEF At
<1> QED
  BY <1>1, <1>2, <1>3, <1>4, Invariance, PTL DEF Running, FairSpec, Spec, Fairness, VisitOn

(* The configuration file has 16 sections at most, so main's loop ends.    *)
LEMMA ReadingEnds == Running => (Main_At("config") ~> ~Main_At("config"))
<1>1. IInv /\ Main_At("config") =>
          \/ Reading(0) \/ Reading(1) \/ Reading(2) \/ Reading(3) \/ Reading(4)
          \/ Reading(5) \/ Reading(6) \/ Reading(7) \/ Reading(8) \/ Reading(9)
          \/ Reading(10) \/ Reading(11) \/ Reading(12) \/ Reading(13) \/ Reading(14)
          \/ Reading(15) \/ Reading(16)
  BY GatewayAssumption DEF IInv, TypeOK, Slots, Main_At, Reading
<1>2. IInv => ~Reading(17)
  BY GatewayAssumption DEF IInv, TypeOK, Slots, Reading
<1>3. Running =>
          /\ ReadOn(0, 1) /\ ReadOn(1, 2) /\ ReadOn(2, 3) /\ ReadOn(3, 4)
          /\ ReadOn(4, 5) /\ ReadOn(5, 6) /\ ReadOn(6, 7) /\ ReadOn(7, 8)
          /\ ReadOn(8, 9) /\ ReadOn(9, 10) /\ ReadOn(10, 11) /\ ReadOn(11, 12)
          /\ ReadOn(12, 13) /\ ReadOn(13, 14) /\ ReadOn(14, 15) /\ ReadOn(15, 16)
          /\ ReadOn(16, 17)
  BY ReadingTurn
<1> QED
  BY <1>1, <1>2, <1>3, Invariance, PTL DEF Running, FairSpec, ReadOn

(* Nor has the server's list more entries, whichever logins fail. *)
LEMMA VisitingEnds == Running => (pc["ev"] \in EvLoopPc ~> Ev_At("http"))
<1>1. IInv /\ pc["ev"] \in EvLoopPc =>
          \/ Visiting(0) \/ Visiting(1) \/ Visiting(2) \/ Visiting(3) \/ Visiting(4)
          \/ Visiting(5) \/ Visiting(6) \/ Visiting(7) \/ Visiting(8) \/ Visiting(9)
          \/ Visiting(10) \/ Visiting(11) \/ Visiting(12) \/ Visiting(13) \/ Visiting(14)
          \/ Visiting(15) \/ Visiting(16)
  BY GatewayAssumption DEF IInv, TypeOK, Slots, Visiting
<1>2. IInv => ~Visiting(17)
  BY GatewayAssumption DEF IInv, TypeOK, Slots, Visiting
<1>3. Running =>
          /\ VisitOn(0, 1) /\ VisitOn(1, 2) /\ VisitOn(2, 3) /\ VisitOn(3, 4)
          /\ VisitOn(4, 5) /\ VisitOn(5, 6) /\ VisitOn(6, 7) /\ VisitOn(7, 8)
          /\ VisitOn(8, 9) /\ VisitOn(9, 10) /\ VisitOn(10, 11) /\ VisitOn(11, 12)
          /\ VisitOn(12, 13) /\ VisitOn(13, 14) /\ VisitOn(14, 15) /\ VisitOn(15, 16)
          /\ VisitOn(16, 17)
  BY VisitingTurn
<1> QED
  BY <1>1, <1>2, <1>3, Invariance, PTL DEF Running, FairSpec, VisitOn

(* Once its loop has ended main comes to start the threads. *)
LEMMA MainGetsReady ==
    Running => (Main_At("config") \/ Main_At("winsock") \/ Main_At("init")
                    ~> Main_At("start") \/ Main_At("done"))
<1>1. IInv /\ [Next]_vars =>
          /\ Main_At("config") => (Main_At("config") \/ Main_At("winsock") \/ Main_At("done"))'
          /\ Main_At("winsock") => (Main_At("winsock") \/ Main_At("init"))'
          /\ Main_At("init") => (Main_At("init") \/ Main_At("start"))'
  BY PlaceSteps DEF IInv, Places, MainPlaces, MainArrow, Main_At
<1>2. IInv /\ <<Main /\ ~Ended>>_vars =>
          /\ Main_At("winsock") => Main_At("init")'
          /\ Main_At("init") => Main_At("start")'
  BY OwnSteps DEF IInv, MainArrow, Main_At
<1>3. NeverStuck /\ (Main_At("winsock") \/ Main_At("init")) => ENABLED <<Main /\ ~Ended>>_vars
  BY DEF NeverStuck, Main_At, Ended
<1> QED
  BY <1>1, <1>2, <1>3, ReadingEnds, Invariance, PTL DEF Running, FairSpec, Spec, Fairness

Begun(t) == pc[t] # "idle"

(* Main starts one thread after the other. *)
LEMMA ThreadsBegin == Running => (Main_At("start") ~> Main_At("wait"))
<1>1. IInv /\ [Next]_vars =>
          /\ Main_At("start") => (Main_At("start") \/ Main_At("wait"))'
          /\ Begun("Camera") => Begun("Camera")'
          /\ Begun("Door") => Begun("Door")'
          /\ Begun("ev") => Begun("ev")'
  BY PlaceSteps
     DEF IInv, Places, MainPlaces, MainArrow, EvPlaces, EvArrow, HelperPlaces, Main_At, Begun
<1>2. IInv /\ OrderInv /\ [Next]_vars /\ <<Main /\ ~Ended>>_vars /\ Main_At("start") =>
          /\ ~Begun("Camera") => Begun("Camera")'
          /\ Begun("Camera") /\ ~Begun("Door") => Begun("Door")'
          /\ Begun("Camera") /\ Begun("Door") /\ ~Begun("ev") => Begun("ev")'
          /\ Begun("Camera") /\ Begun("Door") /\ Begun("ev") => Main_At("wait")'
  <2> SUFFICES ASSUME IInv, OrderInv, [Next]_vars, Main, Main_At("start")
               PROVE  /\ ~Begun("Camera") => Begun("Camera")'
                      /\ Begun("Camera") /\ ~Begun("Door") => Begun("Door")'
                      /\ Begun("Camera") /\ Begun("Door") /\ ~Begun("ev") => Begun("ev")'
                      /\ Begun("Camera") /\ Begun("Door") /\ Begun("ev") => Main_At("wait")'
    OBVIOUS
  <2>1. Places
    BY PlaceSteps DEF IInv
  <2>2. CASE MainArrow(pc["main"], pc'["main"])
    BY <2>1, <2>2 DEF MainArrow, Places, Main_At, Begun
  <2>3. ASSUME NEW t \in Threads, BeginThread(t)
        PROVE  /\ ~Begun("Camera") => Begun("Camera")'
               /\ Begun("Camera") /\ ~Begun("Door") => Begun("Door")'
               /\ Begun("Camera") /\ Begun("Door") /\ ~Begun("ev") => Begun("ev")'
               /\ Begun("Camera") /\ Begun("Door") /\ Begun("ev") => Main_At("wait")'
    BY <2>3 DEF BeginThread, StartedBefore, Threads, Begun, Main_At, IInv, TypeOK
  <2> QED
    BY <2>2, <2>3, OwnSteps DEF IInv, Main_At
<1>3. NeverStuck /\ Main_At("start") => ENABLED <<Main /\ ~Ended>>_vars
  BY DEF NeverStuck, Main_At, Ended
<1> QED
  BY <1>1, <1>2, <1>3, Invariance, OrderInvariance, PTL
     DEF Running, FairSpec, Spec, Fairness

(* The server thread, once begun, serves or has given up. *)
LEMMA ServerGetsReady ==
    Running => (Ev_At("init") \/ Ev_At("malloc") \/ pc["ev"] \in EvLoopPc \/ Ev_At("http")
                    ~> Ev_At("serve") \/ Ev_At("done"))
<1> DEFINE Looping == pc["ev"] \in EvLoopPc
<1>1. IInv /\ [Next]_vars =>
          /\ Ev_At("init") => (Ev_At("init") \/ Ev_At("malloc"))'
          /\ Ev_At("malloc") => (Ev_At("malloc") \/ Looping \/ Ev_At("done"))'
          /\ Ev_At("http") => (Ev_At("http") \/ Ev_At("serve") \/ Ev_At("done"))'
  BY PlaceSteps DEF IInv, Places, EvPlaces, EvArrow, EvLoopPc, Ev_At
<1>2. IInv /\ <<Ev /\ ~Ended>>_vars =>
          /\ Ev_At("init") => Ev_At("malloc")'
          /\ Ev_At("malloc") => (Looping \/ Ev_At("done"))'
          /\ Ev_At("http") => (Ev_At("serve") \/ Ev_At("done"))'
  BY OwnSteps DEF IInv, EvArrow, EvLoopPc, Ev_At
<1>3. IInv /\ NeverStuck /\ (Ev_At("init") \/ Ev_At("malloc") \/ Ev_At("http"))
          => ENABLED <<Ev /\ ~Ended>>_vars
  BY DEF IInv, MainInv, NeverStuck, Ev_At, Ended, Threads
<1>4. Running => (Looping ~> Ev_At("http"))
  BY VisitingEnds
<1> HIDE DEF Looping
<1> QED
  BY <1>1, <1>2, <1>3, <1>4, Invariance, PTL DEF Running, FairSpec, Spec, Fairness, Looping

(* The other half of the promise to those who operate doors: for every     *)
(* configuration, and whichever calls fail, the server does not stay at    *)
(* its start forever.                                                      *)
THEOREM ServerStarts ==
    FairSpec /\ []NeverStuck => (Phase = "starting" ~> Phase # "starting")
<1> DEFINE Starting == Phase = "starting"
           Preparing == \/ Ev_At("init") \/ Ev_At("malloc")
                        \/ pc["ev"] \in EvLoopPc \/ Ev_At("http")
<1>1. IInv /\ Starting => ~Main_At("done") /\ (~Begun("ev") \/ Preparing)
  BY PhaseByPlace DEF IInv, CountInv, EvLoopPc, EvServerPc, Ev_At, Begun, Main_At, Ended
<1>2. IInv /\ (Main_At("done") \/ Ev_At("serve") \/ Ev_At("done")) => ~Starting
  BY PhaseByPlace DEF IInv, Ev_At, Main_At, Ended
<1>3. IInv => \/ Main_At("config") \/ Main_At("winsock") \/ Main_At("init")
              \/ Main_At("start") \/ Main_At("wait") \/ Main_At("done")
  BY DEF IInv, MainInv, Main_At
<1>4. OrderInv /\ Main_At("wait") => Begun("ev")
  BY DEF OrderInv, Main_At, Begun
<1>5. Running => (Preparing ~> Ev_At("serve") \/ Ev_At("done"))
  BY ServerGetsReady, PTL DEF Preparing
<1>6. (Phase = "starting" <=> Starting) /\ (Phase # "starting" <=> ~Starting)
  OBVIOUS
<1> HIDE DEF Starting, Preparing
<1> QED
  BY <1>1, <1>2, <1>3, <1>4, <1>5, <1>6, MainGetsReady, ThreadsBegin, Invariance,
     OrderInvariance, PTL DEF Running, FairSpec

HelperReturns(t) == pc[t] = "run" ~> pc[t] = "done" \/ Main_At("done")

(* The threads that do nothing return. *)
LEMMA HelperEnds ==
    ASSUME NEW t \in {"Camera", "IDReader"}
    PROVE  Running => HelperReturns(t)
<1> DEFINE At(place) == pc[t] = place
<1>1. IInv /\ [Next]_vars => (At("run") => (At("run") \/ At("done"))')
  BY PlaceSteps DEF IInv, Places, HelperPlaces
<1>2. IInv /\ <<HelperThread(t) /\ ~Ended>>_vars => At("done")'
  BY OwnSteps DEF IInv
<1>3. NeverStuck /\ At("run") => Main_At("done") \/ ENABLED <<HelperThread(t) /\ ~Ended>>_vars
  BY DEF NeverStuck, Main_At, Ended
<1>4. HelpersRun => HelperRuns(t)
  BY DEF HelpersRun
<1> HIDE DEF At
<1>5. Running => (At("run") ~> At("done") \/ Main_At("done"))
  BY <1>1, <1>2, <1>3, <1>4, Invariance, PTL
     DEF Running, FairSpec, Spec, Fairness, HelperRuns
<1> QED
  BY <1>5, PTL DEF At, HelperReturns

(* For every configuration the process ends, if a section of it lacks a    *)
(* key, and once the door and the server thread have returned.             *)
THEOREM ProcessComesToItsEnd == FairSpec /\ []NeverStuck => ProcessEnds
<1> DEFINE Returned == pc["Door"] = "done" /\ pc["ev"] = "done"
           CameraAt(place) == pc["Camera"] = place
           ReaderAt(place) == pc["IDReader"] = place
<1>1. IInv /\ ~Complete => Main_At("config") \/ Main_At("done")
  <2> SUFFICES ASSUME IInv, ~Complete, ~Main_At("config"), ~Main_At("done") PROVE FALSE
    OBVIOUS
  <2>1. ini.num /\ \A k \in Slots : k < ini.total => ini.door[k] \in Addrs
    BY DEF IInv, MainInv, Listed, Main_At
  <2> QED
    BY <2>1, GatewayAssumption DEF Complete, Sections, Slots
<1>2. IInv /\ [Next]_vars => /\ ~Complete => ~Complete'
                             /\ Returned => Returned'
                             /\ Main_At("wait") => (Main_At("wait") \/ Main_At("done"))'
  BY PlaceSteps
     DEF IInv, Places, Complete, MainPlaces, MainArrow, EvPlaces, EvArrow, Main_At
<1>3. IInv /\ Returned => Main_At("start") \/ Main_At("wait") \/ Main_At("done")
  BY DEF IInv, MainInv, Main_At, Threads
<1>4. OrderInv /\ Main_At("wait") => /\ CameraAt("run") \/ CameraAt("done")
                                     /\ ReaderAt("run") \/ ReaderAt("done")
  BY DEF OrderInv, Main_At
<1>5. IInv /\ [Next]_vars => /\ CameraAt("done") => CameraAt("done")'
                             /\ ReaderAt("done") => ReaderAt("done")'
  BY PlaceSteps DEF IInv, Places, HelperPlaces
<1>6. Running => HelperReturns("Camera") /\ HelperReturns("IDReader")
  BY HelperEnds
<1>7. Running => /\ CameraAt("run") ~> (CameraAt("done") \/ Main_At("done"))
                 /\ ReaderAt("run") ~> (ReaderAt("done") \/ Main_At("done"))
  BY <1>6, PTL DEF HelperReturns
<1>8. NeverStuck /\ Main_At("wait") /\ Returned /\ CameraAt("done") /\ ReaderAt("done")
          => ENABLED <<Main /\ ~Ended>>_vars
  BY DEF NeverStuck, Main_At, Ended, Threads
<1>9. IInv /\ <<Main /\ ~Ended>>_vars /\ Main_At("wait") => Main_At("done")'
  BY OwnSteps DEF IInv, MainArrow, Main_At
<1>10. Main_At("done") <=> Ended
  BY DEF Main_At, Ended
<1> HIDE DEF Returned, CameraAt, ReaderAt
<1>11. Running => (~Complete ~> Ended)
  BY <1>1, <1>2, <1>10, ReadingEnds, Invariance, PTL DEF Running, FairSpec, Spec
<1>12. Running => (Main_At("wait") /\ Returned ~> Ended)
  <2> DEFINE AllReturned == Returned /\ CameraAt("done") /\ ReaderAt("done")
  <2>1. Running => (Main_At("wait") /\ Returned
                      ~> (Ended \/ (Main_At("wait") /\ AllReturned)))
    BY <1>2, <1>4, <1>5, <1>7, <1>10, Invariance, OrderInvariance, PTL
       DEF Running, FairSpec, Spec
  <2>2. IInv /\ [Next]_vars => (AllReturned => AllReturned')
    BY <1>2, <1>5
  <2>3. NeverStuck /\ Main_At("wait") /\ AllReturned => ENABLED <<Main /\ ~Ended>>_vars
    BY <1>8
  <2> HIDE DEF AllReturned
  <2>4. Running => (Main_At("wait") /\ AllReturned ~> Ended)
    BY <1>2, <1>9, <1>10, <2>2, <2>3, Invariance, PTL DEF Running, FairSpec, Spec, Fairness
  <2> QED
    BY <2>1, <2>4, PTL
<1>13. Running => (Returned ~> Ended)
  BY <1>2, <1>3, <1>10, <1>12, ThreadsBegin, Invariance, PTL DEF Running, FairSpec, Spec
<1> QED
  BY <1>11, <1>13, PTL DEF Running, ProcessEnds, Returned
=============================================================================
