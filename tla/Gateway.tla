------------------------------ MODULE Gateway ------------------------------
(***************************************************************************)
(* The process: main reads the configuration and starts four threads; the  *)
(* door thread logs in to one door and arms its alarm channel; the server  *)
(* thread logs in to every configured door, records the handles in a table *)
(* and serves HTTP door-control requests out of that table; the camera and *)
(* reader threads do nothing that the others can see.  All of them share   *)
(* the device library (HikSdk), and that sharing is what this module is    *)
(* about: what one thread's NET_DVR_Cleanup does to another's logins.      *)
(***************************************************************************)
EXTENDS HikSdk

CONSTANTS
    MaxDoors,       \* most door sections the configuration file can hold
    Missing,        \* a section of the file that lacks one of its keys
    AlarmAddr,      \* the address the door thread has built in
    HeapFill,       \* the LONG values fresh heap memory can contain
    IniFiles        \* the configuration files considered

ASSUME GatewayAssumption ==
    /\ MaxDoors \in Nat
    /\ MaxDoors <= 16       \* ip[16] of pthread_t
    /\ AlarmAddr \in Addrs
    /\ Missing \notin Addrs
    /\ HeapFill \subseteq Int

Sections == 0 .. MaxDoors - 1
Slots == 0 .. MaxDoors

(* Whether section [NUM] has its total, the total, and what ReadConfig     *)
(* finds in each section [DOOR<i>].                                        *)
IniFile == [num : BOOLEAN, total : Slots, door : [Sections -> Addrs \cup {Missing}]]

ASSUME IniAssumption == IniFiles \subseteq IniFile

Failed == -1                    \* what a failed NET_DVR_Login_V30 returns
Threads == {"main", "Camera", "Door", "ev", "IDReader"}

VARIABLES
    ini,        \* the configuration file: NUM and the DOOR<i> sections
    DoorParam,  \* the array main fills and the server thread walks
    pc,         \* where each thread is
    i,          \* main's loop counter
    winsock,    \* WSAStartup calls not yet matched by WSACleanup
    alarmUser,  \* the door thread's lUserID
    lUserID,    \* Thread_Params->lUserID: the handle of each door
    count,      \* the server thread's count, then Thread_Params->wLen
    login,      \* the server thread's local lUserID
    last        \* the last door-control request: asked for, carried out at
                \* (NoDevice once the server has stopped)

threadVars == <<pc, i, winsock, alarmUser, lUserID, count, login, last>>
vars == <<ini, DoorParam, threadVars, sdkVars>>

Entry == [key : {"none", "ip", "total"}, ip : Addrs \cup {Missing}]
Unused == [key |-> "none", ip |-> Missing]

TypeOK ==
    /\ SdkTypeOK
    /\ ini \in IniFiles
    /\ DoorParam \in [Slots -> Entry]
    /\ pc \in [Threads -> {"idle", "config", "winsock", "init", "start", "wait",
                           "login", "failed", "store", "setup", "register",
                           "getchar", "malloc", "http", "serve", "unbind",
                           "logout0", "logout1", "cleanup", "run", "done"}]
    /\ i \in Slots
    /\ winsock \in Nat
    /\ alarmUser \in UserIds \cup {Failed}
    /\ lUserID \in [Slots -> UserIds \cup {Failed}]
    /\ count \in Slots
    /\ login \in UserIds \cup {Failed}
    /\ last \in [asked : Addrs \cup {NoDevice}, reached : Addrs \cup {NoDevice}]

Init ==
    /\ SdkInit
    /\ ini \in IniFiles
    /\ DoorParam = [k \in Slots |-> Unused]
    /\ pc = [t \in Threads |-> IF t = "main" THEN "config" ELSE "idle"]
    /\ i = 0
    /\ winsock = 0
    /\ alarmUser = Failed
    /\ lUserID = [k \in Slots |-> Failed]
    /\ count = 0
    /\ login = Failed
    /\ last = [asked |-> NoDevice, reached |-> NoDevice]

Goto(t, from, to) ==
    /\ pc[t] = from
    /\ pc' = [pc EXCEPT ![t] = to]

-----------------------------------------------------------------------------
(* main                                                                    *)

mainVars == <<ini, DoorParam, i, winsock>>
doorVars == <<alarmUser>>
evVars == <<lUserID, count, login, last>>

(* ReadConfig of section NUM, then of each DOOR<i>: it fails on the first  *)
(* key with no value, and main returns.                                    *)
ReadSection ==
    /\ ~ini.num \/ i < ini.total
    /\ IF ~ini.num \/ ini.door[i] = Missing
       THEN /\ Goto("main", "config", "done")
            /\ UNCHANGED mainVars
       ELSE /\ pc["main"] = "config"
            /\ DoorParam' = [DoorParam EXCEPT ![i] = [key |-> "ip", ip |-> ini.door[i]]]
            /\ i' = i + 1
            /\ UNCHANGED <<ini, winsock, pc>>
    /\ UNCHANGED <<doorVars, evVars, sdkVars>>

(* Mutant of TerminateList: the last door is overwritten by the entry that *)
(* ends the list.                                                          *)
TerminateOneEarly ==
    /\ ini.num /\ i = ini.total
    /\ Goto("main", "config", "winsock")
    /\ DoorParam' = [DoorParam EXCEPT ![i - 1] = [key |-> "total", ip |-> Missing]]
    /\ UNCHANGED <<ini, i, winsock, doorVars, evVars, sdkVars>>

(* DoorParam[i] = DoorNum: the entry whose first key is "total" ends the list. *)
TerminateList ==
    /\ ini.num /\ i = ini.total
    /\ Goto("main", "config", "winsock")
    /\ DoorParam' = [DoorParam EXCEPT ![i] = [key |-> "total", ip |-> Missing]]
    /\ UNCHANGED <<ini, i, winsock, doorVars, evVars, sdkVars>>

(* init_win_socket; its result is ignored. *)
StartWinsock ==
    /\ Goto("main", "winsock", "init")
    /\ winsock' \in {0, 1}
    /\ UNCHANGED <<ini, DoorParam, i, doorVars, evVars, sdkVars>>

MainInit ==
    /\ Goto("main", "init", "start")
    /\ NET_DVR_Init
    /\ UNCHANGED <<mainVars, doorVars, evVars>>

(* The four _beginthreadex calls, in the order main makes them; a thread   *)
(* runs as soon as it is created.                                          *)
StartedBefore == [Camera   |-> {},
                  Door     |-> {"Camera"},
                  ev       |-> {"Camera", "Door"},
                  IDReader |-> {"Camera", "Door", "ev"}]

BeginThread(t) ==
    /\ t # "main"
    /\ pc["main"] = "start"
    /\ pc[t] = "idle"
    /\ \A s \in StartedBefore[t] : pc[s] # "idle"
    /\ pc' = [pc EXCEPT ![t] = IF t \in {"Door", "ev"} THEN "init" ELSE "run",
                        !["main"] = IF t = "IDReader" THEN "wait" ELSE "start"]
    /\ UNCHANGED <<mainVars, doorVars, evVars, sdkVars>>

(* WaitForMultipleObjects on all four threads, without a timeout. *)
JoinThreads ==
    /\ \A t \in Threads \ {"main"} : pc[t] = "done"
    /\ Goto("main", "wait", "done")
    /\ UNCHANGED <<mainVars, doorVars, evVars, sdkVars>>

(* Mutant of HelperThread: the camera thread waits for a key. *)
CameraWaits(t) ==
    /\ t = "IDReader"
    /\ Goto(t, "run", "done")
    /\ UNCHANGED <<mainVars, doorVars, evVars, sdkVars>>

(* The camera thread's body is commented out; the reader thread registers  *)
(* two callbacks that only print, and returns.                             *)
HelperThread(t) ==
    /\ t \in {"Camera", "IDReader"}
    /\ Goto(t, "run", "done")
    /\ UNCHANGED <<mainVars, doorVars, evVars, sdkVars>>

Main ==
    \/ ReadSection
    \/ TerminateList
    \/ StartWinsock
    \/ MainInit
    \/ \E t \in Threads : BeginThread(t)
    \/ JoinThreads

-----------------------------------------------------------------------------
(* DoorThreadFun                                                           *)

(* Mutant of DoorInit: the door thread relies on main's NET_DVR_Init. *)
DoorInitOmitted ==
    /\ Goto("Door", "init", "login")
    /\ UNCHANGED <<mainVars, doorVars, evVars, sdkVars>>

DoorInit ==
    /\ Goto("Door", "init", "login")
    /\ NET_DVR_Init
    /\ UNCHANGED <<mainVars, doorVars, evVars>>

DoorLogin ==
    /\ \/ \E u \in UserIds :
             /\ LoginOK(AlarmAddr, u)
             /\ alarmUser' = u
             /\ Goto("Door", "login", "setup")
       \/ /\ CallFails
          /\ alarmUser' = Failed
          /\ Goto("Door", "login", "cleanup")
    /\ UNCHANGED <<mainVars, evVars>>

DoorCleanup ==
    /\ Goto("Door", "cleanup", "done")
    /\ NET_DVR_Cleanup
    /\ UNCHANGED <<mainVars, doorVars, evVars>>

(* Mutant of DoorSetupAlarm: the channel is armed sooner or later. *)
DoorSetupAwaited ==
    /\ SetupAlarmChanOK(alarmUser) /\ Goto("Door", "setup", "register")
    /\ UNCHANGED <<mainVars, doorVars, evVars>>

(* The alarm channel is armed first, its callback registered afterwards;   *)
(* either failure ends the thread with what it holds still held.           *)
DoorSetupAlarm ==
    /\ \/ SetupAlarmChanOK(alarmUser) /\ Goto("Door", "setup", "register")
       \/ CallFails /\ Goto("Door", "setup", "done")
    /\ UNCHANGED <<mainVars, doorVars, evVars>>

(* Mutant of DoorRegister: its result is not looked at. *)
DoorRegisterUnchecked ==
    /\ SetMessageCallBackOK \/ CallFails
    /\ Goto("Door", "register", "getchar")
    /\ UNCHANGED <<mainVars, doorVars, evVars>>

DoorRegister ==
    /\ \/ SetMessageCallBackOK /\ Goto("Door", "register", "getchar")
       \/ CallFails /\ Goto("Door", "register", "done")
    /\ UNCHANGED <<mainVars, doorVars, evVars>>

(* A key pressed at the console: the thread returns without logging out. *)
DoorGetchar ==
    /\ Goto("Door", "getchar", "done")
    /\ UNCHANGED <<mainVars, doorVars, evVars, sdkVars>>

Door == DoorInit \/ DoorLogin \/ DoorCleanup \/ DoorSetupAlarm \/ DoorRegister

-----------------------------------------------------------------------------
(* evThreadFun                                                             *)

EvInit ==
    /\ Goto("ev", "init", "malloc")
    /\ NET_DVR_Init
    /\ UNCHANGED <<mainVars, doorVars, evVars>>

EvMalloc ==
    /\ Goto("ev", "malloc", "login") \/ Goto("ev", "malloc", "done")
    /\ UNCHANGED <<mainVars, doorVars, evVars, sdkVars>>

(* The body of the loop, up to the test of the login's result. *)
EvLogin ==
    /\ DoorParam[count].key # "total"
    /\ \/ \E u \in UserIds :
             /\ LoginOK(DoorParam[count].ip, u)
             /\ login' = u
             /\ Goto("ev", "login", "store")
       \/ /\ CallFails
          /\ login' = Failed
          /\ Goto("ev", "login", "failed")
    /\ UNCHANGED <<mainVars, doorVars, lUserID, count, last>>

(* A failed login costs the library one reference, and the loop goes on: *)
(* the return that followed is commented out.                            *)
EvLoginFailed ==
    /\ Goto("ev", "failed", "store")
    /\ NET_DVR_Cleanup
    /\ UNCHANGED <<mainVars, doorVars, evVars>>

(* Mutant of EvStore: the handle goes to the entry after its door's. *)
EvStoreLate ==
    /\ Goto("ev", "store", "login")
    /\ lUserID' = [lUserID EXCEPT ![count + 1] = login]
    /\ count' = count + 1
    /\ UNCHANGED <<mainVars, doorVars, login, last, sdkVars>>

EvStore ==
    /\ Goto("ev", "store", "login")
    /\ lUserID' = [lUserID EXCEPT ![count] = login]
    /\ count' = count + 1
    /\ UNCHANGED <<mainVars, doorVars, login, last, sdkVars>>

EvLoopDone ==
    /\ DoorParam[count].key = "total"
    /\ Goto("ev", "login", "http")
    /\ UNCHANGED <<mainVars, doorVars, evVars, sdkVars>>

(* evhttp_new, evhttp_bind_socket, evhttp_set_gencb; whether Winsock is up *)
(* depends on the callbacks, too (module System).                          *)
EvBind ==
    /\ Goto("ev", "http", "serve") \/ Goto("ev", "http", "done")
    /\ UNCHANGED <<mainVars, doorVars, evVars, sdkVars>>

(* The handle read from slot k: what the loop stored, or whatever malloc   *)
(* returned, for a slot the loop never reached.                            *)
Stored(k) == IF k < count THEN {lUserID[k]} ELSE HeapFill

(* Mutant of SearchStopsAt: the search ends at the last entry. *)
SearchStopsEarly(addr, k) ==
    /\ k + 1 = count \/ (k < count /\ DoorParam[k].ip = addr)
    /\ \A j \in Slots : j < k => DoorParam[j].ip # addr

(* The slot k the request handler's search for an address stops at: the    *)
(* first entry with that address, or the one after the last entry.         *)
SearchStopsAt(addr, k) ==
    /\ k = count \/ (k < count /\ DoorParam[k].ip = addr)
    /\ \A j \in Slots : j < k => DoorParam[j].ip # addr

(* A door/control request that passed every check. *)
ControlGateway(addr) ==
    /\ pc["ev"] = "serve"
    /\ \E k \in Slots :
          /\ SearchStopsAt(addr, k)
          /\ \E u \in Stored(k) :
                last' \in [asked : {addr}, reached : {NoDevice, DeviceOf(u)}]
    /\ UNCHANGED <<mainVars, doorVars, lUserID, count, login, pc, sdkVars>>

(* event_base_dispatch returns only when its backend fails. *)
DispatchReturns ==
    /\ Goto("ev", "serve", "unbind")
    /\ last' = [asked |-> NoDevice, reached |-> NoDevice]
    /\ UNCHANGED <<mainVars, doorVars, lUserID, count, login, sdkVars>>

EvWSACleanup ==
    /\ Goto("ev", "unbind", "logout0")
    /\ winsock' = IF winsock = 0 THEN 0 ELSE winsock - 1
    /\ UNCHANGED <<ini, DoorParam, i, doorVars, evVars, sdkVars>>

(* Mutant of EvLogout: entry 0 both times. *)
EvLogoutFirst(k) ==
    /\ \/ k = 0 /\ Goto("ev", "logout0", "logout1")
       \/ k = 1 /\ Goto("ev", "logout1", "cleanup")
    /\ \E u \in Stored(0) : NET_DVR_Logout(u)
    /\ UNCHANGED <<mainVars, doorVars, evVars>>

(* NET_DVR_Logout of entries 0 and 1, however many doors there are. *)
EvLogout(k) ==
    /\ \/ k = 0 /\ Goto("ev", "logout0", "logout1")
       \/ k = 1 /\ Goto("ev", "logout1", "cleanup")
    /\ \E u \in Stored(k) : NET_DVR_Logout(u)
    /\ UNCHANGED <<mainVars, doorVars, evVars>>

EvCleanup ==
    /\ Goto("ev", "cleanup", "done")
    /\ NET_DVR_Cleanup
    /\ UNCHANGED <<mainVars, doorVars, evVars>>

Ev ==
    \/ EvInit \/ EvMalloc
    \/ EvLogin \/ EvLoginFailed \/ EvStore \/ EvLoopDone
    \/ EvBind
    \/ EvWSACleanup \/ EvLogout(0) \/ EvLogout(1) \/ EvCleanup

-----------------------------------------------------------------------------
(* When main returns the process is gone, with every thread in it. *)
Ended == pc["main"] = "done"

Step ==
    \/ Main
    \/ Door
    \/ DoorGetchar
    \/ Ev
    \/ DispatchReturns
    \/ \E addr \in Addrs : ControlGateway(addr)
    \/ \E t \in Threads : HelperThread(t)

Next ==
    \/ ~Ended /\ Step
    \/ Ended /\ UNCHANGED vars

(* Threads keep running and every library call returns; nobody promises a  *)
(* key press, a request or a failure of the event loop.                    *)
HelperRuns(t) == WF_vars(HelperThread(t) /\ ~Ended)
HelpersRun == \A t \in {"Camera", "IDReader"} : HelperRuns(t)

Fairness ==
    /\ WF_vars(Main /\ ~Ended)
    /\ WF_vars(Door /\ ~Ended)
    /\ WF_vars(Ev /\ ~Ended)
    /\ HelpersRun

Spec == Init /\ [][Next]_vars
FairSpec == Spec /\ Fairness
-----------------------------------------------------------------------------
(* Properties                                                              *)

(* The doors whose login failed and has already been paid for with a       *)
(* NET_DVR_Cleanup.                                                        *)
Lost == {k \in Slots : \/ k < count /\ lUserID[k] = Failed
                       \/ k = count /\ pc["ev"] = "store" /\ login = Failed}

AtMostOneLost == \A j, k \in Lost : j = k

(* The heap cannot pass for a login handle, or the table has an entry for  *)
(* both of the handles the server thread logs out.                         *)
LogoutsOwnHandles == HeapFill \cap UserIds = {} \/ ini.total >= 2

(* The server's loop stops exactly at the end of the configured doors and  *)
(* has taken each of them, in order, from the file.                        *)
DoorsVisited ==
    pc["ev"] \in {"http", "serve", "unbind", "logout0", "logout1", "cleanup"} =>
        /\ count = ini.total
        /\ \A k \in Slots : k < count => DoorParam[k].ip = ini.door[k]

(* A door-control request for a configured door is carried out at that     *)
(* door or nowhere, although handles are reused and one thread's failed    *)
(* login releases the library under another: never more than one failed    *)
(* login, or a configuration of at most two doors, is what it takes.       *)
NoMisdirectedCommand ==
    (AtMostOneLost \/ ini.total <= 2) =>
        \A k \in Slots :
            k < count /\ DoorParam[k].ip = last.asked =>
                last.reached \in {NoDevice, last.asked}

(* The door thread's login and alarm channel outlive whatever the server   *)
(* thread does, its failed logins and its final logouts and cleanup        *)
(* included, as long as at most one door failed.                           *)
AlarmKept ==
    AtMostOneLost /\ LogoutsOwnHandles =>
        /\ pc["Door"] \in {"setup", "register", "getchar"} =>
               DeviceOf(alarmUser) = AlarmAddr
        /\ pc["Door"] \in {"register", "getchar"} => alarmUser \in armed
        /\ pc["Door"] = "getchar" => callback

(* While the server serves, every handle it recorded is a live login on    *)
(* the door it is recorded for, and no two doors share one.                *)
TableTruthful ==
    pc["ev"] = "serve" /\ AtMostOneLost =>
        \A j, k \in Slots :
            j < count /\ k < count /\ lUserID[k] # Failed =>
                /\ DeviceOf(lUserID[k]) = DoorParam[k].ip
                /\ lUserID[j] = lUserID[k] => j = k

(* The two fixed logouts of the server's shutdown end every login it made, *)
(* when there are at most two doors: only the door thread's can be left.   *)
LogoutsCoverTable ==
    pc["ev"] = "cleanup" /\ ini.total <= 2 =>
        \A u \in UserIds : Live(u) => u = alarmUser

(* No NET_DVR_Cleanup is one too many while at most one door failed. *)
NoOverRelease ==
    [][DoorCleanup \/ EvLoginFailed \/ EvCleanup =>
          refs > 0 \/ ~AtMostOneLost']_vars

Complete ==
    ini.num /\ \A k \in Sections : k < ini.total => ini.door[k] # Missing

(* The server keeps the promise of DoorControl, whose configured doors are *)
(* those of the file: a failed login, a reused handle, an unwritten entry  *)
(* of the table or a stopping main never send a command elsewhere.         *)
Configured == {ini.door[k] : k \in {n \in Sections : n < ini.total}} \ {Missing}

Phase ==
    CASE pc["ev"] = "serve" -> "up"
      [] Ended \/ pc["ev"] \in {"unbind", "logout0", "logout1", "cleanup", "done"} -> "down"
      [] OTHER -> "starting"

Doors == INSTANCE DoorControl WITH doors <- Configured, phase <- Phase
KeepsDoorPromise == Doors!Spec

(* No thread is ever without a step to take, but where it waits for others *)
(* to return, for a key or for a request: whatever the library refuses and *)
(* whoever has released it, every failure has a way on.                    *)
NeverStuck ==
    ~Ended =>
        /\ pc["main"] # "wait" \/ (\A t \in Threads \ {"main"} : pc[t] = "done")
               => ENABLED <<Main /\ ~Ended>>_vars
        /\ pc["Door"] \notin {"idle", "getchar", "done"} => ENABLED <<Door /\ ~Ended>>_vars
        /\ pc["ev"] \notin {"idle", "serve", "done"} => ENABLED <<Ev /\ ~Ended>>_vars
        /\ \A t \in {"Camera", "IDReader"} :
               pc[t] = "run" => ENABLED <<HelperThread(t) /\ ~Ended>>_vars

(* The process ends when the configuration lacks a section, and when both  *)
(* the door and the server thread have returned.                           *)
ProcessEnds ==
    ~Complete \/ (pc["Door"] = "done" /\ pc["ev"] = "done") ~> Ended
-----------------------------------------------------------------------------
(* The inductive invariant behind the safety properties                    *)

(* Entry k of DoorParam is section k of the file, which is complete. *)
Listed(k) ==
    /\ ini.door[k] \in Addrs
    /\ DoorParam[k] = [key |-> "ip", ip |-> ini.door[k]]

(* Main fills DoorParam before it starts a thread, and is there until all  *)
(* threads have returned.                                                  *)
MainInv ==
    /\ pc["main"] \in {"config", "winsock", "init", "start", "wait", "done"}
    /\ pc["main"] = "config" =>
           i <= ini.total /\ \A k \in Slots : k < i => Listed(k)
    /\ pc["main"] \in {"config", "winsock", "init"} =>
           \A t \in Threads \ {"main"} : pc[t] = "idle"
    /\ pc["main"] = "done" =>
           \A t \in Threads \ {"main"} : pc[t] \in {"idle", "done"}
    /\ pc["main"] \in {"winsock", "init", "start", "wait"} \/ pc["ev"] # "idle" =>
           /\ ini.num
           /\ \A k \in Slots : k < ini.total => Listed(k)
           /\ DoorParam[ini.total].key = "total"

DoorPc == {"idle", "init", "login", "cleanup", "setup", "register", "getchar", "done"}
EvLoopPc == {"login", "failed", "store"}
EvServerPc == {"http", "serve", "unbind", "logout0", "logout1", "cleanup"}

(* The server's loop counter. *)
CountInv ==
    /\ pc["Door"] \in DoorPc
    /\ pc["ev"] \in {"idle", "init", "malloc", "done"} \cup EvLoopPc \cup EvServerPc
    /\ count <= ini.total
    /\ pc["ev"] \in {"idle", "init", "malloc"} => count = 0
    /\ pc["ev"] \in {"failed", "store"} => count < ini.total
    /\ pc["ev"] = "failed" => login = Failed
    /\ pc["ev"] \in EvServerPc => count = ini.total

One(b) == IF b THEN 1 ELSE 0

(* The library stays initialised for everyone who is still using it: main, *)
(* the door thread and the server thread hold one reference each, and one  *)
(* failed login gives back one.                                            *)
RefsInv ==
    AtMostOneLost =>
        refs >= One(pc["main"] \in {"start", "wait"})
              + One(pc["Door"] \in DoorPc \ {"idle", "init", "done"})
              + One(pc["ev"] \in {"malloc"} \cup EvLoopPc \cup EvServerPc)
              - One(Lost # {})

(* The entries of the table the server thread still relies on. *)
Held(k) ==
    /\ k < count
    /\ lUserID[k] # Failed
    /\ \/ pc["ev"] \in EvLoopPc \cup {"http", "serve", "unbind", "logout0"}
       \/ pc["ev"] = "logout1" /\ k > 0

Pending == pc["ev"] = "store" /\ login # Failed
AlarmUp == pc["Door"] \in {"setup", "register", "getchar"}

(* Handles the server relies on are live and pairwise different. *)
TableInv ==
    AtMostOneLost =>
        /\ \A k \in Slots : Held(k) => DeviceOf(lUserID[k]) = DoorParam[k].ip
        /\ \A j, k \in Slots : Held(j) /\ Held(k) /\ lUserID[j] = lUserID[k] => j = k
        /\ Pending => /\ DeviceOf(login) = DoorParam[count].ip
                      /\ \A k \in Slots : Held(k) => lUserID[k] # login

(* The door thread's login is live and none of the server's. *)
AlarmInv ==
    AtMostOneLost /\ LogoutsOwnHandles /\ AlarmUp =>
        /\ DeviceOf(alarmUser) = AlarmAddr
        /\ pc["Door"] # "setup" => alarmUser \in armed
        /\ pc["Door"] = "getchar" => callback
        /\ \A k \in Slots : Held(k) => lUserID[k] # alarmUser
        /\ Pending => login # alarmUser

(* No request has been answered before the server serves. *)
LastInv ==
    /\ pc["ev"] # "serve" => last = [asked |-> NoDevice, reached |-> NoDevice]
    /\ NoMisdirectedCommand

(* The entries whose logins the server's shutdown has not reached. *)
Kept(k) ==
    /\ k < count
    /\ pc["ev"] = "logout1" => k > 0
    /\ pc["ev"] = "cleanup" => k > 1

(* Every login there is was made by the door thread, or by the server's    *)
(* loop, which has it at hand or in the table.                             *)
LoginsInv ==
    /\ pc["Door"] \in {"idle", "init", "login"} => alarmUser = Failed
    /\ \A u \in UserIds : Live(u) =>
           \/ u = alarmUser
           \/ pc["ev"] = "store" /\ u = login
           \/ \E k \in Slots : Kept(k) /\ u = lUserID[k]
           \/ pc["ev"] = "done"

IInv ==
    /\ TypeOK /\ MainInv /\ CountInv /\ RefsInv
    /\ TableInv /\ AlarmInv /\ LastInv /\ LoginsInv
=============================================================================
