------------------------------- MODULE System -------------------------------
(***************************************************************************)
(* The whole process: the threads of Gateway and, beside them, the device  *)
(* library's own threads, which run the callbacks of AlarmReporter while   *)
(* an alarm channel is armed.  They meet at two places: the library says   *)
(* whether there is a callback to run, and everybody shares one Winsock,   *)
(* on which the HTTP server's listening socket and every callback's        *)
(* connection live.                                                        *)
(*                                                                         *)
(* Gateway's winsock is what main and the server thread started and        *)
(* cleaned up; startups is the count of the whole process.                 *)
(***************************************************************************)
EXTENDS Gateway, FiniteSets

CONSTANTS
    AlarmThreads,   \* the library's threads
    MaxEvents       \* bound: events that are called back

ASSUME SystemAssumption == IsFiniteSet(AlarmThreads) /\ MaxEvents \in Nat

VARIABLES
    startups,   \* WSAStartup calls of the process not yet matched
    lost,       \* an event found nobody registered for it
    kind, events, at, cur, started, listener, open, orphans, stray, missed,
    posted      \* AlarmReporter's variables

Reporter == INSTANCE AlarmReporter
    WITH CarThreads <- {}, count <- events, pc <- at, winsock <- startups

callbackVars == <<kind, events, at, cur, started, posted>>
winsockVars == <<startups, listener, open, orphans, stray, missed>>
reporterVars == <<callbackVars, winsockVars, lost>>
sysVars == <<vars, reporterVars>>

SysInit ==
    /\ Init
    /\ kind = [e \in 1 .. MaxEvents |-> "none"]
    /\ events = 0 /\ lost = FALSE
    /\ at = [c \in AlarmThreads |-> "idle"]
    /\ cur = [c \in AlarmThreads |-> 0]
    /\ started = [c \in AlarmThreads |-> FALSE]
    /\ posted = [e \in 1 .. MaxEvents |-> [u \in Reporter!Urls |-> 0]]
    /\ startups = 0 /\ listener = FALSE /\ open = {}
    /\ orphans = 0 /\ stray = 0 /\ missed = 0

-----------------------------------------------------------------------------
(* Steps of Gateway that touch Winsock                                     *)

(* init_win_socket in main. *)
ProcessStartsWinsock ==
    /\ StartWinsock
    /\ startups' = startups + winsock'
    /\ missed' = missed + 1 - winsock'
    /\ UNCHANGED <<callbackVars, listener, open, orphans, stray, lost>>

(* evhttp_bind_socket needs Winsock, whoever started it. *)
ServerBinds ==
    /\ EvBind
    /\ pc'["ev"] = "serve" => startups > 0
    /\ listener' = (pc'["ev"] = "serve")
    /\ UNCHANGED <<callbackVars, startups, open, orphans, stray, missed, lost>>

(* evhttp_free closes the listening socket. *)
ServerFreed ==
    /\ DispatchReturns
    /\ listener' = FALSE
    /\ UNCHANGED <<callbackVars, startups, open, orphans, stray, missed, lost>>

(* Mutant of ServerCleansUp: all startups of the process are given back. *)
ServerCleansUpAll ==
    /\ EvWSACleanup
    /\ startups' = 0 /\ open' = {} /\ orphans' = 0
    /\ UNCHANGED <<callbackVars, listener, stray, missed, lost>>

(* WSACleanup in the server thread. *)
ServerCleansUp ==
    /\ EvWSACleanup
    /\ Reporter!Release
    /\ UNCHANGED <<callbackVars, stray, missed, lost>>

OtherStep ==
    /\ \/ ReadSection \/ TerminateList \/ MainInit \/ JoinThreads
       \/ \E t \in Threads : BeginThread(t) \/ HelperThread(t)
       \/ Door \/ DoorGetchar
       \/ EvInit \/ EvMalloc \/ EvLogin \/ EvLoginFailed \/ EvStore \/ EvLoopDone
       \/ EvLogout(0) \/ EvLogout(1) \/ EvCleanup
       \/ \E addr \in Addrs : ControlGateway(addr)
    /\ UNCHANGED reporterVars

ThreadStep ==
    ProcessStartsWinsock \/ ServerBinds \/ ServerFreed \/ ServerCleansUp \/ OtherStep

-----------------------------------------------------------------------------
(* Events of the devices                                                   *)

(* An event at a door whose alarm channel is armed: the library calls the  *)
(* registered callback on a thread of its own.                             *)
EventCalledBack(c) ==
    /\ armed # {} /\ callback
    /\ Reporter!CM_AlarmCallBack(c)
    /\ UNCHANGED <<vars, lost>>

(* With no callback registered there is nobody to tell. *)
EventLost ==
    /\ armed # {} /\ ~callback
    /\ lost' = TRUE
    /\ UNCHANGED <<vars, callbackVars, winsockVars>>

CallbackStep(c) ==
    /\ Reporter!Work(c) \/ Reporter!Recv(c)
    /\ UNCHANGED <<vars, lost>>

SysStep ==
    \/ ThreadStep
    \/ EventLost
    \/ \E c \in AlarmThreads : EventCalledBack(c) \/ CallbackStep(c)

SysNext ==
    \/ ~Ended /\ SysStep
    \/ Ended /\ UNCHANGED sysVars

SysSpec == SysInit /\ [][SysNext]_sysVars
-----------------------------------------------------------------------------
(* Properties                                                              *)

Active(c) == at[c] # "idle"

(* Who holds a startup of Winsock: main's, until the server thread gives   *)
(* it back, each callback under way, and each one that returned early.     *)
StartupsBalanced ==
    missed = 0 =>
        startups = winsock + Cardinality({c \in AlarmThreads : Active(c)}) + stray

(* The HTTP server's socket is there as long as it serves, whatever the    *)
(* callbacks start and clean up beside it; and no callback loses its       *)
(* connection to another one or to the server's shutdown.                  *)
NobodyCutOff ==
    missed = 0 =>
        /\ pc["ev"] = "serve" => listener
        /\ \A c \in AlarmThreads : at[c] \in {"send", "recv", "close"} => c \in open

(* An event is lost only between the arming of the alarm channel and the   *)
(* registration of the callback, or after the latter has failed: a release *)
(* of the library in another thread takes channel and callback together,   *)
(* and a handle given out again arms no channel behind the door thread.    *)
EventsLostOnlyUnregistered ==
    [][lost' /\ ~lost => pc["Door"] \in {"register", "done"}]_sysVars
=============================================================================
