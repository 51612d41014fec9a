------------------------------- MODULE HikSdk -------------------------------
(***************************************************************************)
(* The part of the vendor's device library (HCNetSDK.dll, external) that   *)
(* the gateway relies on, as the calls under src/ use it.                  *)
(*                                                                         *)
(* The library is one object of the process, shared by all its threads.    *)
(* NET_DVR_Init is called by main, by the door thread and by the server    *)
(* thread, each with a NET_DVR_Cleanup of its own on some path; that only  *)
(* makes sense if the library counts, and this module assumes it does:     *)
(* the Cleanup that takes the count to zero ends every login and every     *)
(* alarm channel, and one called at zero fails and changes nothing.        *)
(* Login handles are small integers and a released handle is given out     *)
(* again; no call invents a device.                                        *)
(***************************************************************************)
EXTENDS Integers

CONSTANTS
    UserIds,        \* the login handles the library gives out
    Addrs,          \* device addresses
    NoDevice        \* what a free handle denotes

ASSUME SdkAssumption ==
    /\ UserIds \subseteq Nat
    /\ NoDevice \notin Addrs

VARIABLES
    refs,       \* NET_DVR_Init calls not yet matched by a NET_DVR_Cleanup
    users,      \* the device each handle is logged in to
    armed,      \* the handles with an alarm channel
    callback    \* an alarm callback is registered

sdkVars == <<refs, users, armed, callback>>

SdkTypeOK ==
    /\ refs \in Nat
    /\ users \in [UserIds -> Addrs \cup {NoDevice}]
    /\ armed \in SUBSET UserIds
    /\ callback \in BOOLEAN

SdkInit ==
    /\ refs = 0
    /\ users = [u \in UserIds |-> NoDevice]
    /\ armed = {}
    /\ callback = FALSE

Live(u) == u \in UserIds /\ users[u] # NoDevice

(* The device a call on handle u is sent to. *)
DeviceOf(u) == IF u \in UserIds THEN users[u] ELSE NoDevice

NET_DVR_Init ==
    /\ refs' = refs + 1
    /\ UNCHANGED <<users, armed, callback>>

NET_DVR_Cleanup ==
    \/ /\ refs > 1
       /\ refs' = refs - 1
       /\ UNCHANGED <<users, armed, callback>>
    \/ /\ refs = 1
       /\ refs' = 0
       /\ users' = [u \in UserIds |-> NoDevice]
       /\ armed' = {}
       /\ callback' = FALSE
    \/ /\ refs = 0
       /\ UNCHANGED sdkVars

(* A login that returns handle u. *)
LoginOK(addr, u) ==
    /\ refs > 0
    /\ users[u] = NoDevice
    /\ users' = [users EXCEPT ![u] = addr]
    /\ UNCHANGED <<refs, armed, callback>>

(* A login, or any other call, that fails. *)
CallFails == UNCHANGED sdkVars

NET_DVR_Logout(u) ==
    IF Live(u)
    THEN /\ users' = [users EXCEPT ![u] = NoDevice]
         /\ armed' = armed \ {u}
         /\ UNCHANGED <<refs, callback>>
    ELSE CallFails

SetupAlarmChanOK(u) ==
    /\ Live(u)
    /\ armed' = armed \cup {u}
    /\ UNCHANGED <<refs, users, callback>>

SetMessageCallBackOK ==
    /\ refs > 0
    /\ callback' = TRUE
    /\ UNCHANGED <<refs, users, armed>>
=============================================================================
