------------------------ MODULE AlarmReporterProofs ------------------------
(* That the callbacks share Winsock without taking it from each other,     *)
(* post no event twice, and leave a socket or a startup behind only for an *)
(* event that is lost, for every number of threads and events; and that    *)
(* they return.                                                            *)
EXTENDS AlarmReporter, FiniteSetTheorems, TLAPS

Busy == {c \in Callbacks : Active(c)}

(* Every callback under way reports an event of its own, one to report,    *)
(* which is posted nowhere before its Send.                                *)
EventInv ==
    /\ \A c \in Busy : /\ cur[c] \in 1 .. count
                       /\ kind[cur[c]] \in {"reportable"} \cup CarKinds
    /\ \A c, d \in Busy : cur[c] = cur[d] => c = d
    /\ \A c \in Busy : pc[c] \in {"connect", "send"} =>
           \A u \in Urls : posted[cur[c]][u] = 0
    /\ \A e \in Events, u \in Urls : e > count => posted[e][u] = 0

(* There are finitely many callbacks, and so under way. *)
LEMMA CallbacksFinite == IsFiniteSet(Callbacks) /\ IsFiniteSet(Busy)
<1>1. IsFiniteSet(Callbacks)
  BY ReporterAssumption, FS_Union DEF Callbacks
<1>2. Busy \subseteq Callbacks
  BY DEF Busy
<1> QED
  BY <1>1, <1>2, FS_Subset

-----------------------------------------------------------------------------
(* At the start, the variables have their types. *)
LEMMA TypeInit == Init => TypeOK
<1>1. 0 \in 0 .. MaxEvents
  BY ReporterAssumption
<1> QED
  BY <1>1 DEF Init, TypeOK

(* Every step keeps the variables in their types. *)
LEMMA TypeStep == TypeOK /\ [Next]_vars => TypeOK'
<1> SUFFICES ASSUME TypeOK, [Next]_vars PROVE TypeOK'
  OBVIOUS
<1> USE ReporterAssumption DEF TypeOK, counters, Goto
<1>1. ASSUME NEW c \in Callbacks, NEW k \in AlarmKinds \cup CarKinds,
             NEW up \in BOOLEAN, Called(c, k, up)
      PROVE  /\ kind' \in [Events -> AlarmKinds \cup CarKinds \cup {"none"}]
             /\ count' \in 0 .. MaxEvents
             /\ cur' \in [Callbacks -> 0 .. MaxEvents]
             /\ started' \in [Callbacks -> BOOLEAN]
             /\ winsock' \in Nat /\ missed' \in Nat
             /\ UNCHANGED <<open, listener, orphans, posted>>
  <2>1. count + 1 \in 0 .. MaxEvents
    BY <1>1 DEF Called
  <2>2. winsock' \in Nat /\ missed' \in Nat
    BY <1>1 DEF Called
  <2>3. started' \in [Callbacks -> BOOLEAN]
    BY <1>1 DEF Called
  <2>4. kind' \in [Events -> AlarmKinds \cup CarKinds \cup {"none"}]
    BY <1>1 DEF Called
  <2> QED
    BY <1>1, <2>1, <2>2, <2>3, <2>4 DEF Called
<1>2. ASSUME NEW c \in Callbacks, NEW up \in BOOLEAN, Leave(c, up) PROVE stray' \in Nat
  BY <1>2 DEF Leave
<1>3. ASSUME NEW c \in Callbacks, CM_AlarmCallBack(c) PROVE TypeOK'
  BY <1>1, <1>2, <1>3 DEF CM_AlarmCallBack, AlarmKinds
<1>4. ASSUME NEW c \in Callbacks, HandleCarNumberCB(c) PROVE TypeOK'
  BY <1>1, <1>4 DEF HandleCarNumberCB
<1>5. ASSUME NEW c \in Callbacks, Connect(c) PROVE TypeOK'
  BY <1>2, <1>5 DEF Connect
<1>6. ASSUME NEW c \in Callbacks, Send(c) PROVE TypeOK'
  <2>1. posted' \in [Events -> [Urls -> Nat]]
    BY <1>6 DEF Send
  <2> QED
    BY <1>6, <2>1 DEF Send
<1>7. ASSUME NEW c \in Callbacks, SkipSend(c) \/ Recv(c) \/ Close(c) PROVE TypeOK'
  BY <1>7 DEF SkipSend, Recv, Close
<1>8. ASSUME NEW c \in Callbacks, WSACleanup(c) PROVE TypeOK'
  <2>1. winsock' \in Nat /\ orphans' \in Nat /\ listener' \in BOOLEAN /\ open' \subseteq Callbacks
    <3>1. CASE winsock > 1
      BY <1>8, <3>1 DEF WSACleanup, Release
    <3>2. CASE winsock = 1
      <4>1. ~(winsock > 1) /\ winsock # 0
        BY <3>2
      <4>2. winsock' = 0 /\ listener' = FALSE /\ open' = {} /\ orphans' = 0
        BY <1>8, <4>1, Zenon DEF WSACleanup, Release
      <4>3. listener' \in BOOLEAN
        BY <4>2, Zenon
      <4> QED
        BY <4>2, <4>3
    <3>3. CASE winsock = 0
      BY <1>8, <3>3 DEF WSACleanup, Release
    <3> QED
      BY <3>1, <3>2, <3>3
  <2> QED
    BY <1>8, <2>1 DEF WSACleanup
<1>9. CASE UNCHANGED vars
  BY <1>9 DEF vars
<1> HIDE DEF TypeOK
<1> QED
  BY <1>3, <1>4, <1>5, <1>6, <1>7, <1>8, <1>9 DEF Next, Work

-----------------------------------------------------------------------------
(* A callback that comes or goes changes the number under way by one.      *)
LEMMA BusyGrows ==
    ASSUME TypeOK, NEW c \in Callbacks, pc[c] = "idle", NEW at, at # "idle",
           pc' = [pc EXCEPT ![c] = at]
    PROVE  /\ Busy' = Busy \cup {c}
           /\ Cardinality(Busy') = Cardinality(Busy) + 1
<1>1. Busy' = Busy \cup {c} /\ c \notin Busy
  BY DEF TypeOK, Busy, Active
<1> QED
  BY <1>1, CallbacksFinite, FS_AddElement

LEMMA BusyShrinks ==
    ASSUME TypeOK, NEW c \in Callbacks, pc[c] # "idle",
           pc' = [pc EXCEPT ![c] = "idle"]
    PROVE  /\ Busy' = Busy \ {c}
           /\ Cardinality(Busy') = Cardinality(Busy) - 1
           /\ Cardinality(Busy) \in Nat \ {0}
<1>1. Busy' = Busy \ {c} /\ c \in Busy
  BY DEF TypeOK, Busy, Active
<1>2. Cardinality(Busy') = Cardinality(Busy) - 1
  BY <1>1, CallbacksFinite, FS_RemoveElement
<1>3. Cardinality(Busy) \in Nat /\ Cardinality(Busy) # 0
  BY <1>1, CallbacksFinite, FS_CardinalityType, FS_EmptySet
<1> QED
  BY <1>1, <1>2, <1>3

(* Any other step of a callback leaves the number as it is. *)
LEMMA BusyStays ==
    ASSUME TypeOK, NEW c \in Callbacks, NEW at, (pc[c] = "idle") <=> (at = "idle"),
           pc' = [pc EXCEPT ![c] = at]
    PROVE  Busy' = Busy
  BY DEF TypeOK, Busy, Active

(* How the callbacks, the HTTP server and main share Winsock while every   *)
(* startup succeeds.                                                       *)
Shared ==
    /\ \A c \in Busy : started[c]
    /\ winsock = 1 + Cardinality(Busy) + stray
    /\ listener
    /\ \A c \in Callbacks : pc[c] \in {"send", "recv", "close"} => c \in open

SharedInv == TypeOK /\ (missed = 0 => Shared)

(* At the start, the one startup is main's. *)
LEMMA SharedInit == Init => SharedInv
<1> SUFFICES ASSUME Init PROVE SharedInv
  OBVIOUS
<1>1. Busy = {}
  BY DEF Init, Busy, Active
<1>2. Cardinality(Busy) = 0
  BY <1>1, FS_EmptySet
<1> QED
  BY <1>1, <1>2, TypeInit DEF Init, SharedInv, Shared

(* A cleanup releases a startup of its own, main's is never reached, and   *)
(* nobody loses a socket.                                                  *)
LEMMA SharedStep == SharedInv /\ [Next]_vars => SharedInv'
<1> SUFFICES ASSUME SharedInv, [Next]_vars PROVE SharedInv'
  OBVIOUS
<1>0. TypeOK /\ TypeOK' /\ Cardinality(Busy) \in Nat
  BY TypeStep, CallbacksFinite, FS_CardinalityType DEF SharedInv
<1>b. SUFFICES ASSUME missed' = 0 PROVE Shared'
  BY <1>0 DEF SharedInv
<1>c. /\ winsock \in Nat /\ stray \in Nat
      /\ missed = 0 => winsock = 1 + Cardinality(Busy) + stray
  BY <1>0 DEF TypeOK, SharedInv, Shared
<1> USE <1>0, <1>b DEF counters, Goto
<1>1. ASSUME missed = 0, Busy' = Busy, UNCHANGED <<started, winsock, stray, listener, open>>,
             \A c \in Callbacks :
                 pc'[c] \in {"send", "recv", "close"} =>
                     pc[c] \in {"send", "recv", "close"}
      PROVE  Shared'
  BY <1>1 DEF SharedInv, Shared
<1>2. ASSUME NEW c \in Callbacks, NEW k, NEW up \in BOOLEAN, Called(c, k, up)
      PROVE  /\ up /\ missed = 0 /\ winsock' = winsock + 1
             /\ started'[c] /\ \A d \in Callbacks : started[d] => started'[d]
             /\ UNCHANGED <<listener, open>>
  <2>1. CASE up
    BY <1>2, <2>1 DEF Called, TypeOK
  <2>2. CASE ~up
    BY <1>2, <2>2 DEF Called, TypeOK
  <2> QED
    BY <2>1, <2>2
<1>3. ASSUME NEW c \in Callbacks, NEW k, NEW up \in BOOLEAN,
             Goto(c, "idle", "connect"), Called(c, k, up), UNCHANGED stray
      PROVE  Shared'
  <2>1. Busy' = Busy \cup {c} /\ Cardinality(Busy') = Cardinality(Busy) + 1
    BY <1>3, BusyGrows
  <2>2. /\ \A d \in Callbacks \ {c} : pc'[d] = pc[d]
        /\ pc'[c] = "connect"
    BY <1>3 DEF TypeOK
  <2>3. \A d \in Busy' : started'[d]
    BY <1>2, <1>3, <2>1 DEF SharedInv, Shared, Busy
  <2>4. winsock' = 1 + Cardinality(Busy') + stray'
    BY <1>c, <1>2, <1>3, <2>1
  <2> QED
    BY <1>2, <1>3, <2>2, <2>3, <2>4 DEF SharedInv, Shared
<1>4. ASSUME NEW c \in Callbacks, NEW k, NEW up \in BOOLEAN,
             Goto(c, "idle", "idle"), Called(c, k, up), Leave(c, up)
      PROVE  Shared'
  <2>1. UNCHANGED pc
    BY <1>4 DEF TypeOK
  <2>2. Busy' = Busy
    BY <2>1 DEF Busy, Active
  <2>3. stray' = stray + 1
    BY <1>2, <1>4 DEF Leave
  <2>4. winsock' = 1 + Cardinality(Busy') + stray'
    BY <1>c, <1>2, <1>4, <2>2, <2>3
  <2> QED
    BY <1>2, <1>4, <2>1, <2>2, <2>4 DEF SharedInv, Shared, Busy
<1>5. ASSUME NEW c \in Callbacks, Connect(c) PROVE Shared'
  <2>1. missed = 0 /\ pc[c] = "connect" /\ UNCHANGED <<started, winsock, listener>>
    BY <1>5 DEF Connect
  <2>2. CASE Goto(c, "connect", "send") /\ open' = open \cup {c} /\ UNCHANGED stray
    <3>1. Busy' = Busy
      BY <2>1, <2>2, BusyStays
    <3> QED
      BY <2>1, <2>2, <3>1 DEF SharedInv, Shared, TypeOK
  <2>3. CASE Goto(c, "connect", "idle") /\ Leave(c, started[c]) /\ UNCHANGED open
    <3>1. started[c]
      BY <2>1 DEF SharedInv, Shared, Busy, Active
    <3>2. stray' = stray + 1
      BY <2>3, <3>1 DEF Leave
    <3>3. Busy' = Busy \ {c} /\ Cardinality(Busy') = Cardinality(Busy) - 1
      BY <2>1, <2>3, BusyShrinks
    <3>4. winsock' = 1 + Cardinality(Busy') + stray'
      BY <1>c, <2>1, <3>2, <3>3
    <3>5. \A d \in Callbacks \ {c} : pc'[d] = pc[d]
      BY <2>3 DEF TypeOK
    <3>6. pc'[c] = "idle"
      BY <2>3 DEF TypeOK
    <3> QED
      BY <2>1, <2>3, <3>3, <3>4, <3>5, <3>6 DEF SharedInv, Shared
  <2> QED
    BY <1>5, <2>2, <2>3 DEF Connect
<1>6. ASSUME NEW c \in Callbacks, Send(c) \/ SkipSend(c) \/ Recv(c) PROVE Shared'
  <2>1. /\ missed = 0 /\ UNCHANGED <<started, winsock, stray, listener, open>>
        /\ pc[c] \in {"send", "recv"}
        /\ \E at \in {"recv", "close"} : pc' = [pc EXCEPT ![c] = at]
    BY <1>6 DEF Send, SkipSend, Recv
  <2>2. PICK at \in {"recv", "close"} : pc' = [pc EXCEPT ![c] = at]
    BY <2>1
  <2>3. Busy' = Busy
    BY <2>1, <2>2, BusyStays
  <2> QED
    BY <1>1, <2>1, <2>2, <2>3 DEF TypeOK
<1>7. ASSUME NEW c \in Callbacks, Close(c) PROVE Shared'
  <2>1. /\ missed = 0 /\ UNCHANGED <<started, winsock, stray, listener>>
        /\ open' = open \ {c} /\ Goto(c, "close", "cleanup")
    BY <1>7 DEF Close
  <2>2. Busy' = Busy
    BY <2>1, BusyStays
  <2> QED
    BY <2>1, <2>2 DEF SharedInv, Shared, TypeOK
<1>8. ASSUME NEW c \in Callbacks, WSACleanup(c) PROVE Shared'
  <2>1. /\ missed = 0 /\ UNCHANGED <<started, stray>> /\ Goto(c, "cleanup", "idle")
    BY <1>8 DEF WSACleanup
  <2>2. /\ Busy' = Busy \ {c} /\ Cardinality(Busy') = Cardinality(Busy) - 1
        /\ Cardinality(Busy) \in Nat \ {0}
    BY <2>1, BusyShrinks
  <2>3. winsock > 1 /\ winsock = 1 + Cardinality(Busy) + stray
    BY <1>c, <2>1, <2>2
  <2>4. winsock' = winsock - 1 /\ UNCHANGED <<listener, open>>
    BY <1>8, <2>3 DEF WSACleanup, Release
  <2>5. winsock' = 1 + Cardinality(Busy') + stray'
    BY <1>c, <2>1, <2>2, <2>3, <2>4
  <2>6. \A d \in Callbacks : d # c => pc'[d] = pc[d]
    BY <2>1 DEF TypeOK
  <2>7. pc'[c] = "idle"
    BY <2>1 DEF TypeOK
  <2> QED
    BY <2>1, <2>2, <2>4, <2>5, <2>6, <2>7 DEF SharedInv, Shared
<1>9. CASE UNCHANGED vars
  <2>1. Busy' = Busy /\ missed = 0
    BY <1>9 DEF vars, Busy, Active
  <2> QED
    BY <1>1, <1>9, <2>1 DEF vars
<1>10. ASSUME NEW c \in Callbacks, CM_AlarmCallBack(c) \/ HandleCarNumberCB(c)
       PROVE  Shared'
  BY <1>3, <1>4, <1>10 DEF CM_AlarmCallBack, HandleCarNumberCB
<1> QED
  BY <1>5, <1>6, <1>7, <1>8, <1>9, <1>10 DEF Next, Work

(* However many callbacks overlap, the sharing invariant holds. *)
THEOREM SharedInvariance == Spec => []SharedInv
  BY SharedInit, SharedStep, PTL DEF Spec

(* The variables keep their types. *)
THEOREM TypeCorrect == Spec => []TypeOK
<1>1. SharedInv => TypeOK
  BY DEF SharedInv
<1> QED
  BY <1>1, SharedInvariance, PTL

(* For every number of library threads and of events, as long as every     *)
(* startup succeeds, the startups of Winsock are exactly those somebody    *)
(* owes a cleanup, or nobody ever will.                                    *)
THEOREM StartupsAccounted == Spec => []RefsAccounted
<1>1. SharedInv => RefsAccounted
  BY DEF SharedInv, Shared, RefsAccounted, Busy
<1> QED
  BY <1>1, SharedInvariance, PTL

(* For every number of them, no callback's cleanup takes the HTTP server's *)
(* socket, or another callback's connection, with it.                      *)
THEOREM NobodyLosesWinsock == Spec => []WinsockHeld
<1>1. SharedInv => WinsockHeld
  BY DEF SharedInv, Shared, WinsockHeld
<1> QED
  BY <1>1, SharedInvariance, PTL

-----------------------------------------------------------------------------
PostInv == TypeOK /\ EventInv /\ PostedAtMostOnce

(* At the start, no event has occurred. *)
LEMMA PostInit == Init => PostInv
  BY TypeInit DEF Init, PostInv, EventInv, PostedAtMostOnce, Busy, Active, Events

(* A call reports a new event, and every event is sent by one callback,    *)
(* once.                                                                   *)
LEMMA PostStep == PostInv /\ [Next]_vars => PostInv'
<1> SUFFICES ASSUME PostInv, [Next]_vars PROVE EventInv' /\ PostedAtMostOnce'
  BY TypeStep DEF PostInv
<1>0. TypeOK /\ EventInv /\ PostedAtMostOnce
  BY DEF PostInv
<1> USE <1>0, ReporterAssumption DEF counters, Goto
<1>1. ASSUME NEW c \in Callbacks, pc[c] = "idle", NEW at \in {"idle", "connect"},
             pc' = [pc EXCEPT ![c] = at],
             NEW k, k \in CarKinds \/ k = "reportable" \/ at = "idle",
             NEW up, Called(c, k, up)
      PROVE  EventInv' /\ PostedAtMostOnce'
  <2>1. /\ count \in Nat /\ count + 1 \in Events
        /\ count' = count + 1 /\ UNCHANGED posted
        /\ kind'[count + 1] = k /\ cur'[c] = count + 1
        /\ \A e \in Events : e <= count => kind'[e] = kind[e]
        /\ \A d \in Callbacks : d # c => cur'[d] = cur[d] /\ pc'[d] = pc[d]
        /\ pc'[c] = at
    BY <1>1 DEF Called, TypeOK, Events
  <2>2. /\ \A d \in Busy' : d \in Callbacks /\ (d = c \/ d \in Busy)
        /\ c \in Busy' => at = "connect"
    BY <2>1 DEF Busy, Active
  <2>3. \A d \in Busy : d # c /\ cur[d] \in Events /\ cur[d] <= count
    BY <1>1, <2>1 DEF EventInv, Busy, Active, TypeOK, Events
  <2>4. \A e \in Events, u \in Urls : posted[e][u] > 0 => e <= count
    BY <2>1 DEF EventInv, Events
  <2>5. EventInv'
    <3>1. \A d \in Busy' : /\ cur'[d] \in 1 .. count'
                           /\ kind'[cur'[d]] \in {"reportable"} \cup CarKinds
      BY <1>1, <2>1, <2>2, <2>3 DEF EventInv
    <3>2. \A d, e \in Busy' : cur'[d] = cur'[e] => d = e
      BY <2>1, <2>2, <2>3 DEF EventInv, Events
    <3>3. \A d \in Busy' : pc'[d] \in {"connect", "send"} =>
              \A u \in Urls : posted'[cur'[d]][u] = 0
      BY <2>1, <2>2, <2>3 DEF EventInv
    <3>4. \A e \in Events, u \in Urls : e > count' => posted'[e][u] = 0
      BY <2>1 DEF EventInv, Events
    <3> QED
      BY <3>1, <3>2, <3>3, <3>4 DEF EventInv
  <2> QED
    BY <2>1, <2>4, <2>5 DEF PostedAtMostOnce
<1>2. ASSUME NEW c \in Callbacks, pc[c] # "idle", NEW at,
             pc' = [pc EXCEPT ![c] = at],
             at \in {"connect", "send"} => pc[c] \in {"connect", "send"},
             UNCHANGED <<kind, count, cur, posted>>
      PROVE  EventInv' /\ PostedAtMostOnce'
  <2>1. \A d \in Busy' : /\ d \in Busy
                         /\ pc'[d] \in {"connect", "send"} => pc[d] \in {"connect", "send"}
    BY <1>2 DEF Busy, Active, TypeOK
  <2> QED
    BY <1>2, <2>1 DEF EventInv, PostedAtMostOnce
<1>3. ASSUME NEW c \in Callbacks, CM_AlarmCallBack(c) PROVE EventInv' /\ PostedAtMostOnce'
  BY <1>1, <1>3 DEF CM_AlarmCallBack
<1>4. ASSUME NEW c \in Callbacks, HandleCarNumberCB(c) PROVE EventInv' /\ PostedAtMostOnce'
  BY <1>1, <1>4 DEF HandleCarNumberCB
<1>5. ASSUME NEW c \in Callbacks,
             Connect(c) \/ SkipSend(c) \/ Recv(c) \/ Close(c) \/ WSACleanup(c)
      PROVE  EventInv' /\ PostedAtMostOnce'
  BY <1>2, <1>5 DEF Connect, SkipSend, Recv, Close, WSACleanup
<1>6. ASSUME NEW c \in Callbacks, Send(c) PROVE EventInv' /\ PostedAtMostOnce'
  <2>1. CASE Goto(c, "send", "close") /\ UNCHANGED posted
    BY <1>2, <1>6, <2>1 DEF Send
  <2>2. CASE /\ Goto(c, "send", "recv")
             /\ posted' = [posted EXCEPT ![cur[c]][Url(kind[cur[c]])] = @ + 1]
    <3> DEFINE e == cur[c]
               url == Url(kind[e])
    <3>1. /\ c \in Busy /\ pc[c] = "send" /\ e \in Events /\ e <= count
          /\ \A u \in Urls : posted[e][u] = 0
      BY <2>2 DEF Busy, Active, EventInv, TypeOK, Events
    <3>2. kind[e] \in {"reportable", "flags1", "flags0"}
      BY <1>6, <3>1 DEF Send, EventInv, CarKinds
    <3>3. url \in Urls
      BY <3>2 DEF Url, Urls
    <3>4. /\ posted'[e][url] = 1
          /\ \A u \in Urls : u # url => posted'[e][u] = 0
          /\ \A f \in Events : f # e => posted'[f] = posted[f]
      BY <2>2, <3>1, <3>3 DEF TypeOK
    <3>5. UNCHANGED <<kind, count, cur>>
      BY <1>6 DEF Send
    <3>6. \A d \in Busy' : /\ d \in Busy
                           /\ pc'[d] \in {"connect", "send"} =>
                                  d # c /\ pc[d] \in {"connect", "send"}
      BY <2>2, <3>1 DEF Busy, Active, TypeOK
    <3>7. \A d \in Busy : d # c => cur[d] \in Events /\ cur[d] # e
      BY <3>1 DEF EventInv, TypeOK, Events
    <3> HIDE DEF e, url
    <3>8. EventInv'
      <4>1. \A d \in Busy' : /\ cur'[d] \in 1 .. count'
                             /\ kind'[cur'[d]] \in {"reportable"} \cup CarKinds
        BY <3>5, <3>6 DEF EventInv
      <4>2. \A d, f \in Busy' : cur'[d] = cur'[f] => d = f
        BY <3>5, <3>6 DEF EventInv
      <4>3. \A d \in Busy' : pc'[d] \in {"connect", "send"} =>
                \A u \in Urls : posted'[cur'[d]][u] = 0
        BY <3>4, <3>5, <3>6, <3>7 DEF EventInv
      <4>4. \A f \in Events, u \in Urls : f > count' => posted'[f][u] = 0
        BY <3>1, <3>4, <3>5 DEF EventInv, Events, TypeOK
      <4> QED
        BY <4>1, <4>2, <4>3, <4>4 DEF EventInv
    <3>9. PostedAtMostOnce'
      <4>1. url = Url(kind[e])
        BY DEF url
      <4> QED
        BY <3>2, <3>4, <3>5, <4>1 DEF PostedAtMostOnce
    <3> QED
      BY <3>8, <3>9
  <2> QED
    BY <1>6, <2>1, <2>2 DEF Send
<1>7. CASE UNCHANGED vars
  BY <1>7 DEF vars, EventInv, PostedAtMostOnce, Busy, Active
<1> QED
  BY <1>3, <1>4, <1>5, <1>6, <1>7 DEF Next, Work

(* For every number of threads and events, an event is posted at most      *)
(* once, where it belongs, and only if it is one to report.                *)
THEOREM NoEventPostedTwice == Spec => []PostedAtMostOnce
<1>1. PostInv => PostedAtMostOnce
  BY DEF PostInv
<1> QED
  BY <1>1, PostInit, PostStep, PTL DEF Spec

-----------------------------------------------------------------------------
(* The callbacks about to connect without a startup of their own, and the  *)
(* events that were not posted and that nobody will post any more.         *)
Unstarted == {c \in Callbacks : pc[c] = "connect" /\ ~started[c]}
Lost == {e \in Unposted : \A c \in Busy : cur[c] # e}

(* A callback about to connect without a startup has its failed one still  *)
(* to its credit; each startup that was lost has an event that is.         *)
LeakInv ==
    /\ PostInv
    /\ orphans + Cardinality(Unstarted) <= stray + missed
    /\ stray <= Cardinality(Lost)

LEMMA LeakSetsFinite ==
    /\ IsFiniteSet(Unstarted) /\ Cardinality(Unstarted) \in Nat
    /\ IsFiniteSet(Lost) /\ Cardinality(Lost) \in Nat
    /\ IsFiniteSet(Unposted) /\ Lost \subseteq Unposted
<1>1. IsFiniteSet(Events)
  BY ReporterAssumption, FS_Interval DEF Events
<1>2. Unposted \subseteq Events /\ Lost \subseteq Unposted /\ Unstarted \subseteq Callbacks
  BY DEF Lost, Unposted, Unstarted
<1>3. IsFiniteSet(Unposted) /\ IsFiniteSet(Lost) /\ IsFiniteSet(Unstarted)
  BY <1>1, <1>2, CallbacksFinite, FS_Subset
<1> QED
  BY <1>2, <1>3, FS_CardinalityType

(* At the start, there is nothing to lose. *)
LEMMA LeakInit == Init => LeakInv
<1> SUFFICES ASSUME Init PROVE LeakInv
  OBVIOUS
<1>1. Unstarted = {} /\ Cardinality(Unstarted) = 0
  BY FS_EmptySet DEF Init, Unstarted
<1> QED
  BY <1>1, PostInit, LeakSetsFinite DEF Init, LeakInv

(* An event is lost for ever: nobody but its callback posts it. *)
LEMMA LostStaysLost == PostInv /\ [Next]_vars => Lost \subseteq Lost'
<1> SUFFICES ASSUME PostInv, [Next]_vars, NEW e \in Lost PROVE e \in Lost'
  OBVIOUS
<1>0. /\ e \in Events /\ e <= count /\ count \in Nat
      /\ \A u \in Urls : posted[e][u] = 0
      /\ \A c \in Busy : cur[c] # e
      /\ TypeOK
  BY ReporterAssumption DEF Lost, Unposted, PostInv, TypeOK
<1> USE DEF counters, Goto
<1>1. ASSUME UNCHANGED posted, count' \in {count, count + 1},
             \A c \in Busy' : cur'[c] = count + 1 \/ (c \in Busy /\ cur'[c] = cur[c])
      PROVE  e \in Lost'
  BY <1>0, <1>1 DEF Lost, Unposted, Events
<1>2. ASSUME NEW c \in Callbacks, NEW at, pc' = [pc EXCEPT ![c] = at],
             NEW k, NEW up, Called(c, k, up)
      PROVE  e \in Lost'
  <2>1. /\ UNCHANGED posted /\ count' = count + 1 /\ cur'[c] = count + 1
        /\ \A d \in Callbacks : d # c => cur'[d] = cur[d] /\ pc'[d] = pc[d]
    BY <1>0, <1>2 DEF Called, TypeOK
  <2> QED
    BY <1>1, <2>1 DEF Busy, Active
<1>3. ASSUME NEW c \in Callbacks, pc[c] # "idle", NEW at, pc' = [pc EXCEPT ![c] = at],
             UNCHANGED <<count, cur, posted>>
      PROVE  e \in Lost'
  <2>1. Busy' \subseteq Busy
    BY <1>0, <1>3 DEF Busy, Active, TypeOK
  <2> QED
    BY <1>1, <1>3, <2>1
<1>4. ASSUME NEW c \in Callbacks, Send(c) PROVE e \in Lost'
  <2>1. CASE Goto(c, "send", "close") /\ UNCHANGED posted
    BY <1>3, <1>4, <2>1 DEF Send
  <2>2. CASE /\ Goto(c, "send", "recv")
             /\ posted' = [posted EXCEPT ![cur[c]][Url(kind[cur[c]])] = @ + 1]
    <3>1. cur[c] # e /\ Busy' \subseteq Busy
      BY <1>0, <2>2 DEF Busy, Active, TypeOK
    <3>2. posted'[e] = posted[e]
      BY <1>0, <2>2, <3>1 DEF TypeOK
    <3>3. UNCHANGED <<count, cur>>
      BY <1>4 DEF Send
    <3> QED
      BY <1>0, <3>1, <3>2, <3>3 DEF Lost, Unposted
  <2> QED
    BY <1>4, <2>1, <2>2 DEF Send
<1>5. ASSUME NEW c \in Callbacks, CM_AlarmCallBack(c) PROVE e \in Lost'
  BY <1>2, <1>5 DEF CM_AlarmCallBack
<1>6. ASSUME NEW c \in Callbacks, HandleCarNumberCB(c) PROVE e \in Lost'
  BY <1>2, <1>6 DEF HandleCarNumberCB
<1>7. ASSUME NEW c \in Callbacks,
             Connect(c) \/ SkipSend(c) \/ Recv(c) \/ Close(c) \/ WSACleanup(c)
      PROVE  e \in Lost'
  BY <1>3, <1>7 DEF Connect, SkipSend, Recv, Close, WSACleanup
<1>8. CASE UNCHANGED vars
  BY <1>8 DEF vars, Lost, Unposted, Busy, Active
<1> QED
  BY <1>4, <1>5, <1>6, <1>7, <1>8 DEF Next, Work

(* One more event is lost. *)
LEMMA LostGrows ==
    ASSUME Lost \subseteq Lost', NEW e \in Lost', e \notin Lost
    PROVE  Cardinality(Lost') >= Cardinality(Lost) + 1
<1>1. /\ IsFiniteSet(Lost) /\ Cardinality(Lost) \in Nat
      /\ IsFiniteSet(Lost') /\ Cardinality(Lost') \in Nat
  <2>1. IsFiniteSet(Events) /\ Lost' \subseteq Events
    BY ReporterAssumption, FS_Interval DEF Events, Lost, Unposted
  <2> QED
    BY <2>1, LeakSetsFinite, FS_Subset, FS_CardinalityType
<1>2. Cardinality(Lost \cup {e}) = Cardinality(Lost) + 1
  BY <1>1, FS_AddElement
<1>3. Lost \cup {e} \subseteq Lost'
  OBVIOUS
<1> QED
  BY <1>1, <1>2, <1>3, FS_Subset

LEMMA LostNotFewer ==
    ASSUME Lost \subseteq Lost'
    PROVE  Cardinality(Lost') \in Nat /\ Cardinality(Lost') >= Cardinality(Lost)
<1>1. IsFiniteSet(Events) /\ Lost' \subseteq Events
  BY ReporterAssumption, FS_Interval DEF Events, Lost, Unposted
<1>2. IsFiniteSet(Lost') /\ Cardinality(Lost') \in Nat
  BY <1>1, FS_Subset, FS_CardinalityType
<1> QED
  BY <1>2, FS_Subset

(* Every startup lost comes with an event, every socket with a startup     *)
(* lost, or one that failed.                                               *)
LEMMA LeakStep == LeakInv /\ [Next]_vars => LeakInv'
<1> SUFFICES ASSUME LeakInv, [Next]_vars PROVE LeakInv'
  OBVIOUS
<1>0. /\ TypeOK /\ TypeOK' /\ PostInv' /\ EventInv
      /\ Lost \subseteq Lost'
      /\ Cardinality(Lost') \in Nat /\ Cardinality(Lost') >= Cardinality(Lost)
      /\ Cardinality(Lost) \in Nat /\ Cardinality(Unstarted) \in Nat
      /\ IsFiniteSet(Unstarted)
  BY PostStep, LostStaysLost, LostNotFewer, LeakSetsFinite DEF LeakInv, PostInv
<1> DEFINE n == Cardinality(Unstarted)
<1>b. /\ orphans \in Nat /\ stray \in Nat /\ missed \in Nat /\ n \in Nat
      /\ orphans + n <= stray + missed /\ stray <= Cardinality(Lost)
  BY <1>0 DEF TypeOK, LeakInv
<1> USE <1>0 DEF counters, Goto
<1>1. ASSUME Unstarted' = Unstarted, UNCHANGED <<stray, missed>>,
             orphans' \in Nat, orphans' <= orphans
      PROVE  LeakInv'
  BY <1>b, <1>1 DEF LeakInv
(* A call. *)
<1>2. ASSUME NEW c \in Callbacks, NEW k, NEW up \in BOOLEAN,
             Goto(c, "idle", "connect"), Called(c, k, up), UNCHANGED stray
      PROVE  LeakInv'
  <2>1. /\ \A d \in Callbacks : d # c => pc'[d] = pc[d] /\ started'[d] = started[d]
        /\ pc'[c] = "connect" /\ started'[c] = up /\ pc[c] = "idle"
        /\ UNCHANGED orphans /\ missed' = missed + (IF up THEN 0 ELSE 1)
    BY <1>2 DEF Called, TypeOK
  <2>2. CASE up
    <3>1. Unstarted' = Unstarted
      BY <2>1, <2>2 DEF Unstarted
    <3>2. missed' = missed
      BY <1>b, <2>1, <2>2
    <3> QED
      BY <1>1, <1>2, <1>b, <2>1, <3>1, <3>2
  <2>3. CASE ~up
    <3>1. Unstarted' = Unstarted \cup {c} /\ c \notin Unstarted
      BY <2>1, <2>3 DEF Unstarted
    <3>2. Cardinality(Unstarted') = n + 1
      BY <3>1, FS_AddElement
    <3>3. missed' = missed + 1
      BY <1>b, <2>1, <2>3
    <3> QED
      BY <1>2, <1>b, <2>1, <3>2, <3>3 DEF LeakInv
  <2> QED
    BY <2>2, <2>3
(* A call with nothing to report: its event is lost, like its startup. *)
<1>3. ASSUME NEW c \in Callbacks, NEW k, NEW up \in BOOLEAN,
             Goto(c, "idle", "idle"), Called(c, k, up), Leave(c, up)
      PROVE  LeakInv'
  <2>1. /\ pc' = pc /\ count' = count + 1 /\ count \in Nat /\ count + 1 \in Events
        /\ \A d \in Callbacks : d # c => started'[d] = started[d] /\ cur'[d] = cur[d]
        /\ pc[c] = "idle" /\ UNCHANGED <<orphans, posted>>
        /\ missed' = missed + (IF up THEN 0 ELSE 1)
    BY <1>3, ReporterAssumption DEF Called, TypeOK, Events
  <2>2. Unstarted' = Unstarted
    BY <2>1 DEF Unstarted
  <2>3. count + 1 \in Lost' /\ count + 1 \notin Lost
    <3>1. \A d \in Busy : d # c /\ cur[d] # count + 1
      BY <2>1 DEF EventInv, Busy, Active
    <3>2. Busy' = Busy
      BY <2>1 DEF Busy, Active
    <3>3. \A u \in Urls : posted[count + 1][u] = 0
      BY <2>1 DEF EventInv
    <3> QED
      BY <2>1, <3>1, <3>2, <3>3 DEF Lost, Unposted, Busy
  <2>4. Cardinality(Lost') >= Cardinality(Lost) + 1
    BY <2>3, LostGrows
  <2>5. stray' \in {stray, stray + 1} /\ missed' \in Nat /\ missed' >= missed /\ stray' >= stray
    BY <1>3, <1>b, <2>1 DEF Leave
  <2> QED
    BY <1>b, <2>1, <2>2, <2>4, <2>5 DEF LeakInv
(* A connection, or none. *)
<1>4. ASSUME NEW c \in Callbacks, Connect(c) PROVE LeakInv'
  <2>1. /\ pc[c] = "connect" /\ UNCHANGED <<count, cur, started, missed, posted>>
    BY <1>4 DEF Connect
  <2>2. /\ \A d \in Callbacks : d # c => pc'[d] = pc[d]
        /\ pc'[c] \in {"send", "idle"}
    BY <1>4 DEF Connect, TypeOK
  <2>3. Unstarted' = Unstarted \ {c} /\ (c \in Unstarted <=> ~started[c])
    BY <2>1, <2>2 DEF Unstarted
  <2>4. Cardinality(Unstarted') = IF started[c] THEN n ELSE n - 1
    BY <2>3, FS_RemoveElement
  <2>5. Cardinality(Unstarted') \in Nat
    BY <2>3, FS_RemoveElement, FS_CardinalityType
  <2>6. CASE Goto(c, "connect", "send") /\ UNCHANGED <<orphans, stray>>
    BY <1>b, <2>1, <2>4, <2>5, <2>6 DEF LeakInv
  <2>7. CASE /\ Goto(c, "connect", "idle") /\ Leave(c, started[c])
             /\ orphans' \in {orphans} \cup (IF winsock > 0 THEN {orphans + 1} ELSE {})
    <3>1. cur[c] \in Lost' /\ cur[c] \notin Lost
      <4>1. /\ c \in Busy /\ cur[c] \in Events /\ cur[c] <= count
            /\ \A u \in Urls : posted[cur[c]][u] = 0
        BY <2>1, ReporterAssumption DEF EventInv, Busy, Active, Events, TypeOK
      <4>2. \A d \in Busy' : d \in Busy /\ d # c
        BY <2>2, <2>7 DEF Busy, Active, TypeOK
      <4>3. \A d \in Busy' : cur[d] # cur[c]
        BY <4>1, <4>2 DEF EventInv
      <4> QED
        BY <2>1, <4>1, <4>3 DEF Lost, Unposted
    <3>2. Cardinality(Lost') >= Cardinality(Lost) + 1
      BY <3>1, LostGrows
    <3>3. orphans' \in {orphans, orphans + 1}
      BY <2>7
    <3>4. CASE started[c]
      <4>1. stray' = stray + 1
        BY <1>b, <2>7, <3>4 DEF Leave
      <4> QED
        BY <1>b, <2>1, <2>4, <3>2, <3>3, <3>4, <4>1 DEF LeakInv
    <3>5. CASE ~started[c]
      <4>1. stray' = stray
        BY <1>b, <2>7, <3>5 DEF Leave
      <4> QED
        BY <1>b, <2>1, <2>4, <3>2, <3>3, <3>5, <4>1 DEF LeakInv
    <3> QED
      BY <2>1, <3>4, <3>5 DEF TypeOK
  <2> QED
    BY <1>4, <2>6, <2>7 DEF Connect
(* The steps in between, and the cleanup, which may close every orphan. *)
<1>5. ASSUME NEW c \in Callbacks, pc[c] # "connect", NEW at, at # "connect",
             pc' = [pc EXCEPT ![c] = at], UNCHANGED started
      PROVE  Unstarted' = Unstarted
  BY <1>5 DEF Unstarted, TypeOK
<1>6. ASSUME NEW c \in Callbacks, Send(c) \/ SkipSend(c) \/ Recv(c) \/ Close(c)
      PROVE  LeakInv'
  <2>1. UNCHANGED <<started, stray, missed, orphans>>
    BY <1>6 DEF Send, SkipSend, Recv, Close
  <2>2. Unstarted' = Unstarted
    BY <1>5, <1>6 DEF Send, SkipSend, Recv, Close
  <2> QED
    BY <1>1, <1>b, <2>1, <2>2
<1>7. ASSUME NEW c \in Callbacks, WSACleanup(c) PROVE LeakInv'
  <2>1. UNCHANGED <<started, stray, missed>> /\ orphans' \in {orphans, 0}
    BY <1>7 DEF WSACleanup, Release
  <2>2. Unstarted' = Unstarted
    BY <1>5, <1>7 DEF WSACleanup
  <2> QED
    BY <1>1, <1>b, <2>1, <2>2
<1>8. CASE UNCHANGED vars
  <2>1. Unstarted' = Unstarted
    BY <1>8 DEF vars, Unstarted
  <2> QED
    BY <1>1, <1>8, <1>b, <2>1 DEF vars
<1>9. ASSUME NEW c \in Callbacks, CM_AlarmCallBack(c) \/ HandleCarNumberCB(c)
      PROVE  LeakInv'
  BY <1>2, <1>3, <1>9 DEF CM_AlarmCallBack, HandleCarNumberCB
<1> QED
  BY <1>4, <1>6, <1>7, <1>8, <1>9 DEF Next, Work

(* There are no more lost events than unposted ones. *)
LEMMA LeakInvImplies == LeakInv => LeaksAreLosses
<1> SUFFICES ASSUME LeakInv PROVE LeaksAreLosses
  OBVIOUS
<1>1. /\ Cardinality(Lost) <= Cardinality(Unposted)
      /\ Cardinality(Lost) \in Nat /\ Cardinality(Unposted) \in Nat
      /\ Cardinality(Unstarted) \in Nat
  BY LeakSetsFinite, FS_Subset, FS_CardinalityType
<1>2. orphans \in Nat /\ stray \in Nat /\ missed \in Nat
  BY DEF LeakInv, PostInv, TypeOK
<1> QED
  BY <1>1, <1>2 DEF LeakInv, LeaksAreLosses

(* For every number of threads and events, and whichever startups and      *)
(* connections fail: a socket nobody closes is the trace of a startup that *)
(* was lost or failed, and each startup lost that of an event of its own   *)
(* that was not posted.                                                    *)
THEOREM LeaksArePaidFor == Spec => []LeaksAreLosses
  BY LeakInit, LeakStep, LeakInvImplies, PTL DEF Spec

-----------------------------------------------------------------------------
(* A callback's place is left only by a step of its own, to the next one   *)
(* or to none.                                                             *)
LEMMA PlacesFollow ==
    ASSUME TypeOK, [Next]_vars, NEW c \in Callbacks
    PROVE  /\ pc[c] = "connect" => pc'[c] \in {"connect", "send", "idle"}
           /\ pc[c] = "send" => pc'[c] \in {"send", "recv", "close"}
           /\ pc[c] = "recv" => pc'[c] \in {"recv", "close"}
           /\ pc[c] = "close" => pc'[c] \in {"close", "cleanup"}
           /\ pc[c] = "cleanup" => pc'[c] \in {"cleanup", "idle"}
<1> USE DEF TypeOK, Goto
<1>1. CASE UNCHANGED vars
  BY <1>1 DEF vars
<1>2. ASSUME NEW d \in Callbacks, CM_AlarmCallBack(d) \/ HandleCarNumberCB(d)
      PROVE  \/ pc' = pc
             \/ pc[d] = "idle" /\ \E at : pc' = [pc EXCEPT ![d] = at]
  BY <1>2 DEF CM_AlarmCallBack, HandleCarNumberCB
<1>3. ASSUME NEW d \in Callbacks, Connect(d)
      PROVE  pc[d] = "connect" /\ \E at \in {"send", "idle"} : pc' = [pc EXCEPT ![d] = at]
  BY <1>3 DEF Connect
<1>4. ASSUME NEW d \in Callbacks, Send(d) \/ SkipSend(d)
      PROVE  pc[d] = "send" /\ \E at \in {"recv", "close"} : pc' = [pc EXCEPT ![d] = at]
  BY <1>4 DEF Send, SkipSend
<1>5. ASSUME NEW d \in Callbacks, Recv(d)
      PROVE  pc[d] = "recv" /\ pc' = [pc EXCEPT ![d] = "close"]
  BY <1>5 DEF Recv
<1>6. ASSUME NEW d \in Callbacks, Close(d)
      PROVE  pc[d] = "close" /\ pc' = [pc EXCEPT ![d] = "cleanup"]
  BY <1>6 DEF Close
<1>7. ASSUME NEW d \in Callbacks, WSACleanup(d)
      PROVE  pc[d] = "cleanup" /\ pc' = [pc EXCEPT ![d] = "idle"]
  BY <1>7 DEF WSACleanup
<1> QED
  BY <1>1, <1>2, <1>3, <1>4, <1>5, <1>6, <1>7 DEF Next, Work

(* A step of a callback's own takes it on. *)
LEMMA WorkMoves ==
    ASSUME TypeOK, NEW c \in Callbacks
    PROVE  /\ Work(c) => /\ pc[c] = "connect" => pc'[c] \in {"send", "idle"}
                         /\ pc[c] = "send" => pc'[c] \in {"recv", "close"}
                         /\ pc[c] = "close" => pc'[c] = "cleanup"
                         /\ pc[c] = "cleanup" => pc'[c] = "idle"
           /\ Recv(c) => pc'[c] = "close"
<1> USE DEF TypeOK, Goto
<1>1. Connect(c) => pc[c] = "connect" /\ pc'[c] \in {"send", "idle"}
  BY DEF Connect
<1>2. Send(c) \/ SkipSend(c) => pc[c] = "send" /\ pc'[c] \in {"recv", "close"}
  BY DEF Send, SkipSend
<1>3. Close(c) => pc[c] = "close" /\ pc'[c] = "cleanup"
  BY DEF Close
<1>4. WSACleanup(c) => pc[c] = "cleanup" /\ pc'[c] = "idle"
  BY DEF WSACleanup
<1>5. Recv(c) => pc'[c] = "close"
  BY DEF Recv
<1> QED
  BY <1>1, <1>2, <1>3, <1>4, <1>5 DEF Work

(* A callback under way comes to its end by way of at most five places,    *)
(* if at each of them there is a way on.                                   *)
LEMMA CallbackReturns ==
    ASSUME NEW c \in Callbacks
    PROVE  FairSpec /\ []NeverStuck => (Active(c) ~> ~Active(c))
<1> DEFINE At(place) == pc[c] = place
<1>1. TypeOK /\ [Next]_vars =>
          /\ At("connect") => (At("connect") \/ At("send") \/ At("idle"))'
          /\ At("send") => (At("send") \/ At("recv") \/ At("close"))'
          /\ At("recv") => (At("recv") \/ At("close"))'
          /\ At("close") => (At("close") \/ At("cleanup"))'
          /\ At("cleanup") => (At("cleanup") \/ At("idle"))'
  BY PlacesFollow
<1>2. TypeOK /\ <<Work(c)>>_vars =>
          /\ At("connect") => (At("send") \/ At("idle"))'
          /\ At("send") => (At("recv") \/ At("close"))'
          /\ At("close") => At("cleanup")'
          /\ At("cleanup") => At("idle")'
  BY WorkMoves
<1>3. TypeOK /\ <<Recv(c)>>_vars => At("close")'
  BY WorkMoves
<1>4. NeverStuck =>
          /\ At("connect") \/ At("send") \/ At("close") \/ At("cleanup")
                 => ENABLED <<Work(c)>>_vars
          /\ At("recv") => ENABLED <<Recv(c)>>_vars
  BY DEF NeverStuck
<1>5. TypeOK => \/ At("idle") \/ At("connect") \/ At("send") \/ At("recv")
                \/ At("close") \/ At("cleanup")
  BY DEF TypeOK
<1>6. Active(c) <=> ~At("idle")
  BY DEF Active
<1>7. Fairness => Scheduled(c)
  BY DEF Fairness
<1> HIDE DEF At
<1> QED
  BY <1>1, <1>2, <1>3, <1>4, <1>5, <1>6, <1>7, TypeCorrect, PTL
     DEF FairSpec, Spec, Scheduled

(* However many threads and events there are, every callback returns, if   *)
(* the threads are scheduled fairly, recv comes back and no callback is    *)
(* ever without a step to take.                                            *)
THEOREM EveryCallbackReturns == FairSpec /\ []NeverStuck => CallbacksReturn
<1>1. ASSUME NEW c \in Callbacks
      PROVE  FairSpec /\ []NeverStuck => (Active(c) ~> ~Active(c))
  BY CallbackReturns
<1> QED
  BY <1>1 DEF CallbacksReturn
=============================================================================
