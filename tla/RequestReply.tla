---------------------------- MODULE RequestReply ----------------------------
(***************************************************************************)
(* What the HTTP server promises its clients, whatever they ask for: the   *)
(* requests are taken one at a time in the order they came in, each one    *)
(* has its effect at most once and is answered at most once, the effect    *)
(* comes before the answer, and as long as the process is up and has       *)
(* memory for a reply, none waits forever.                                 *)
(***************************************************************************)
EXTENDS Naturals, Sequences

CONSTANT MaxRequests

VARIABLES
    arrived,    \* how many requests came in; a request is named by its number
    waiting,    \* the requests not yet disposed of, oldest first
    served,     \* the requests whose effect on a device was had
    answered,   \* the requests that got a reply
    up          \* the process is alive

rrVars == <<arrived, waiting, served, answered, up>>

Init ==
    /\ arrived = 0
    /\ waiting = <<>>
    /\ served = {}
    /\ answered = {}
    /\ up = TRUE

Arrive ==
    /\ up /\ arrived < MaxRequests
    /\ arrived' = arrived + 1
    /\ waiting' = Append(waiting, arrived + 1)
    /\ UNCHANGED <<served, answered, up>>

Serve ==
    /\ up /\ waiting # <<>>
    /\ Head(waiting) \notin served
    /\ served' = served \cup {Head(waiting)}
    /\ UNCHANGED <<arrived, waiting, answered, up>>

Answer ==
    /\ up /\ waiting # <<>>
    /\ answered' = answered \cup {Head(waiting)}
    /\ waiting' = Tail(waiting)
    /\ UNCHANGED <<arrived, served, up>>

(* No memory for a reply: the request is left without one. *)
Forget ==
    /\ up /\ waiting # <<>>
    /\ waiting' = Tail(waiting)
    /\ UNCHANGED <<arrived, served, answered, up>>

Die ==
    /\ up /\ waiting # <<>>
    /\ up' = FALSE
    /\ UNCHANGED <<arrived, waiting, served, answered>>

Next == Arrive \/ Serve \/ Answer \/ Forget \/ Die

Safety == Init /\ [][Next]_rrVars
Spec == Safety /\ WF_rrVars(Answer \/ Forget \/ Die)
=============================================================================
