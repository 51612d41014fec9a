---------------------------- MODULE DoorControl -----------------------------
(***************************************************************************)
(* What the server thread promises those who operate doors, whatever       *)
(* handles, tables and reference counts it takes: it is not starting       *)
(* forever; while it is up, a command for a configured door is carried out *)
(* at that door or not at all, one for any other address never; before and *)
(* after, nothing is carried out.                                          *)
(***************************************************************************)
CONSTANTS Addrs, NoDevice

VARIABLES
    doors,      \* the configured addresses
    phase,      \* the server
    last        \* the last command: asked for, carried out at

dcVars == <<doors, phase, last>>

None == [asked |-> NoDevice, reached |-> NoDevice]

Init ==
    /\ doors \subseteq Addrs
    /\ phase = "starting"
    /\ last = None

ComeUp == phase = "starting" /\ phase' = "up" /\ UNCHANGED <<doors, last>>

GiveUp == phase = "starting" /\ phase' = "down" /\ UNCHANGED <<doors, last>>

Command(addr) ==
    /\ phase = "up"
    /\ last' \in [asked : {addr}, reached : {NoDevice} \cup ({addr} \cap doors)]
    /\ UNCHANGED <<doors, phase>>

Stop ==
    /\ phase = "up"
    /\ phase' = "down" /\ last' = None
    /\ UNCHANGED doors

Next == ComeUp \/ GiveUp \/ Stop \/ \E addr \in Addrs : Command(addr)

Safety == Init /\ [][Next]_dcVars
Spec == Safety /\ WF_dcVars(ComeUp \/ GiveUp)
=============================================================================
