------------------------------- MODULE EventLog -------------------------------
(***************************************************************************)
(* What a camera promises the UniFi controller about its motion events,    *)
(* and nothing of the tasks and sessions behind it: events are told one    *)
(* after the other under ids that only grow, a stop is the stop of the     *)
(* event that was told last, and the next event begins only when that one  *)
(* was stopped.  A start or a stop may be told again when the sender does  *)
(* not know whether it has arrived.                                        *)
(*                                                                         *)
(* ReolinkMotion, FrigateMotion and CameraProxy are shown to implement     *)
(* this specification.                                                     *)
(***************************************************************************)
EXTENDS Integers

CONSTANTS
    Types,    \* the object types of events
    NoType    \* the type of an event without one

VARIABLES
    sent,      \* the event that was told last
    nextId,    \* the id of the next event to begin
    careless   \* two calls of the camera's code have crossed each other

vars == <<sent, nextId, careless>>

Init ==
    /\ sent = [edge |-> "none", id |-> 0, type |-> NoType]
    /\ nextId = 0
    /\ careless = FALSE

\* An event begins.  No careful camera leaves one behind that it did not stop.
Start(type) ==
    /\ careless' \/ sent.edge # "start" \/ sent.id = nextId
    /\ sent' = [edge |-> "start", id |-> nextId, type |-> type]
    /\ UNCHANGED nextId

\* An event ends, and is named as it was when it began.
Stop(type) ==
    /\ nextId > 0
    /\ careless' \/ (sent.edge # "none" /\ sent.id = nextId - 1 /\ sent.type = type)
    /\ sent' = [edge |-> "stop", id |-> nextId - 1, type |-> type]
    /\ UNCHANGED nextId

\* The camera knows that its event has begun: the id is used up.
Begun ==
    /\ nextId' = nextId + 1
    /\ UNCHANGED sent

Next ==
    /\ \/ \E type \in Types : Start(type) \/ Stop(type)
       \/ Begun
       \/ UNCHANGED <<sent, nextId>>
    /\ careless => careless'
    /\ careless' \in BOOLEAN

Spec == Init /\ [][Next]_vars
=============================================================================
