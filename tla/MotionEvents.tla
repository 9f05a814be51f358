---------------------------- MODULE MotionEvents ----------------------------
(***************************************************************************)
(* The motion events of unifi-cam-proxy (unifi/cams/base.py): what         *)
(* trigger_motion_start and trigger_motion_stop send to the controller and *)
(* what they remember between calls.                                       *)
(*                                                                         *)
(* The callers are asyncio tasks: one runs until it awaits something that  *)
(* is not ready, and then any other may run.  Each operation is cut at its *)
(* awaits, the send of the event and the capture of the snapshot.  A frame *)
(* is written when send is called; the task may resume much later.         *)
(***************************************************************************)
EXTENDS Integers

CONSTANTS
    Tasks,        \* the tasks that may call the operations
    Core,         \* the one among them that closes the camera (core.py)
    ObjectTypes,  \* SmartDetectObjectType
    NoType,       \* a motion event without an object type
    MaxEvents     \* bound on the event ids (stops new events, never an operation)

ASSUME MotionAssumption ==
    /\ Core \in Tasks
    /\ NoType \notin ObjectTypes
    /\ MaxEvents \in Nat

VARIABLES
    ws,          \* "open" or "closed": the websocket in self._session
    eventId,     \* _motion_event_id
    started,     \* _motion_event_ts is set
    objectType,  \* _motion_object_type
    snapshot,    \* the file that _motion_snapshot names: "none", "initial" or "deleted"
    at,          \* the await each task is suspended at, or "idle"
    wanted,      \* the object type a suspended start was called with
    sent,        \* history: the last event that was sent
    starts       \* history: the <<id, type>> of all starts that were sent

motion == <<ws, eventId, started, objectType, snapshot, at, wanted, sent, starts>>

Types == ObjectTypes \cup {NoType}

Nothing == [edge |-> "none", id |-> 0, type |-> NoType]

MotionInit ==
    /\ ws = "closed"
    /\ eventId = 0
    /\ started = FALSE
    /\ objectType = NoType
    /\ snapshot = "none"
    /\ at = [t \in Tasks |-> "idle"]
    /\ wanted = [t \in Tasks |-> NoType]
    /\ sent = Nothing
    /\ starts = {}

\* The id of the next event to begin: that of an open event is used up, although the
\* counter moves on only when its stop was sent.
NextId == IF started THEN eventId + 1 ELSE eventId

Suspend(t, where) == at' = [at EXCEPT ![t] = where]

\* send: on a closed websocket it raises, and its caller has to say what then.
SendEvent(edge, type) ==
    /\ ws = "open"
    /\ sent' = [edge |-> edge, id |-> eventId, type |-> type]
    /\ starts' = IF edge = "start" THEN starts \cup {<<eventId, type>>} ELSE starts

\* trigger_motion_start up to its send, when no motion event is open.
BeginStart(t, type) ==
    /\ ~started
    /\ eventId < MaxEvents
    /\ SendEvent("start", type)
    /\ wanted' = [wanted EXCEPT ![t] = type]
    /\ Suspend(t, "start")
    /\ UNCHANGED <<ws, eventId, started, objectType, snapshot>>

\* The send returns: the event counts as open only now.
StartSent(t) ==
    /\ at[t] = "start"
    /\ started' = TRUE
    /\ objectType' = wanted[t]
    /\ Suspend(t, "capture")
    /\ UNCHANGED <<ws, eventId, snapshot, wanted, sent, starts>>

\* MUTANT: the path is kept although there is no file.
SnapshotAssumed(t) ==
    /\ at[t] = "capture"
    /\ snapshot' \in {"initial", "missing"}
    /\ Suspend(t, "idle")
    /\ UNCHANGED <<ws, eventId, started, objectType, wanted, sent, starts>>

\* get_snapshot returns and the file is copied, unless there is none.
SnapshotCaptured(t) ==
    /\ at[t] = "capture"
    /\ snapshot' \in {"initial", snapshot}
    /\ Suspend(t, "idle")
    /\ UNCHANGED <<ws, eventId, started, objectType, wanted, sent, starts>>

\* MUTANT: the stop does not ask whether a motion event is open.
BeginStopAlways(t) ==
    /\ SendEvent("stop", objectType)
    /\ Suspend(t, "stop")
    /\ UNCHANGED <<ws, eventId, started, objectType, snapshot, wanted>>

\* trigger_motion_stop up to its send, when a motion event is open.
BeginStop(t) ==
    /\ started
    /\ SendEvent("stop", objectType)
    /\ Suspend(t, "stop")
    /\ UNCHANGED <<ws, eventId, started, objectType, snapshot, wanted>>

\* MUTANT: the id is used again.
StopSentSameId(t) ==
    /\ at[t] = "stop"
    /\ started' = FALSE
    /\ objectType' = NoType
    /\ Suspend(t, "idle")
    /\ UNCHANGED <<ws, eventId, snapshot, wanted, sent, starts>>

\* The send returns: the event is closed and the id is used up.
StopSent(t) ==
    /\ at[t] = "stop"
    /\ eventId' = eventId + 1
    /\ started' = FALSE
    /\ objectType' = NoType
    /\ Suspend(t, "idle")
    /\ UNCHANGED <<ws, snapshot, wanted, sent, starts>>

\* A task that is suspended in send when the connection is lost gets an exception; one
\* whose frame was already flushed does not.
SendRaises(t) ==
    /\ at[t] \in {"start", "stop"}
    /\ ws = "closed"
    /\ Suspend(t, "idle")
    /\ UNCHANGED <<ws, eventId, started, objectType, snapshot, wanted, sent, starts>>

\* The snapshot of a start that was sent cannot be fetched or copied: only an error of
\* the HTTP client is caught on the way, neither its timeout nor a full disk.
CaptureRaises(t) ==
    /\ at[t] = "capture"
    /\ Suspend(t, "idle")
    /\ UNCHANGED <<ws, eventId, started, objectType, snapshot, wanted, sent, starts>>

\* A motion operation that was suspended raises in its caller.
OperationRaises(t) == SendRaises(t) \/ CaptureRaises(t)

\* A call that returns, or raises, without having sent anything.
NoEvent == UNCHANGED motion

MotionTypeOK ==
    /\ ws \in {"open", "closed"}
    /\ eventId \in Nat
    /\ started \in BOOLEAN
    /\ objectType \in Types
    /\ snapshot \in {"none", "initial", "deleted"}
    /\ at \in [Tasks -> {"idle", "start", "capture", "stop", "snapshot"}]
    /\ wanted \in [Tasks -> Types]
    /\ sent \in [edge : {"none", "start", "stop"}, id : Nat, type : Types]
    /\ starts \subseteq Nat \X Types
=============================================================================
