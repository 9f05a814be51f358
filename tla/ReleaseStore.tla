---------------------------- MODULE ReleaseStore ----------------------------
(***************************************************************************)
(* What the Android update server promises its clients, and nothing of how *)
(* it keeps the promise: artifact names are written at most once, whole;   *)
(* a channel is replaced as a whole; and what a client is told about an    *)
(* artifact is true of the store at the moment it is told.                 *)
(*                                                                         *)
(* UpdateRepository is shown to implement this specification.              *)
(***************************************************************************)
EXTENDS Integers, Sequences

CONSTANTS
    Clients,    \* the connections that may be told something
    Names,      \* artifact names
    Channels,   \* release channels
    Contents,   \* what a file may hold
    Absent,     \* the state of a name nothing was published under
    Silence     \* a client that was told nothing

VARIABLES
    store,      \* [Names -> Contents \cup {Absent}]
    pointer,    \* [Channels -> Contents \cup {Absent}]
    told        \* what each client was told last

vars == <<store, pointer, told>>

\* What may be said about an artifact: that it was created with this content, or
\* that these are the bytes of it from a position on.
Truthful(said) ==
    \/ said = Silence
    \/ said.about \notin Names
    \/ /\ store[said.about] # Absent
       /\ IF said.whole THEN said.bytes = store[said.about]
          ELSE said.bytes = SubSeq(store[said.about], said.from + 1,
                                   said.from + Len(said.bytes))

Init ==
    /\ store = [n \in Names |-> Absent]
    /\ pointer = [c \in Channels |-> Absent]
    /\ told = [t \in Clients |-> Silence]

\* The new value is named by its prime rather than by a bound variable, because
\* Contents is infinite: a published content is any content.
Publish(n) ==
    /\ store[n] = Absent
    /\ store'[n] \in Contents
    /\ store' = [store EXCEPT ![n] = store'[n]]
    /\ UNCHANGED <<pointer, told>>

Repoint(c) ==
    /\ pointer'[c] \in Contents
    /\ pointer' = [pointer EXCEPT ![c] = pointer'[c]]
    /\ UNCHANGED <<store, told>>

Tell(t) ==
    /\ Truthful(told'[t])
    /\ told' = [told EXCEPT ![t] = told'[t]]
    /\ UNCHANGED <<store, pointer>>

\* The server stops and every connection with it; the store stays.
Hangup ==
    /\ told' = [t \in Clients |-> Silence]
    /\ UNCHANGED <<store, pointer>>

Next ==
    \/ \E n \in Names : Publish(n)
    \/ \E c \in Channels : Repoint(c)
    \/ \E t \in Clients : Tell(t)
    \/ Hangup

Spec == Init /\ [][Next]_vars
=============================================================================
