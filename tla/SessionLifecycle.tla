--------------------------- MODULE SessionLifecycle ---------------------------
(***************************************************************************)
(* What the checkout service promises its clients, without requests, locks *)
(* or queues: a session is open until it is completed or canceled, and     *)
(* stays what it became until the store forgets it; completing it places   *)
(* exactly one order, in the same step; and every order that is placed     *)
(* can eventually be retrieved.                                            *)
(***************************************************************************)
EXTENDS Identifiers

VARIABLES
    phase,       \* phase[c]: what session c is for its client
    placed,      \* the orders placed, each with its session
    retrievable  \* the orders the order API can answer for

lifecycleVars == <<phase, placed, retrievable>>

Phases == {"absent", "open", "completed", "canceled"}

LifecycleTypeOK == /\ phase \in [Checkouts -> Phases]
                   /\ placed \subseteq [order : Orders, checkout : Checkouts]
                   /\ retrievable \subseteq Orders

LifecycleInit == /\ phase = [c \in Checkouts |-> "absent"]
                 /\ placed = {}
                 /\ retrievable = {}

HasOrder(c) == \E p \in placed : p.checkout = c

(* A session that is stored for the first time, or one whose update was    *)
(* in progress when the store forgot it.                                   *)
Open(c) == /\ phase[c] = "absent" /\ ~HasOrder(c)
           /\ phase' = [phase EXCEPT ![c] = "open"]
           /\ UNCHANGED <<placed, retrievable>>

Complete(c, o) == /\ phase[c] \in {"absent", "open"} /\ ~HasOrder(c)
                  /\ \A p \in placed : p.order # o
                  /\ phase' = [phase EXCEPT ![c] = "completed"]
                  /\ placed' = placed \cup {[order |-> o, checkout |-> c]}
                  /\ UNCHANGED retrievable

Cancel(c) == /\ phase[c] \in {"absent", "open"} /\ ~HasOrder(c)
             /\ phase' = [phase EXCEPT ![c] = "canceled"]
             /\ UNCHANGED <<placed, retrievable>>

Forget(c) == /\ phase[c] # "absent"
             /\ phase' = [phase EXCEPT ![c] = "absent"]
             /\ UNCHANGED <<placed, retrievable>>

MakeRetrievable(p) == /\ p \in placed /\ p.order \notin retrievable
                      /\ retrievable' = retrievable \cup {p.order}
                      /\ UNCHANGED <<phase, placed>>

LifecycleNext ==
    \/ \E c \in Checkouts : \/ Open(c) \/ Cancel(c) \/ Forget(c)
                            \/ \E o \in Orders : Complete(c, o)
    \/ \E p \in placed : MakeRetrievable(p)

(* What can happen, and that it does. *)
LifecycleSafety == LifecycleInit /\ [][LifecycleNext]_lifecycleVars

LifecycleSpec ==
    /\ LifecycleSafety
    /\ \A c \in Checkouts, o \in Orders :
           WF_lifecycleVars(MakeRetrievable([order |-> o, checkout |-> c]))

=============================================================================
