----------------------------- MODULE SessionOwner -----------------------------
(***************************************************************************)
(* What the documents promise of the ownership of one Herdr Session: "The   *)
(* owner holds an exclusive Session Runtime Lease for its entire lifetime   *)
(* and publishes readiness only after validating Session Identity and       *)
(* opening its Runtime Control Endpoint" (docs/adr/0010).  The files other  *)
(* processes find an owner by are written by the holder of the lease alone. *)
(***************************************************************************)
CONSTANTS Launches, None

VARIABLES
    holder,     \* the launch that holds the lease, or None
    endpoint,   \* the launch whose control endpoint the path names, or None
    published   \* the launch the metadata calls Ready, or None

vars == <<holder, endpoint, published>>

Init == holder = None /\ endpoint = None /\ published = None

Acquire ==
    /\ holder = None
    /\ holder' \in Launches
    /\ UNCHANGED <<endpoint, published>>

Open ==
    /\ holder # None
    /\ endpoint' = holder
    /\ UNCHANGED <<holder, published>>

Publish ==
    /\ holder # None /\ endpoint = holder
    /\ published' = holder
    /\ UNCHANGED <<holder, endpoint>>

(* A graceful end, or a fault that is recorded instead of Ready.            *)
Withdraw ==
    /\ holder # None
    /\ published' = None
    /\ UNCHANGED <<holder, endpoint>>

Close ==
    /\ holder # None /\ endpoint = holder
    /\ endpoint' = None
    /\ UNCHANGED <<holder, published>>

Release ==
    /\ holder # None
    /\ holder' = None
    /\ UNCHANGED <<endpoint, published>>

Next == Acquire \/ Open \/ Publish \/ Withdraw \/ Close \/ Release

Spec == Init /\ [][Next]_vars
===============================================================================
