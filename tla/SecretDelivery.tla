---------------------------- MODULE SecretDelivery ----------------------------
(***************************************************************************)
(* What the synchronisation engine promises, without tasks, gates, files,  *)
(* failures or crashes.  Each binding's secret has a version in its        *)
(* source; versions are delivered to the target, never an older one after  *)
(* a newer one; the version recorded as applied is always one that was     *)
(* delivered; and a suspended binding is left alone until it is resumed or *)
(* its configuration changes.                                              *)
(***************************************************************************)
EXTENDS Naturals

CONSTANT Bindings

VARIABLES
    source,     \* the version in the source
    delivered,  \* the last version delivered to the target, 0 if none
    recorded,   \* the version recorded as applied, 0 if none
    suspended   \* the disabled bindings

vars == <<source, delivered, recorded, suspended>>

Init ==
    /\ source = [b \in Bindings |-> 1]
    /\ delivered = [b \in Bindings |-> 0]
    /\ recorded = [b \in Bindings |-> 0]
    /\ suspended = {}

Rotate(b) ==
    /\ source' = [source EXCEPT ![b] = @ + 1]
    /\ UNCHANGED <<delivered, recorded, suspended>>

Deliver(b) ==
    /\ b \notin suspended
    /\ \E v \in delivered[b]..source[b] : delivered' = [delivered EXCEPT ![b] = v]
    /\ UNCHANGED <<source, recorded, suspended>>

Record(b) ==
    /\ b \notin suspended
    /\ recorded' = [recorded EXCEPT ![b] = delivered[b]]
    /\ UNCHANGED <<source, delivered, suspended>>

Suspend(b) ==
    /\ suspended' = suspended \cup {b}
    /\ UNCHANGED <<source, delivered, recorded>>

Resume(b) ==
    /\ suspended' = suspended \ {b}
    /\ UNCHANGED <<source, delivered, recorded>>

Forget(changed) ==
    /\ recorded' = [b \in Bindings |-> IF b \in changed THEN 0 ELSE recorded[b]]
    /\ suspended' = suspended \ changed
    /\ UNCHANGED <<source, delivered>>

Next ==
    \/ \E b \in Bindings :
          Rotate(b) \/ Deliver(b) \/ Record(b) \/ Suspend(b) \/ Resume(b)
    \/ \E changed \in SUBSET Bindings : Forget(changed)

Spec == Init /\ [][Next]_vars
=============================================================================
