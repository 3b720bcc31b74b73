------------------------- MODULE TcAttachmentProofs -------------------------
(***************************************************************************)
(* Ownership of the TC filter for any number of objects that compete for   *)
(* one identity.                                                           *)
(***************************************************************************)
EXTENDS TcAttachment, TLAPS

\* The inductive invariant.
IInv == TypeOK /\ OwnershipKnown /\ LeakReported

\* The initial states satisfy it.
LEMMA InitInv == Init => IInv
BY AttachmentAssumption DEF Init, IInv, TypeOK, Results, OwnershipKnown, LeakReported

\* Every step of an object preserves it.
LEMMA ObjectStep ==
    ASSUME IInv, NEW i \in Objects,
           \/ Attach(i) \/ AttachThrows(i)
           \/ \E caller \in {"live", "dying"} : CallDetach(i, caller)
           \/ DestroyUnattached(i)
           \/ QueryFindsNothing(i) \/ QueryFindsOther(i) \/ QueryFindsOwn(i)
           \/ KernelFails(i) \/ KernelDetach(i)
    PROVE  IInv'
<1> USE AttachmentAssumption
    DEF IInv, TypeOK, Results, OwnershipKnown, LeakReported
<1>1. CASE Attach(i)
  BY <1>1 DEF Attach, CanAttach, KernelAccepts
<1>2. CASE AttachThrows(i)
  BY <1>2 DEF AttachThrows, CanAttach
<1>3. ASSUME NEW caller \in {"live", "dying"}, CallDetach(i, caller)
      PROVE  IInv'
  BY <1>3 DEF CallDetach
<1>4. CASE DestroyUnattached(i)
  BY <1>4 DEF DestroyUnattached
<1>5. CASE QueryFindsNothing(i)
  BY <1>5 DEF QueryFindsNothing, GiveUp, Return
<1>6. CASE QueryFindsOther(i)
  BY <1>6 DEF QueryFindsOther, GiveUp, Return
<1>7. CASE QueryFindsOwn(i)
  BY <1>7 DEF QueryFindsOwn
<1>8. CASE KernelFails(i)
  BY <1>8 DEF KernelFails, Return
<1>9. CASE KernelDetach(i)
  BY <1>9 DEF KernelDetach, GiveUp, Return
<1> QED
  BY <1>1, <1>2, <1>3, <1>4, <1>5, <1>6, <1>7, <1>8, <1>9

\* So does every step, other tools' included.
LEMMA NextInv == IInv /\ [Next]_vars => IInv'
<1> SUFFICES ASSUME IInv, [Next]_vars PROVE IInv'
  OBVIOUS
<1>1. CASE OutsideDelete \/ OutsideReplace \/ DeviceGone
  <2>1. slot' \in {Foreign, Empty} /\ device' \in BOOLEAN
        /\ UNCHANGED <<attached, at, life, rc>>
    <3>1. device \in BOOLEAN
      BY DEF IInv, TypeOK
    <3> QED
      BY <1>1, <3>1, Zenon DEF OutsideDelete, OutsideReplace, DeviceGone
  <2>2. slot' \notin Objects
    BY <2>1, AttachmentAssumption
  <2> QED
    BY <2>1, <2>2 DEF IInv, TypeOK, OwnershipKnown, LeakReported
<1>2. CASE UNCHANGED vars
  BY <1>2 DEF vars, IInv, TypeOK, OwnershipKnown, LeakReported
<1>3. CASE AllGone
  BY <1>2, <1>3 DEF AllGone
<1> QED
  BY <1>1, <1>2, <1>3, ObjectStep DEF Next

\* The invariant holds in every reachable state.
THEOREM InvariantHolds == Spec => []IInv
BY InitInv, NextInv, PTL DEF Spec

\* The objects stay in their types; only an attached object that is not gone
\* is ever inside Detach.
THEOREM TypeCorrect == Spec => []TypeOK
<1>1. IInv => TypeOK
  BY DEF IInv
<1> QED
  BY <1>1, InvariantHolds, PTL

\* attached_ is given up only when the object's program is no longer in the
\* kernel, whatever other tools and failing calls do in between.
THEOREM OwnershipAlwaysKnown == Spec => []OwnershipKnown
<1>1. IInv => OwnershipKnown
  BY DEF IInv
<1> QED
  BY <1>1, InvariantHolds, PTL

\* A program left behind by a destructor was reported by it.
THEOREM LeaksReported == Spec => []LeakReported
<1>1. IInv => LeakReported
  BY DEF IInv
<1> QED
  BY <1>1, InvariantHolds, PTL
=============================================================================
