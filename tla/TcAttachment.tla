---------------------------- MODULE TcAttachment ----------------------------
(***************************************************************************)
(* TcAttachment (inc/TcAttachment.hpp): objects that each own one eBPF     *)
(* program at a TC filter's identity (interface, direction, handle,        *)
(* priority).  All objects here use one identity, as two instances of the  *)
(* program on one host do, and other tools use it too.  The kernel holds   *)
(* at most one program there, named by the object it belongs to.           *)
(*                                                                         *)
(* One step is one netlink call; anybody may act between two of them.      *)
(***************************************************************************)
CONSTANTS
    Objects,    \* TcAttachment objects, each with a program of its own
    Foreign,    \* a program of another tool
    Empty       \* no filter

ASSUME AttachmentAssumption ==
    Foreign \notin Objects /\ Empty \notin Objects /\ Foreign # Empty

VARIABLES
    slot,       \* the program the kernel has at the identity
    device,     \* the interface exists
    attached,   \* attached_
    at,         \* the netlink call of Detach the object is at
    life,       \* the object's lifetime
    rc          \* what the last call returned

vars == <<slot, device, attached, at, life, rc>>

Results == {"ok", "stale", "error"}

\* Type invariant; only an attached object is inside Detach.
TypeOK ==
    /\ slot \in Objects \cup {Foreign, Empty}
    /\ device \in BOOLEAN
    /\ attached \in [Objects -> BOOLEAN]
    /\ at \in [Objects -> {"idle", "query", "detach"}]
    /\ life \in [Objects -> {"live", "dying", "gone"}]
    /\ rc \in [Objects -> Results]
    /\ \A i \in Objects : at[i] # "idle" => attached[i] /\ life[i] # "gone"

Init ==
    /\ slot \in {Empty, Foreign}
    /\ device = TRUE
    /\ attached = [i \in Objects |-> FALSE]
    /\ at = [i \in Objects |-> "idle"]
    /\ life = [i \in Objects |-> "live"]
    /\ rc = [i \in Objects |-> "ok"]

-----------------------------------------------------------------------------
(* Attach                                                                  *)

CanAttach(i) == life[i] = "live" /\ at[i] = "idle" /\ ~attached[i]

\* bpf_tc_attach without BPF_TC_F_REPLACE: an occupied identity is an error.
KernelAccepts == device /\ slot = Empty

Attach(i) ==
    /\ CanAttach(i) /\ KernelAccepts
    /\ slot' = i
    /\ attached' = [attached EXCEPT ![i] = TRUE]
    /\ rc' = [rc EXCEPT ![i] = "ok"]
    /\ UNCHANGED <<device, at, life>>

\* Any call in it fails, and Attach throws.  The clsact qdisc that
\* bpf_tc_hook_create may have made stays, with or without a filter in it; it
\* is no part of the state here.
AttachThrows(i) ==
    /\ CanAttach(i)
    /\ rc' = [rc EXCEPT ![i] = "error"]
    /\ UNCHANGED <<slot, device, attached, at, life>>

-----------------------------------------------------------------------------
(* Detach, called by the owner or by the destructor                        *)

\* Fault: Detach hides what failed.
ReturnOk(i, result) ==
    /\ at' = [at EXCEPT ![i] = "idle"]
    /\ rc' = [rc EXCEPT ![i] = "ok"]
    /\ life' = [life EXCEPT ![i] = IF @ = "dying" THEN "gone" ELSE @]

\* The end of Detach, and of the object if its destructor called it.
Return(i, result) ==
    /\ at' = [at EXCEPT ![i] = "idle"]
    /\ rc' = [rc EXCEPT ![i] = result]
    /\ life' = [life EXCEPT ![i] = IF @ = "dying" THEN "gone" ELSE @]
GiveUp(i) == attached' = [attached EXCEPT ![i] = FALSE]

\* Fault: no test of attached_.
CallDetachAnyway(i, caller) ==
    /\ life[i] = "live" /\ at[i] = "idle"
    /\ at' = [at EXCEPT ![i] = "query"]
    /\ life' = [life EXCEPT ![i] = caller]
    /\ UNCHANGED <<slot, device, attached, rc>>

CallDetach(i, caller) ==
    /\ life[i] = "live" /\ at[i] = "idle" /\ attached[i]
    /\ at' = [at EXCEPT ![i] = "query"]
    /\ life' = [life EXCEPT ![i] = caller]
    /\ UNCHANGED <<slot, device, attached, rc>>

\* The destructor of an object that is not attached.
DestroyUnattached(i) ==
    /\ life[i] = "live" /\ at[i] = "idle" /\ ~attached[i]
    /\ life' = [life EXCEPT ![i] = "gone"]
    /\ rc' = [rc EXCEPT ![i] = "ok"]
    /\ UNCHANGED <<slot, device, attached, at>>

\* bpf_tc_query returns -ENOENT or -ENODEV.
QueryFindsNothing(i) ==
    /\ at[i] = "query" /\ slot = Empty
    /\ GiveUp(i) /\ Return(i, "ok")
    /\ UNCHANGED <<slot, device>>

\* It finds another program: -ESTALE.
QueryFindsOther(i) ==
    /\ at[i] = "query" /\ slot \notin {i, Empty}
    /\ GiveUp(i) /\ Return(i, "stale")
    /\ UNCHANGED <<slot, device>>

QueryFindsOwn(i) ==
    /\ at[i] = "query" /\ slot = i
    /\ at' = [at EXCEPT ![i] = "detach"]
    /\ UNCHANGED <<slot, device, attached, life, rc>>

\* Fault: any error counts as -ENOENT.
KernelFailsForgotten(i) ==
    /\ at[i] \in {"query", "detach"}
    /\ GiveUp(i) /\ Return(i, "error")
    /\ UNCHANGED <<slot, device>>

\* bpf_tc_query or bpf_tc_detach fails otherwise: the error is returned and
\* the object still counts as attached.
KernelFails(i) ==
    /\ at[i] \in {"query", "detach"}
    /\ Return(i, "error")
    /\ UNCHANGED <<slot, device, attached>>

\* bpf_tc_detach deletes the filter at the identity, whoever owns it; none
\* there (-ENOENT, -ENODEV) is success too.
KernelDetach(i) ==
    /\ at[i] = "detach"
    /\ slot' = Empty
    /\ GiveUp(i) /\ Return(i, "ok")
    /\ UNCHANGED device

-----------------------------------------------------------------------------
(* Everybody else                                                          *)

\* Another tool deletes the filter, replaces it or installs its own.
OutsideDelete ==
    /\ slot # Empty /\ slot' = Empty
    /\ UNCHANGED <<device, attached, at, life, rc>>
OutsideReplace ==
    /\ device /\ slot' = Foreign
    /\ UNCHANGED <<device, attached, at, life, rc>>

\* The interface is removed and its filters with it.
DeviceGone ==
    /\ device
    /\ device' = FALSE /\ slot' = Empty
    /\ UNCHANGED <<attached, at, life, rc>>

\* Objects that are all gone do nothing more.
AllGone == (\A i \in Objects : life[i] = "gone") /\ UNCHANGED vars

Next ==
    \/ \E i \in Objects :
          \/ Attach(i) \/ AttachThrows(i)
          \/ \E caller \in {"live", "dying"} : CallDetach(i, caller)
          \/ DestroyUnattached(i)
          \/ QueryFindsNothing(i) \/ QueryFindsOther(i) \/ QueryFindsOwn(i)
          \/ KernelFails(i) \/ KernelDetach(i)
    \/ OutsideDelete \/ OutsideReplace \/ DeviceGone
    \/ AllGone

Spec == Init /\ [][Next]_vars

-----------------------------------------------------------------------------
(* Properties                                                              *)

\* An object's program is in the kernel only while the object knows it:
\* attached_ is given up only when the program is really gone, so a Detach
\* that failed can be tried again and Attach never sees its own leftovers.
OwnershipKnown == \A i \in Objects : slot = i => attached[i]

\* A program that outlives its object was reported by the destructor.
LeakReported ==
    \A i \in Objects : life[i] = "gone" /\ slot = i => rc[i] = "error"

\* "Do not delete the new owner's program." (inc/TcAttachment.hpp:65): the
\* filter that Detach is about to delete is the object's own.
DeletesOwnOnly == \A i \in Objects : at[i] = "detach" => slot \in {i, Empty}
=============================================================================
