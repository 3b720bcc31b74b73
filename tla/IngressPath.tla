---------------------------- MODULE IngressPath ----------------------------
(***************************************************************************)
(* A packet on its way through the ingress programs of an interface: an    *)
(* XDP program (bpf/elephantshrew_xdp.bpf.c, elephantshrew_xsk.bpf.c), the *)
(* observer (elephantshrew_tc.bpf.c) and the active policy                 *)
(* (elephantshrew_active_tc.bpf.c), while the control plane replaces the   *)
(* table of rules.  Each map access of the policy is a step of its own;    *)
(* the other programs share nothing that changes, and no program keeps     *)
(* anything but counters from one packet to the next, so one packet is     *)
(* enough.  Concurrent CPUs and sampling are in TcObserver.                *)
(***************************************************************************)
EXTENDS TelemetryRecord

CONSTANTS
    Frames,     \* the packets that may come
    Setups,     \* programs and settings: [xdp, observer]
    Tables,     \* the rule tables the control plane may install
    NoTable,    \* the value of an active_rules without a table
    Ifindex,    \* the interface the packets arrive on
    MaxSwaps    \* bound: replacements of the table between the lookups

\* A rule as es_policy_shared.h has it; what no table holds is NoRule.
NoRule == [action |-> "none", out_ifindex |-> 0]

ASSUME PathAssumption ==
    /\ Frames \subseteq Frame
    /\ \A s \in Setups : /\ s.xdp \in {"none", "observe", "forward", "socket"}
                        /\ s.observer \in Settings
    /\ NoTable \notin Tables
    /\ \A t \in Tables : /\ DOMAIN t \subseteq {"exact", "default"}
                         /\ \A k \in DOMAIN t : t[k].action # NoRule.action
    /\ MaxSwaps \in Nat

VARIABLES
    setup,
    at,         \* where the packet is
    frame,
    record,     \* the observer's record, in a set of at most one
    active,     \* the table in active_rules
    held,       \* the table the policy looked up for this packet
    keyed,      \* whether it built a key from the packet
    rule,       \* the rule it found
    verdict,    \* what became of the packet
    mirrored,   \* a copy was sent
    counted,    \* the counters it was counted in
    seen,       \* the tables active since the policy took the packet
    swaps

pathVars == <<record, held, keyed, rule, verdict, mirrored, counted>>
vars == <<setup, at, frame, active, seen, swaps, pathVars>>

Init ==
    /\ setup \in Setups
    /\ at = "xdp"
    /\ frame \in Frames
    /\ active \in Tables \cup {NoTable}
    /\ seen = {} /\ swaps = 0
    /\ record = {} /\ held = NoTable /\ keyed = FALSE /\ rule = NoRule
    /\ verdict = "none" /\ mirrored = FALSE /\ counted = {}

\* The packet leaves the path; the step says why, and counts it.
Finish(v, counts) ==
    /\ at' = "done"
    /\ verdict' = v
    /\ counted' = counted \cup counts

\* A new table is built and put into active_rules; packets under way keep the
\* one they have.  Nobody changes a table in place.  Before the policy's first
\* lookup this is the same as another table from the start.
SwapRules(t) ==
    /\ at \in {"exact", "default", "act"} /\ swaps < MaxSwaps
    /\ t # active
    /\ active' = t
    /\ seen' = seen \cup {t} /\ swaps' = swaps + 1
    /\ UNCHANGED <<setup, at, frame, pathVars>>

-----------------------------------------------------------------------------
(* XDP                                                                     *)

Go(next) == at' = next /\ UNCHANGED verdict

\* es_xdp.  target: there is a device in tx_port.
es_xdp(target) ==
    /\ at = "xdp" /\ setup.xdp \in {"observe", "forward"}
    /\ \/ setup.xdp = "observe" /\ Go("observe") /\ counted' = {"XDP_PACKETS"}
       \/ setup.xdp = "forward" /\ frame.len < 14 /\ Finish("DROP", {"XDP_PACKETS"})
       \/ /\ setup.xdp = "forward" /\ frame.len >= 14
          /\ Finish(IF target THEN "REDIRECT" ELSE "DROP", {"XDP_PACKETS", "XDP_REDIRECT_ATTEMPT"})
    /\ UNCHANGED <<setup, frame, active, seen, swaps, record, held, keyed, rule, mirrored>>

\* es_xsk.  target: the packet's queue has a socket.
es_xsk(target) ==
    /\ at = "xdp" /\ setup.xdp = "socket"
    /\ IF target THEN Finish("REDIRECT", {}) ELSE Go("observe") /\ UNCHANGED counted
    /\ UNCHANGED <<setup, frame, active, seen, swaps, record, held, keyed, rule, mirrored>>

NoXdp ==
    /\ at = "xdp" /\ setup.xdp = "none"
    /\ Go("observe")
    /\ UNCHANGED <<setup, frame, active, seen, swaps, record, held, keyed, rule, mirrored, counted>>

-----------------------------------------------------------------------------
(* es_observe.  loaded, copied: what the two calls of bpf_skb_load_bytes   *)
(* return; sampled: the packet is a sample and the ring buffer has room.   *)
es_observe(loaded, copied, sampled) ==
    LET parsed == Classified(frame, setup.observer, loaded)
        published == sampled /\ IsSelected(setup.observer, parsed)
        e == EventOf(frame, setup.observer, parsed, copied)
    IN  /\ at = "observe"
        /\ record' = IF published THEN {e} ELSE {}
        /\ counted' = counted
             \cup (CASE parsed.status = "MALFORMED" -> {"PARSE_MALFORMED"}
                     [] parsed.status \in {"OK", "SKIPPED"} -> {}
                     [] OTHER -> {"PARSE_PARTIAL"})
             \cup (IF published /\ "COPY_FAILED" \in e.flags THEN {"SNAPSHOT_FAILED"} ELSE {})
        /\ Go("policy")
        /\ UNCHANGED <<setup, frame, active, seen, swaps, held, keyed, rule, mirrored>>

-----------------------------------------------------------------------------
(* es_active_ingress                                                       *)

LookupRules ==
    /\ at = "policy"
    /\ held' = active /\ seen' = {active}
    /\ IF active = NoTable THEN Finish("NEXT", {}) ELSE Go("exact") /\ UNCHANGED counted
    /\ record' = {}     \* published; forgotten here to keep the states few
    /\ UNCHANGED <<setup, frame, active, swaps, keyed, rule, mirrored>>

\* The key of the packet's own tuple, if it has one.
LookupExact(loaded) ==
    LET parsed == es_parse(frame, frame.len)
        usable == /\ loaded /\ frame.len > 0
                  /\ parsed.status = "OK" /\ "PORTS_VALID" \in parsed.tuple.flags
    IN  /\ at = "exact"
        /\ keyed' = usable
        /\ IF usable /\ "exact" \in DOMAIN held
             THEN rule' = held["exact"] /\ Go("act")
             ELSE Go("default") /\ UNCHANGED rule
        /\ UNCHANGED <<setup, frame, active, seen, swaps, record, held, mirrored, counted>>

\* Fault: active_rules is looked up again for the default rule.
LookupDefaultAgain ==
    /\ at = "default"
    /\ IF active # NoTable /\ "default" \in DOMAIN active
         THEN rule' = active["default"] /\ Go("act") /\ UNCHANGED counted
         ELSE Finish("NEXT", {}) /\ UNCHANGED rule
    /\ UNCHANGED <<setup, frame, active, seen, swaps, record, held, keyed, mirrored>>

\* The all-zero key.
LookupDefault ==
    /\ at = "default"
    /\ IF "default" \in DOMAIN held
         THEN rule' = held["default"] /\ Go("act") /\ UNCHANGED counted
         ELSE Finish("NEXT", {}) /\ UNCHANGED rule
    /\ UNCHANGED <<setup, frame, active, seen, swaps, record, held, keyed, mirrored>>

BadTarget == rule.out_ifindex \in {0, Ifindex}

Act(cloned) ==
    /\ at = "act"
    /\ \/ /\ rule.action = "NEXT"
          /\ Finish("NEXT", {}) /\ UNCHANGED mirrored
       \/ /\ rule.action = "DROP" \/ (rule.action # "NEXT" /\ BadTarget)
          /\ Finish("DROP", {"POLICY_DROP"}) /\ UNCHANGED mirrored
       \/ /\ rule.action = "MIRROR" /\ ~BadTarget
          /\ Finish("NEXT", {"MIRROR_ATTEMPT"} \cup (IF cloned THEN {} ELSE {"MIRROR_ERROR"}))
          /\ mirrored' = cloned
       \/ /\ rule.action = "REDIRECT" /\ ~BadTarget
          /\ Finish("REDIRECT", {"REDIRECT_ATTEMPT"}) /\ UNCHANGED mirrored
       \/ /\ rule.action \notin {"NEXT", "DROP", "MIRROR", "REDIRECT"} /\ ~BadTarget
          /\ Finish("DROP", {}) /\ UNCHANGED mirrored
    /\ UNCHANGED <<setup, frame, active, seen, swaps, record, held, keyed, rule>>

-----------------------------------------------------------------------------
Finished == at = "done" /\ UNCHANGED vars

Next ==
    \/ \E t \in Tables \cup {NoTable} : SwapRules(t)
    \/ \E b \in BOOLEAN : es_xdp(b) \/ es_xsk(b) \/ LookupExact(b) \/ Act(b)
    \/ \E l, c, s \in BOOLEAN : es_observe(l, c, s)
    \/ NoXdp \/ LookupRules \/ LookupDefault
    \/ Finished

Spec == Init /\ [][Next]_vars

-----------------------------------------------------------------------------
(* Properties                                                              *)

\* The parser is exact.  Seeing fewer bytes of a packet only ever turns its
\* answer into TRUNCATED, with no claim in the tuple that the whole packet
\* would not support; it never turns one answer into another.  And for the
\* whole packet it promises ports exactly when a complete, unfragmented TCP or
\* UDP header lies inside the lengths that the headers around it declare.
ParserExact ==
    at = "xdp" =>
        LET whole == Parse(frame, frame.len)
        IN  /\ \A cap \in 0 .. frame.len :
                  LET cut == Parse(frame, cap)
                  IN  \/ cut = whole
                      \/ /\ cut.status = "TRUNCATED"
                         /\ cut.tuple.flags \subseteq whole.tuple.flags
                         /\ cut.tuple.vlan_count <= whole.tuple.vlan_count
            /\ (whole.status = "OK" /\ "PORTS_VALID" \in whole.tuple.flags) <=> HasPorts(frame)

\* Whatever arrives, whatever the settings, and whichever copy fails: user
\* space accepts every record that the observer publishes, and its
\* decode_errors count only records from elsewhere.
RecordsDecode == \A e \in record : DecodeEvent(e)

\* What a packet with or without a usable tuple should meet in a table.
RuleFor(t, exact) ==
    IF t = NoTable THEN NoRule
    ELSE IF exact /\ "exact" \in DOMAIN t THEN t["exact"]
    ELSE IF "default" \in DOMAIN t THEN t["default"]
    ELSE NoRule

\* Whether a rule allows the fate of the packet.
Allows(r, v, copy) ==
    LET forwards == r.action \in {"MIRROR", "REDIRECT"} /\ r.out_ifindex \notin {0, Ifindex}
    IN  /\ copy => forwards /\ r.action = "MIRROR"
        /\ CASE v = "REDIRECT" -> forwards /\ r.action = "REDIRECT"
             [] v = "NEXT" -> r.action \in {"none", "NEXT"} \/ (forwards /\ r.action = "MIRROR")
             [] v = "DROP" -> r.action \notin {"none", "NEXT"} /\ ~forwards

\* Every packet is judged by one generation of the rules: its fate is the one
\* that a single table prescribes, which was active while the packet was on
\* its way, although tables are replaced between the lookups.
OneGeneration ==
    at = "done" /\ seen # {}
        => \E t \in seen : Allows(RuleFor(t, keyed), verdict, mirrored)
=============================================================================
