-------------------------- MODULE TelemetryRecord --------------------------
(***************************************************************************)
(* The record es_observe publishes for a frame (bpf/elephantshrew_tc.bpf.c *)
(* with struct es_event) and the test user space applies to what it takes  *)
(* from the ring buffer (inc/TelemetryTypes.hpp, DecodeEvent).             *)
(***************************************************************************)
EXTENDS PacketParser

ES_SNAPSHOT_MAX == 128

\* The settings the program is loaded with.
Settings == [classify : BOOLEAN, flow_enabled : BOOLEAN, select_l4_proto : {"any", "tcp", "udp"},
             snapshot_bytes : Nat]

\* The status and tuple es_observe works with.  loaded: the copy of the
\* frame's beginning succeeded.
Classified(f, o, loaded) ==
    IF ~(o.classify \/ o.flow_enabled \/ o.select_l4_proto # "any")
      THEN [status |-> "SKIPPED", tuple |-> NoTuple]
    ELSE IF f.len > 0 /\ loaded THEN es_parse(f, f.len)
    ELSE [status |-> "TRUNCATED", tuple |-> NoTuple]

\* Whether the packet counts for sampling.
IsSelected(o, parsed) ==
    o.select_l4_proto # "any" =>
        parsed.status = "OK" /\ parsed.tuple.l4_proto = o.select_l4_proto

Wanted(f, o) == Min({o.snapshot_bytes, ES_SNAPSHOT_MAX, f.len})

\* Fault: the length of the snapshot is stored before it is copied.
SnapshotStoredFirst(f, o, copied) ==
    LET want == Wanted(f, o)
    IN  [captured_len |-> want,
         flags |-> (IF want > 0 /\ copied /\ want < f.len THEN {"PREFIX_TRUNCATED"} ELSE {})
                     \cup (IF want > 0 /\ ~copied THEN {"COPY_FAILED"} ELSE {})]

\* The snapshot.  copied: bpf_skb_load_bytes succeeds.
Snapshot(f, o, copied) ==
    LET want == Wanted(f, o)
    IN  [captured_len |-> IF copied THEN want ELSE 0,
         flags |-> (IF want > 0 /\ copied /\ want < f.len THEN {"PREFIX_TRUNCATED"} ELSE {})
                     \cup (IF want > 0 /\ ~copied THEN {"COPY_FAILED"} ELSE {})]

\* The record; fields that are the same in every record are left out (version,
\* size, hook, link type), and a TC program's interface and direction are
\* never invalid.
EventOf(f, o, parsed, copied) ==
    LET snapshot == Snapshot(f, o, copied)
    IN  [original_len |-> f.len,
         parse_status |-> parsed.status,
         tuple |-> parsed.tuple,
         captured_len |-> snapshot.captured_len,
         flags |-> snapshot.flags \cup (IF f.stripped THEN {"VLAN_STRIPPED"} ELSE {})]

\* The consumer's test of the fields above.
DecodeEvent(e) ==
    /\ e.parse_status \in {"OK", "TRUNCATED", "UNSUPPORTED", "MALFORMED", "FRAGMENT", "SKIPPED"}
    /\ e.captured_len <= ES_SNAPSHOT_MAX /\ e.captured_len <= e.original_len
    /\ e.tuple.vlan_count <= 2
    /\ e.flags \subseteq {"PREFIX_TRUNCATED", "COPY_FAILED", "VLAN_STRIPPED"}
    /\ e.tuple.flags \subseteq {"L2_VALID", "ADDR_VALID", "PORTS_VALID", "FRAGMENT"}
    /\ "COPY_FAILED" \in e.flags => e.captured_len = 0
    /\ "PORTS_VALID" \in e.tuple.flags =>
          /\ "ADDR_VALID" \in e.tuple.flags /\ "FRAGMENT" \notin e.tuple.flags
          /\ e.tuple.l4_proto \in {"tcp", "udp"}
=============================================================================
