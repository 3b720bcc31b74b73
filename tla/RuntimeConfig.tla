---------------------------- MODULE RuntimeConfig ----------------------------
(***************************************************************************)
(* Loading the JSON runtime configuration (src/RuntimeConfig.cpp).  A text *)
(* is a sequence of pieces (names and separators), the empty text <<>>.  A *)
(* file is a function from the keys it contains to their values; BadValue  *)
(* stands for a value of another JSON type than the key's.                 *)
(***************************************************************************)
EXTENDS Integers, Sequences

CONSTANTS
    BadValue,       \* a value that get<T>() rejects
    Unreadable,     \* a file that cannot be opened, parsed, or is no object
    Invalid,        \* LoadRuntimeConfigFromJson threw
    Modulus         \* 2^64: the integers of the configuration are unsigned

ASSUME ConfigAssumption == Modulus \in Nat /\ Modulus > 8 /\ Modulus % 2 = 0

Text == Seq(STRING)

\* The defaults of the option structures.
Defaults ==
    [ifaces |-> <<>>, record_packets |-> FALSE, debug_packets |-> FALSE,
     enabled |-> FALSE, ingress_iface |-> <<>>, egress_iface |-> <<>>,
     bidirectional |-> FALSE,
     host |-> <<"host">>, port |-> <<"port">>, stream_key |-> <<"stream">>,
     max_pending_writes |-> 4, connect_timeout_ms |-> 3, drain_timeout_ms |-> 3,
     restart_delay_ms |-> 2, poll_interval_ms |-> 1, show_startup_art |-> TRUE]

\* The keys of each field, in the order they are read: the last one present
\* wins.
Keys ==
    [ifaces |-> <<"capture.interfaces", "capture.ifaces">>,
     record_packets |-> <<"capture.record_packets">>,
     debug_packets |-> <<"capture.debug_packets">>,
     enabled |-> <<"routing.enabled">>,
     ingress_iface |-> <<"routing.ingress_iface", "routing.from_interface">>,
     egress_iface |-> <<"routing.egress_iface", "routing.to_interface">>,
     bidirectional |-> <<"routing.bidirectional">>,
     host |-> <<"redis.host">>, port |-> <<"redis.port">>,
     stream_key |-> <<"redis.stream_key">>,
     max_pending_writes |-> <<"redis.max_pending_writes">>,
     connect_timeout_ms |-> <<"redis.connect_timeout_ms">>,
     drain_timeout_ms |-> <<"redis.drain_timeout_ms">>,
     restart_delay_ms |-> <<"supervisor.restart_delay_ms">>,
     poll_interval_ms |-> <<"supervisor.poll_interval_ms">>,
     show_startup_art |-> <<"ui.show_startup_art">>]

Counts == {"max_pending_writes", "connect_timeout_ms", "drain_timeout_ms",
           "restart_delay_ms", "poll_interval_ms"}

\* get<T>() of an integer: a negative one becomes the unsigned number it is
\* congruent to; nothing is rejected but another type.
Converted(field, v) == IF field \in Counts THEN v % Modulus ELSE v

\* ReadValue for each key of the field in turn.
ReadField(file, field) ==
    LET present == {k \in DOMAIN Keys[field] : Keys[field][k] \in DOMAIN file}
        last == CHOOSE k \in present : \A j \in present : j <= k
    IN  IF present = {} THEN Defaults[field]
        ELSE Converted(field, file[Keys[field][last]])

\* The fields as read, before any check.  Naming an interface turns routing
\* on.
ReadConfig(file) ==
    [field \in DOMAIN Defaults |->
        IF field = "enabled"
          THEN \/ ReadField(file, "enabled")
               \/ ReadField(file, "ingress_iface") # <<>>
               \/ ReadField(file, "egress_iface") # <<>>
          ELSE ReadField(file, field)]

RedisOptionsPresent(c) == c.host # <<>> /\ c.port # <<>> /\ c.stream_key # <<>>

RoutingValid(c) ==
    c.enabled => /\ c.ingress_iface # <<>> /\ c.egress_iface # <<>>
                 /\ c.ingress_iface # c.egress_iface

\* RequirePositive, on every count.
CountsPositive(c) == \A field \in Counts : c[field] # 0

\* Fault: the counts are not checked.
LoadUnchecked(file) ==
    IF \/ file = Unreadable
       \/ \E key \in DOMAIN file : file[key] = BadValue
      THEN Invalid
      ELSE LET c == ReadConfig(file)
           IN  IF RedisOptionsPresent(c) /\ RoutingValid(c) THEN c ELSE Invalid

LoadRuntimeConfigFromJson(file) ==
    IF \/ file = Unreadable
       \/ \E key \in DOMAIN file : file[key] = BadValue
      THEN Invalid
      ELSE LET c == ReadConfig(file)
           IN  IF RedisOptionsPresent(c) /\ RoutingValid(c) /\ CountsPositive(c)
                 THEN c ELSE Invalid

\* std::chrono::milliseconds(count): the unsigned count as a signed one.
Milliseconds(count) == IF count < Modulus \div 2 THEN count ELSE count - Modulus
=============================================================================
