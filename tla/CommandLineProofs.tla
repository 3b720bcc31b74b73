-------------------------- MODULE CommandLineProofs --------------------------
(***************************************************************************)
(* Proofs about CommandLine and RuntimeConfig: for every argument list and *)
(* every configuration file, a configuration that starts the service is    *)
(* usable and says what the command line says; and, for files without      *)
(* numbers out of range, its delays are positive.                          *)
(***************************************************************************)
EXTENDS CommandLine, SequenceTheorems, WellFoundedInduction, TLAPS

Options ==
    [config_path : BOOLEAN, ifaces : Seq(Text), route_spec : Text, routed : BOOLEAN,
     record_packets : BOOLEAN, debug_packets : BOOLEAN,
     bidirectional_route : BOOLEAN, scan_only : BOOLEAN]

\* The inductive invariant.  Options are accepted before they are merged, and
\* what the service runs with is the merger of the options and the file as
\* they stand, which LoadEffectiveConfig has not refused.
Loaded ==
    /\ argv \in Seq(Text)
    /\ options \in Options
    /\ file \in Files \cup {Unreadable}
    /\ phase \in {"load", "service", "failed"} => Compatible(options)
    /\ phase = "service" => ~LoadFails /\ config = Merged(BaseConfig)
    /\ phase = "failed" => LoadFails

\* It holds before the first argument.
LEMMA LoadedInit == Init => Loaded
<1> SUFFICES ASSUME Init PROVE Loaded
  OBVIOUS
<1>1. argv \in Seq(Text)
  BY CommandLineAssumption DEF Init
<1>2. NoOptions \in Options
  <2>1. <<>> \in Seq(Text) /\ <<>> \in Text
    BY DEF Text
  <2> QED
    BY <2>1 DEF NoOptions, Options
<1> QED
  BY <1>1, <1>2 DEF Init, Loaded

\* A flag changes one option.
LEMMA FlagTyped ==
  ASSUME NEW o \in Options, NEW flag \in PlainFlags
  PROVE  WithFlag(o, flag) \in Options
<1>1. CASE flag = <<"--bidirectional">>
  BY <1>1 DEF WithFlag, Options
<1>2. CASE flag = <<"-s">>
  BY <1>2 DEF WithFlag, Options
<1>3. CASE flag = <<"-r">>
  BY <1>3 DEF WithFlag, Options
<1>4. CASE flag = <<"-d">>
  BY <1>4 DEF WithFlag, Options
<1> QED
  BY <1>1, <1>2, <1>3, <1>4 DEF PlainFlags

\* So does a flag with a value.
LEMMA ValueTyped ==
  ASSUME NEW o \in Options, NEW flag \in ValueFlags, NEW v \in Text
  PROVE  WithValue(o, flag, v) \in Options
<1>1. CASE flag = <<"-c">>
  BY <1>1 DEF WithValue, Options
<1>2. CASE flag = <<"-i">>
  <2>1. o.ifaces \in Seq(Text)
    BY DEF Options
  <2>2. Append(o.ifaces, v) \in Seq(Text)
    BY <2>1, AppendProperties
  <2>3. PICK l \in Seq(Text) : l = Append(o.ifaces, v)
    BY <2>2, Zenon
  <2> QED
    BY <1>2, <2>3 DEF WithValue, Options
<1>3. CASE flag = <<"--route">>
  BY <1>3 DEF WithValue, Options
<1> QED
  BY <1>1, <1>2, <1>3 DEF ValueFlags

\* Every step keeps the invariant.
LEMMA LoadedNext == Loaded /\ [Next]_vars => Loaded'
<1> SUFFICES ASSUME Loaded, [Next]_vars PROVE Loaded'
  OBVIOUS
<1>0. argv \in Seq(Text) /\ options \in Options /\ file \in Files \cup {Unreadable}
  BY DEF Loaded
<1>1. CASE ParsePlainFlag
  <2>1. argv' \in Seq(Text)
    BY <1>0, <1>1, HeadTailProperties DEF ParsePlainFlag
  <2>2. options' \in Options
    BY <1>0, <1>1, FlagTyped DEF ParsePlainFlag
  <2> QED
    BY <1>0, <1>1, <2>1, <2>2 DEF ParsePlainFlag, Loaded
<1>2. CASE ParseValueFlag
  <2>1. Len(argv) > 1 /\ argv[2] \in Text /\ argv' \in Seq(Text)
    <3>1. Len(argv) > 1 /\ argv' = Tail(Tail(argv))
      BY <1>2 DEF ParseValueFlag
    <3>2. PICK rest : rest = Tail(argv)
      OBVIOUS
    <3>3. rest \in Seq(Text) /\ Len(rest) = Len(argv) - 1 /\ Len(argv) \in Nat
      BY <1>0, <3>1, <3>2, HeadTailProperties
    <3>4. rest # <<>>
      BY <3>1, <3>3
    <3>5. argv' \in Seq(Text)
      BY <3>1, <3>2, <3>3, <3>4, HeadTailProperties
    <3>6. argv[2] \in Text
      BY <1>0, <3>1, <3>3, ElementOfSeq
    <3> QED
      BY <3>1, <3>5, <3>6
  <2>2. options' \in Options
    BY <1>0, <1>2, <2>1, ValueTyped DEF ParseValueFlag
  <2>3. file' \in Files \cup {Unreadable} /\ phase' = "parse"
    BY <1>0, <1>2 DEF ParseValueFlag
  <2> QED
    BY <2>1, <2>2, <2>3 DEF Loaded
<1>3. CASE ParseError
  BY <1>0, <1>3 DEF ParseError, Loaded
<1>4. CASE EndParse
  BY <1>0, <1>4 DEF EndParse, Loaded
<1>5. CASE LoadEffectiveConfig
  <2>1. LoadFails' = LoadFails /\ Merged(BaseConfig)' = Merged(BaseConfig)
    BY <1>5 DEF LoadEffectiveConfig, LoadFails, Merged, BaseConfig
  <2>2. Compatible(options)
    BY <1>5 DEF LoadEffectiveConfig, Loaded
  <2> QED
    BY <1>0, <1>5, <2>1, <2>2 DEF LoadEffectiveConfig, Loaded
<1>6. CASE RejectConfig
  <2>1. LoadFails' = LoadFails
    BY <1>6 DEF RejectConfig, LoadFails, Merged, BaseConfig
  <2>2. Compatible(options)
    BY <1>6 DEF RejectConfig, Loaded
  <2> QED
    BY <1>0, <1>6, <2>1, <2>2 DEF RejectConfig, Loaded
<1>7. CASE UNCHANGED vars
  <2>1. LoadFails' = LoadFails /\ Merged(BaseConfig)' = Merged(BaseConfig)
    BY <1>7 DEF vars, LoadFails, Merged, BaseConfig
  <2> QED
    BY <1>7, <2>1 DEF vars, Loaded
<1> QED
  BY <1>1, <1>2, <1>3, <1>4, <1>5, <1>6, <1>7 DEF Next, Finished

-----------------------------------------------------------------------------
(* Routes                                                                  *)

\* A set of positions has a first one.
LEMMA FirstIs ==
  ASSUME NEW S, S \subseteq Nat, S # {}
  PROVE  First(S) \in S /\ \A j \in S : First(S) <= j
<1>1. \E x \in S : \A y \in S : ~(<<y, x>> \in OpToRel(<, Nat))
  BY NatLessThanWellFounded, WFMin, Zenon
<1>2. \A x, y \in Nat : <<y, x>> \in OpToRel(<, Nat) <=> y < x
  BY DEF OpToRel
<1>3. \A x, y \in S : ~(<<y, x>> \in OpToRel(<, Nat)) => x <= y
  <2>1. \A x, y \in Nat : ~(y < x) => x <= y
    OBVIOUS
  <2> QED
    BY <1>2, <2>1, Zenon
<1>4. \E x \in S : \A y \in S : x <= y
  BY <1>1, <1>3, Zenon
<1> QED
  BY <1>4 DEF First

\* A text with a separator is split into what is before and behind it.
LEMMA Split ==
  ASSUME NEW spec \in Text, NEW i \in 1 .. Len(spec)
  PROVE  /\ SubSeq(spec, 1, i - 1) \in Text /\ SubSeq(spec, i + 1, Len(spec)) \in Text
         /\ spec = SubSeq(spec, 1, i - 1) \o <<spec[i]>> \o SubSeq(spec, i + 1, Len(spec))
         /\ Len(SubSeq(spec, 1, i - 1)) = i - 1
         /\ \A j \in 1 .. i - 1 : SubSeq(spec, 1, i - 1)[j] = spec[j]
<1>1. spec \in Seq(STRING) /\ Len(spec) \in Nat /\ i - 1 \in Int /\ i + 1 \in Int
  BY DEF Text
<1>2. \A j \in 1 .. Len(spec) : spec[j] \in STRING
  BY <1>1, ElementOfSeq
<1>3. /\ SubSeq(spec, 1, i - 1) \in Seq(STRING) /\ Len(SubSeq(spec, 1, i - 1)) = i - 1
      /\ \A j \in 1 .. i - 1 : SubSeq(spec, 1, i - 1)[j] = spec[j]
  <2>1. \A j \in 1 .. i - 1 : spec[j] \in STRING
    BY <1>1, <1>2
  <2> QED
    BY <1>1, <2>1, SubSeqProperties
<1>4. SubSeq(spec, i + 1, Len(spec)) \in Seq(STRING)
  <2>1. \A j \in i + 1 .. Len(spec) : spec[j] \in STRING
    BY <1>1, <1>2
  <2> QED
    BY <1>1, <2>1, SubSeqProperties
<1>5. SubSeq(spec, 1, i) = SubSeq(spec, 1, i - 1) \o <<spec[i]>>
  <2>1. 1 \in 1 .. Len(spec) /\ i \in 1 .. Len(spec)
    BY <1>1
  <2> QED
    BY <1>1, <2>1, SubSeqRecursiveSecond
<1>6. SubSeq(spec, 1, i) \o SubSeq(spec, i + 1, Len(spec)) = SubSeq(spec, 1, Len(spec))
  <2>1. 1 \in 1 .. Len(spec) + 1 /\ i \in 1 - 1 .. Len(spec) /\ Len(spec) \in i .. Len(spec)
    BY <1>1
  <2> QED
    BY <1>1, <2>1, ConcatAdjacentSubSeq
<1>7. SubSeq(spec, 1, Len(spec)) = spec
  BY <1>1, SubSeqFull
<1> QED
  BY <1>3, <1>4, <1>5, <1>6, <1>7 DEF Text

\* A route is split at the first of its separators that has precedence.
LEMMA SplitAtIs ==
  ASSUME NEW spec \in Text, SplitAt(spec) # 0
  PROVE  /\ SplitAt(spec) \in 1 .. Len(spec)
         /\ spec[SplitAt(spec)] = RouteSeparator(spec)
         /\ \A j \in 1 .. SplitAt(spec) - 1 : spec[j] # RouteSeparator(spec)
<1> DEFINE usable == {s \in DOMAIN Separators : Occurs(spec, Separators[s]) # {}}
           best == First(usable)
           at == First(Occurs(spec, Separators[best]))
<1>1. DOMAIN spec = 1 .. Len(spec) /\ Len(spec) \in Nat
  BY LenProperties DEF Text
<1>2. /\ DOMAIN Separators = {1, 2, 3}
      /\ Separators[1] = "->" /\ Separators[2] = ":" /\ Separators[3] = ","
  BY DEF Separators
<1>3. usable # {} /\ SplitAt(spec) = at
  BY DEF SplitAt
<1>4. best \in usable /\ \A s \in usable : best <= s
  <2>1. \A s \in usable : s \in {1, 2, 3}
    BY <1>2, Zenon
  <2>2. usable \subseteq Nat
    <3> HIDE DEF usable
    <3> QED
      BY <2>1
  <2> QED
    BY <1>3, <2>2, FirstIs
<1>5. best \in {1, 2, 3} /\ Occurs(spec, Separators[best]) # {}
  BY <1>2, <1>4
<1>6. Separators[best] = RouteSeparator(spec)
  <2>1. /\ 1 \in usable <=> Occurs(spec, "->") # {}
        /\ 2 \in usable <=> Occurs(spec, ":") # {}
    BY <1>2
  <2>2. /\ 1 \in usable => best = 1
        /\ 2 \in usable => best \in {1, 2}
    <3> HIDE DEF usable, best
    <3> QED
      BY <1>4, <1>5
  <2>3. best = 1 => 1 \in usable
    BY <1>4
  <2>4. best = 2 => 2 \in usable
    BY <1>4
  <2> HIDE DEF usable, best
  <2> QED
    BY <1>2, <1>5, <2>1, <2>2, <2>3, <2>4 DEF RouteSeparator
<1> HIDE DEF best, usable
<1>7. at \in Occurs(spec, Separators[best]) /\ \A j \in Occurs(spec, Separators[best]) : at <= j
  <2>1. Occurs(spec, Separators[best]) \subseteq Nat
    BY <1>1 DEF Occurs
  <2> QED
    BY <1>5, <2>1, FirstIs
<1> HIDE DEF at
<1>8. at \in 1 .. Len(spec) /\ spec[at] = Separators[best]
  BY <1>1, <1>7 DEF Occurs
<1>9. ASSUME NEW j \in 1 .. at - 1 PROVE spec[j] # Separators[best]
  <2> SUFFICES ASSUME spec[j] = Separators[best] PROVE FALSE
    OBVIOUS
  <2>1. j \in 1 .. Len(spec) /\ ~(at <= j)
    BY <1>1, <1>8
  <2>2. j \in Occurs(spec, Separators[best])
    BY <1>1, <2>1 DEF Occurs
  <2> QED
    BY <1>7, <2>1, <2>2
<1> QED
  BY <1>3, <1>6, <1>8, <1>9

\* What a route that ParseRouteSpec accepts says.
LEMMA RouteSays ==
  ASSUME NEW spec \in Text, ParseRouteSpec(spec)
  PROVE  /\ Ingress(spec) # <<>> /\ Egress(spec) # <<>>
         /\ spec = Ingress(spec) \o <<RouteSeparator(spec)>> \o Egress(spec)
         /\ Occurs(Ingress(spec), RouteSeparator(spec)) = {}
<1>1. SplitAt(spec) # 0 /\ Ingress(spec) # <<>> /\ Egress(spec) # <<>>
  BY DEF ParseRouteSpec
<1>2. PICK i : i = SplitAt(spec)
  OBVIOUS
<1>3. /\ i \in 1 .. Len(spec) /\ spec[i] = RouteSeparator(spec)
      /\ \A j \in 1 .. i - 1 : spec[j] # RouteSeparator(spec)
  BY <1>1, <1>2, SplitAtIs
<1>4. Ingress(spec) = SubSeq(spec, 1, i - 1) /\ Egress(spec) = SubSeq(spec, i + 1, Len(spec))
  BY <1>2 DEF Ingress, Egress
<1>5. /\ Ingress(spec) \in Text /\ Len(Ingress(spec)) = i - 1
      /\ spec = Ingress(spec) \o <<spec[i]>> \o Egress(spec)
      /\ \A j \in 1 .. i - 1 : Ingress(spec)[j] = spec[j]
  BY <1>3, <1>4, Split
<1>6. DOMAIN Ingress(spec) = 1 .. i - 1
  BY <1>5, LenProperties DEF Text
<1>7. Occurs(Ingress(spec), RouteSeparator(spec)) = {}
  BY <1>3, <1>5, <1>6 DEF Occurs
<1> QED
  BY <1>1, <1>3, <1>5, <1>7

-----------------------------------------------------------------------------
(* The configuration                                                       *)

Fields ==
    {"ifaces", "record_packets", "debug_packets", "enabled", "ingress_iface", "egress_iface",
     "bidirectional", "host", "port", "stream_key", "show_startup_art"} \cup Counts

\* The fields of a configuration.
LEMMA FieldsAre == DOMAIN Defaults = Fields
BY DEF Defaults, Fields, Counts

\* What the command line makes of a configuration.
LEMMA MergedFacts ==
  ASSUME NEW base, DOMAIN base = Fields
  PROVE  /\ \A field \in Counts \cup {"host", "port", "stream_key"} : Merged(base)[field] = base[field]
         /\ options.routed => /\ Merged(base).enabled = TRUE /\ Merged(base).ifaces = <<>>
                              /\ Merged(base).ingress_iface = Ingress(options.route_spec)
                              /\ Merged(base).egress_iface = Egress(options.route_spec)
         /\ ~options.routed => /\ Merged(base).enabled = base.enabled
                               /\ Merged(base).ingress_iface = base.ingress_iface
                               /\ Merged(base).egress_iface = base.egress_iface
                               /\ options.ifaces # <<>> => Merged(base).ifaces = options.ifaces
<1> DEFINE o == options
           flags == [base EXCEPT
                       !.ifaces = IF o.ifaces # <<>> THEN o.ifaces ELSE @,
                       !.record_packets = @ \/ o.record_packets,
                       !.debug_packets = @ \/ o.debug_packets]
           routed == [flags EXCEPT
                       !.enabled = TRUE,
                       !.ingress_iface = Ingress(o.route_spec),
                       !.egress_iface = Egress(o.route_spec),
                       !.ifaces = <<>>]
           both == IF o.routed THEN routed ELSE flags
<1>1. Merged(base) = [both EXCEPT !.bidirectional = @ \/ o.bidirectional_route]
  BY DEF Merged
<1>2. /\ DOMAIN flags = Fields
      /\ flags["ifaces"] = IF o.ifaces # <<>> THEN o.ifaces ELSE base["ifaces"]
      /\ \A x \in Fields \ {"ifaces", "record_packets", "debug_packets"} : flags[x] = base[x]
  BY DEF Fields
<1> HIDE DEF flags
<1>3. /\ DOMAIN routed = Fields
      /\ routed["enabled"] = TRUE /\ routed["ifaces"] = <<>>
      /\ routed["ingress_iface"] = Ingress(o.route_spec)
      /\ routed["egress_iface"] = Egress(o.route_spec)
      /\ \A x \in Fields \ {"enabled", "ifaces", "ingress_iface", "egress_iface"} : routed[x] = flags[x]
  BY <1>2 DEF Fields
<1> HIDE DEF routed
<1>4. DOMAIN both = Fields
  BY <1>2, <1>3
<1>5. \A x \in Fields \ {"bidirectional"} : Merged(base)[x] = both[x]
  <2> HIDE DEF both
  <2> QED
    BY <1>1, <1>4 DEF Fields
<1>6. \A field \in Counts \cup {"host", "port", "stream_key"} : Merged(base)[field] = base[field]
  BY <1>2, <1>3, <1>5 DEF Fields, Counts
<1>7. CASE options.routed
  BY <1>3, <1>5, <1>6, <1>7 DEF Fields
<1>8. CASE ~options.routed
  BY <1>2, <1>5, <1>6, <1>8 DEF Fields
<1> QED
  BY <1>7, <1>8

\* A count that a signed integer can hold is the duration it says; modulo
\* 2^64 it is itself.
LEMMA Duration ==
  ASSUME NEW v \in Int
  PROVE  /\ v \in 0 .. (Modulus \div 2) - 1 /\ v % Modulus # 0 => Milliseconds(v % Modulus) > 0
         /\ v \in 1 .. 4 => Milliseconds(v) > 0
<1>1. Modulus \in Nat /\ Modulus > 8
  BY ConfigAssumption
<1>2. Modulus \div 2 \in Nat /\ Modulus \div 2 >= 4 /\ Modulus \div 2 < Modulus
  BY <1>1
<1>3. (Modulus \div 2) * 2 = Modulus
  BY ConfigAssumption
<1>4. Modulus \div 2 > 4
  BY <1>1, <1>2, <1>3
<1>5. ASSUME v \in 0 .. (Modulus \div 2) - 1 PROVE v % Modulus = v
  BY <1>1, <1>2, <1>5
<1>6. ASSUME v \in 0 .. (Modulus \div 2) - 1, v % Modulus # 0 PROVE Milliseconds(v % Modulus) > 0
  <2>1. v < Modulus \div 2 /\ v > 0
    BY <1>2, <1>5, <1>6
  <2> QED
    BY <1>5, <1>6, <2>1 DEF Milliseconds
<1>7. ASSUME v \in 1 .. 4 PROVE Milliseconds(v) > 0
  BY <1>2, <1>4, <1>7 DEF Milliseconds
<1> QED
  BY <1>6, <1>7

\* The keys of the counts and their defaults.
LEMMA CountKeys ==
  ASSUME NEW field \in Counts
  PROVE  DOMAIN Keys[field] = {1} /\ Defaults[field] \in 1 .. 4
BY DEF Counts, Keys, Defaults

\* A count as ReadValue leaves it.
LEMMA CountRead ==
  ASSUME NEW f, NEW field \in Counts
  PROVE  ReadField(f, field) = IF Keys[field][1] \in DOMAIN f THEN f[Keys[field][1]] % Modulus
                                                              ELSE Defaults[field]
<1> DEFINE present == {k \in DOMAIN Keys[field] : Keys[field][k] \in DOMAIN f}
           last == CHOOSE k \in present : \A j \in present : j <= k
<1>1. ReadField(f, field) = IF present = {} THEN Defaults[field]
                            ELSE Converted(field, f[Keys[field][last]])
  BY DEF ReadField
<1>2. DOMAIN Keys[field] = {1}
  BY CountKeys
<1>3. CASE Keys[field][1] \notin DOMAIN f
  BY <1>1, <1>2, <1>3
<1>4. CASE Keys[field][1] \in DOMAIN f
  <2>1. present = {1}
    BY <1>2, <1>4
  <2>2. last \in present
    <3> HIDE DEF present
    <3>1. \E k \in present : \A j \in present : j <= k
      BY <2>1
    <3> QED
      BY <3>1
  <2> HIDE DEF present, last
  <2>3. present # {} /\ last = 1
    BY <2>1, <2>2
  <2> QED
    BY <1>1, <1>4, <2>3 DEF Converted
<1> QED
  BY <1>3, <1>4

\* What LoadEffectiveConfig starts from, unless it throws.
LEMMA BaseFacts ==
  ASSUME file \in Files \cup {Unreadable}, BaseConfig # Invalid
  PROVE  /\ DOMAIN BaseConfig = Fields
         /\ RedisOptionsPresent(BaseConfig) /\ CountsPositive(BaseConfig)
         /\ RoutingValid(BaseConfig)
         /\ BaseConfig.enabled <=> FileRoutes
         /\ options.config_path => /\ file \in Files \ {Unreadable}
                                   /\ \A key \in DOMAIN file : file[key] # BadValue
                                   /\ BaseConfig = ReadConfig(file)
<1>1. CASE ~options.config_path
  <2>1. BaseConfig = Defaults
    BY <1>1 DEF BaseConfig
  <2>2. RedisOptionsPresent(Defaults) /\ ~Defaults.enabled
    BY DEF Defaults, RedisOptionsPresent
  <2>3. CountsPositive(Defaults)
    BY CountKeys DEF CountsPositive
  <2> QED
    BY <1>1, <2>1, <2>2, <2>3, FieldsAre DEF RoutingValid, FileRoutes
<1>2. CASE options.config_path
  <2>1. BaseConfig = LoadRuntimeConfigFromJson(file)
    BY <1>2 DEF BaseConfig
  <2>2. /\ file # Unreadable /\ (\A key \in DOMAIN file : file[key] # BadValue)
        /\ BaseConfig = ReadConfig(file)
        /\ RedisOptionsPresent(BaseConfig) /\ RoutingValid(BaseConfig) /\ CountsPositive(BaseConfig)
    <3> DEFINE c == ReadConfig(file)
    <3> HIDE DEF c
    <3>1. BaseConfig = IF file = Unreadable \/ \E key \in DOMAIN file : file[key] = BadValue THEN Invalid
                       ELSE IF RedisOptionsPresent(c) /\ RoutingValid(c) /\ CountsPositive(c) THEN c
                       ELSE Invalid
      BY <2>1 DEF LoadRuntimeConfigFromJson, c
    <3> QED
      BY <3>1 DEF c
  <2>3. DOMAIN BaseConfig = Fields
    BY <2>2, FieldsAre DEF ReadConfig
  <2>4. BaseConfig.enabled <=> FileRoutes
    <3>1. BaseConfig.enabled = (\/ ReadField(file, "enabled")
                                \/ ReadField(file, "ingress_iface") # <<>>
                                \/ ReadField(file, "egress_iface") # <<>>)
      BY <2>2, FieldsAre DEF ReadConfig, Fields
    <3> QED
      BY <1>2, <2>2, <3>1 DEF FileRoutes
  <2> QED
    BY <2>2, <2>3, <2>4
<1> QED
  BY <1>1, <1>2

\* The configuration of a running service, field by field.
LEMMA RunningConfig ==
  ASSUME Loaded, Running
  PROVE  /\ Compatible(options) /\ BaseConfig # Invalid
         /\ file \in Files \cup {Unreadable} /\ options.route_spec \in Text
         /\ options.routed => ParseRouteSpec(options.route_spec)
         /\ ~(config.enabled /\ options.ifaces # <<>>)
         /\ \A field \in Counts \cup {"host", "port", "stream_key"} : config[field] = BaseConfig[field]
         /\ options.routed => /\ config.enabled = TRUE /\ config.ifaces = <<>>
                              /\ config.ingress_iface = Ingress(options.route_spec)
                              /\ config.egress_iface = Egress(options.route_spec)
         /\ ~options.routed => /\ config.enabled = BaseConfig.enabled
                               /\ config.ingress_iface = BaseConfig.ingress_iface
                               /\ config.egress_iface = BaseConfig.egress_iface
                               /\ options.ifaces # <<>> => config.ifaces = options.ifaces
<1>1. /\ ~LoadFails /\ Compatible(options) /\ config = Merged(BaseConfig)
      /\ file \in Files \cup {Unreadable} /\ options.route_spec \in Text
  BY DEF Loaded, Running, Options
<1>2. /\ BaseConfig # Invalid
      /\ options.routed => ParseRouteSpec(options.route_spec)
      /\ ~(config.enabled /\ options.ifaces # <<>>)
  BY <1>1 DEF LoadFails
<1>3. PICK base : base = BaseConfig
  OBVIOUS
<1>4. DOMAIN base = Fields
  BY <1>1, <1>2, <1>3, BaseFacts
<1> QED
  BY <1>1, <1>2, <1>3, <1>4, MergedFacts

\* The checks of the store's constructor pass.
LEMMA LoadedUsable == Loaded => ServiceConfigUsable
<1> SUFFICES ASSUME Loaded, Running PROVE ServiceConfigUsable
  BY DEF ServiceConfigUsable
<1>1. PICK base : base = BaseConfig
  OBVIOUS
<1>2. RedisOptionsPresent(base) /\ CountsPositive(base) /\ RoutingValid(base)
  BY <1>1, RunningConfig, BaseFacts
<1>3. RedisOptionsPresent(config) /\ CountsPositive(config)
  BY <1>1, <1>2, RunningConfig DEF RedisOptionsPresent, CountsPositive
<1>4. CASE options.routed
  <2>1. config.ingress_iface # <<>> /\ config.egress_iface # <<>>
    BY <1>4, RunningConfig, RouteSays
  <2> QED
    BY <1>3, <1>4, <2>1 DEF ServiceConfigUsable
<1>5. CASE ~options.routed
  <2>1. config.enabled => /\ config.ingress_iface # <<>> /\ config.egress_iface # <<>>
                          /\ config.ingress_iface # config.egress_iface
    BY <1>1, <1>2, <1>5, RunningConfig DEF RoutingValid
  <2> QED
    BY <1>3, <2>1 DEF ServiceConfigUsable
<1> QED
  BY <1>4, <1>5

\* The command line decides, or is refused.
LEMMA LoadedObeys == Loaded => CommandLineWins
<1> SUFFICES ASSUME Loaded PROVE CommandLineWins
  OBVIOUS
<1>1. ASSUME Running, options.routed
      PROVE  /\ config.enabled /\ config.ifaces = <<>> /\ options.ifaces = <<>>
             /\ options.route_spec =
                    config.ingress_iface \o <<RouteSeparator(options.route_spec)>> \o config.egress_iface
             /\ Occurs(config.ingress_iface, RouteSeparator(options.route_spec)) = {}
  BY <1>1, RunningConfig, RouteSays DEF Compatible
<1>2. ASSUME Running, ~options.routed
      PROVE  /\ options.ifaces # <<>> => config.ifaces = options.ifaces /\ ~config.enabled
             /\ config.enabled <=> FileRoutes
  BY <1>2, RunningConfig, BaseFacts
<1>3. ASSUME phase = "failed", options.ifaces # <<>>, BaseConfig # Invalid PROVE FileRoutes
  <2>1. /\ LoadFails /\ Compatible(options) /\ file \in Files \cup {Unreadable}
    BY <1>3 DEF Loaded
  <2>2. ~options.routed
    BY <1>3, <2>1 DEF Compatible
  <2>3. Merged(BaseConfig).enabled
    BY <1>3, <2>1, <2>2 DEF LoadFails
  <2>4. PICK base : base = BaseConfig
    OBVIOUS
  <2>5. DOMAIN base = Fields /\ (base.enabled <=> FileRoutes)
    BY <1>3, <2>1, <2>4, BaseFacts
  <2>6. Merged(base).enabled = base.enabled
    BY <2>2, <2>5, MergedFacts
  <2> QED
    BY <2>3, <2>4, <2>5, <2>6
<1> QED
  BY <1>1, <1>2, <1>3 DEF CommandLineWins

\* The numbers in the files are what a signed count can hold.
NumbersInRange ==
    \A f \in Files \ {Unreadable} : \A field \in Counts : \A k \in DOMAIN Keys[field] :
        Keys[field][k] \in DOMAIN f =>
            f[Keys[field][k]] = BadValue \/ f[Keys[field][k]] \in 0 .. (Modulus \div 2) - 1

\* Then a delay that is not zero is positive.
LEMMA LoadedDelays ==
  ASSUME NumbersInRange
  PROVE  Loaded => DelaysPositive
<1> SUFFICES ASSUME Loaded, Running,
                    NEW delay \in Counts
             PROVE  Milliseconds(config[delay]) > 0
  BY DEF DelaysPositive
<1>1. PICK base : base = BaseConfig
  OBVIOUS
<1>2. config[delay] = base[delay] /\ base[delay] # 0
  BY <1>1, RunningConfig, BaseFacts DEF CountsPositive
<1>3. CASE ~options.config_path
  <2>1. base = Defaults
    BY <1>1, <1>3 DEF BaseConfig
  <2> QED
    BY <1>2, <2>1, CountKeys, Duration
<1>4. CASE options.config_path
  <2>1. /\ file \in Files \ {Unreadable} /\ base = ReadConfig(file)
        /\ \A key \in DOMAIN file : file[key] # BadValue
    BY <1>1, <1>4, RunningConfig, BaseFacts
  <2>2. delay \in Fields /\ delay # "enabled"
    BY DEF Fields, Counts
  <2>3. base[delay] = ReadField(file, delay)
    BY <2>1, <2>2, FieldsAre DEF ReadConfig
  <2>4. CASE Keys[delay][1] \notin DOMAIN file
    BY <1>2, <2>3, <2>4, CountRead, CountKeys, Duration
  <2>5. CASE Keys[delay][1] \in DOMAIN file
    <3>1. PICK v : v = file[Keys[delay][1]]
      OBVIOUS
    <3>2. 1 \in DOMAIN Keys[delay]
      BY CountKeys
    <3>3. v \in 0 .. (Modulus \div 2) - 1
      BY <2>1, <2>5, <3>1, <3>2 DEF NumbersInRange
    <3>4. Modulus \div 2 \in Int
      BY ConfigAssumption
    <3>5. v \in Int
      BY <3>3, <3>4
    <3>6. base[delay] = v % Modulus
      BY <2>3, <2>5, <3>1, CountRead
    <3> QED
      BY <1>2, <3>3, <3>5, <3>6, Duration
  <2> QED
    BY <2>4, <2>5
<1> QED
  BY <1>3, <1>4

\* ServiceConfigUsable: what LoadEffectiveConfig returns passes the checks of
\* the store's constructor, for every argument list and every file.
THEOREM ServiceStartsUsable == Spec => []ServiceConfigUsable
<1>1. Loaded => ServiceConfigUsable
  BY LoadedUsable
<1> QED
  BY <1>1, LoadedInit, LoadedNext, PTL DEF Spec

\* CommandLineWins: the interfaces that -i and --route name are the ones that
\* LoadEffectiveConfig returns, a route is split where its separators say, and
\* -i is refused exactly over files that route or are not valid, for every
\* argument list and every file.
THEOREM UserIsObeyed == Spec => []CommandLineWins
<1>1. Loaded => CommandLineWins
  BY LoadedObeys
<1> QED
  BY <1>1, LoadedInit, LoadedNext, PTL DEF Spec

\* DelaysPositive, which fails in general, holds when no file has a number
\* that is negative or too large for a signed count: these numbers are the
\* only way past RequirePositive.
THEOREM DelaysPositiveInRange ==
  ASSUME NumbersInRange
  PROVE  Spec => []DelaysPositive
<1>1. Loaded => DelaysPositive
  BY NumbersInRange, LoadedDelays
<1> QED
  BY <1>1, LoadedInit, LoadedNext, PTL DEF Spec
=============================================================================
