----------------------------- MODULE CommandLine -----------------------------
(***************************************************************************)
(* From argv to the configuration the capture service runs with            *)
(* (src/ElephantShrewMain.cpp: ParseArguments, LoadEffectiveConfig, main). *)
(* Each argument is a text in the sense of RuntimeConfig, so that a route  *)
(* such as eth0:eth1 is <<"eth0", ":", "eth1">>.                           *)
(***************************************************************************)
EXTENDS RuntimeConfig

CONSTANTS
    MaxArgs,    \* bound on the number of arguments
    Argv,       \* argument lists to start from
    Files       \* contents the file named by -c may have

\* Arguments are texts, and a number in a file is an integer (nlohmann::json
\* would truncate a fraction, and read an integer from 2^64 on as one).
ASSUME CommandLineAssumption ==
    /\ MaxArgs \in Nat
    /\ Argv \subseteq Seq(Text)
    /\ \A f \in Files \ {Unreadable} : \A field \in Counts : \A k \in DOMAIN Keys[field] :
          Keys[field][k] \in DOMAIN f =>
              f[Keys[field][k]] = BadValue \/ f[Keys[field][k]] \in Int

VARIABLES
    argv,       \* the arguments still to parse
    options,    \* CliOptions
    file,       \* what -c names
    config,     \* the effective RuntimeConfig
    phase       \* where main is: parse, load, scan, service, usage or failed

vars == <<argv, options, file, config, phase>>

NoOptions ==
    [config_path |-> FALSE, ifaces |-> <<>>, route_spec |-> <<>>, routed |-> FALSE,
     record_packets |-> FALSE, debug_packets |-> FALSE,
     bidirectional_route |-> FALSE, scan_only |-> FALSE]

Init ==
    /\ argv \in Argv
    /\ options = NoOptions
    /\ file = Unreadable
    /\ config = Defaults
    /\ phase = "parse"

-----------------------------------------------------------------------------
(* ParseRouteSpec                                                          *)

\* Where the spec is split: at the first ->, else the first :, else the first
\* comma; 0 if there is none.
Separators == <<"->", ":", ",">>
Occurs(spec, sep) == {i \in DOMAIN spec : spec[i] = sep}
First(S) == CHOOSE i \in S : \A j \in S : i <= j

SplitAt(spec) ==
    LET usable == {s \in DOMAIN Separators : Occurs(spec, Separators[s]) # {}}
    IN  IF usable = {} THEN 0 ELSE First(Occurs(spec, Separators[First(usable)]))

Ingress(spec) == SubSeq(spec, 1, SplitAt(spec) - 1)
Egress(spec) == SubSeq(spec, SplitAt(spec) + 1, Len(spec))
ParseRouteSpec(spec) ==
    SplitAt(spec) # 0 /\ Ingress(spec) # <<>> /\ Egress(spec) # <<>>

-----------------------------------------------------------------------------
(* ParseArguments, one argument at a time                                  *)

ValueFlags == {<<"-c">>, <<"-i">>, <<"--route">>}
PlainFlags == {<<"--bidirectional">>, <<"-s">>, <<"-r">>, <<"-d">>}

WithFlag(o, flag) ==
    CASE flag = <<"--bidirectional">> -> [o EXCEPT !.bidirectional_route = TRUE]
      [] flag = <<"-s">> -> [o EXCEPT !.scan_only = TRUE]
      [] flag = <<"-r">> -> [o EXCEPT !.record_packets = TRUE]
      [] flag = <<"-d">> -> [o EXCEPT !.debug_packets = TRUE]

\* The argument after a value flag is its value, whatever it looks like.
WithValue(o, flag, v) ==
    CASE flag = <<"-c">> -> [o EXCEPT !.config_path = TRUE]
      [] flag = <<"-i">> -> [o EXCEPT !.ifaces = Append(@, v)]
      [] flag = <<"--route">> -> [o EXCEPT !.routed = TRUE, !.route_spec = v]

ParsePlainFlag ==
    /\ phase = "parse" /\ argv # <<>> /\ argv[1] \in PlainFlags
    /\ options' = WithFlag(options, argv[1])
    /\ argv' = Tail(argv)
    /\ UNCHANGED <<file, config, phase>>

ParseValueFlag ==
    /\ phase = "parse" /\ Len(argv) > 1 /\ argv[1] \in ValueFlags
    /\ options' = WithValue(options, argv[1], argv[2])
    /\ argv' = Tail(Tail(argv))
    /\ IF argv[1] = <<"-c">> THEN file' \in Files ELSE UNCHANGED file
    /\ UNCHANGED <<config, phase>>

\* A value flag at the end, or an argument that is none of the flags.
ParseError ==
    /\ phase = "parse" /\ argv # <<>>
    /\ argv[1] \notin PlainFlags
    /\ argv[1] \in ValueFlags => Len(argv) = 1
    /\ phase' = "usage"
    /\ UNCHANGED <<argv, options, file, config>>

\* The combinations ParseArguments accepts.
CaptureFlagsGiven(o) ==
    o.ifaces # <<>> \/ o.routed \/ o.record_packets \/ o.debug_packets \/ o.bidirectional_route
Compatible(o) ==
    /\ ~ (o.scan_only /\ CaptureFlagsGiven(o))
    /\ ~ (o.routed /\ o.ifaces # <<>>)
    /\ o.bidirectional_route => o.routed

EndParse ==
    /\ phase = "parse" /\ argv = <<>>
    /\ phase' = IF Compatible(options) THEN "load" ELSE "usage"
    /\ UNCHANGED <<argv, options, file, config>>

-----------------------------------------------------------------------------
(* LoadEffectiveConfig                                                     *)

BaseConfig == IF options.config_path THEN LoadRuntimeConfigFromJson(file) ELSE Defaults

\* The command line over the file.
Merged(base) ==
    LET o == options
        flags == [base EXCEPT
                    !.ifaces = IF o.ifaces # <<>> THEN o.ifaces ELSE @,
                    !.record_packets = @ \/ o.record_packets,
                    !.debug_packets = @ \/ o.debug_packets]
        routed == [flags EXCEPT
                    !.enabled = TRUE,
                    !.ingress_iface = Ingress(o.route_spec),
                    !.egress_iface = Egress(o.route_spec),
                    !.ifaces = <<>>]
    IN  [IF o.routed THEN routed ELSE flags EXCEPT
            !.bidirectional = @ \/ o.bidirectional_route]

\* Fault: -i is not checked against the routing of the file.
LoadFailsLess ==
    \/ BaseConfig = Invalid
    \/ options.routed /\ ~ParseRouteSpec(options.route_spec)

\* What LoadEffectiveConfig throws for.
LoadFails ==
    \/ BaseConfig = Invalid
    \/ options.routed /\ ~ParseRouteSpec(options.route_spec)
    \/ BaseConfig # Invalid /\ Merged(BaseConfig).enabled /\ options.ifaces # <<>>

LoadEffectiveConfig ==
    /\ phase = "load" /\ ~LoadFails
    /\ config' = Merged(BaseConfig)
    /\ phase' = IF options.scan_only THEN "scan" ELSE "service"
    /\ UNCHANGED <<argv, options, file>>

RejectConfig ==
    /\ phase = "load" /\ LoadFails
    /\ phase' = "failed"
    /\ UNCHANGED <<argv, options, file, config>>

\* main has returned, or RunCaptureService goes on (CaptureService).
Finished == phase \notin {"parse", "load"} /\ UNCHANGED vars

Next ==
    \/ ParsePlainFlag \/ ParseValueFlag \/ ParseError \/ EndParse
    \/ LoadEffectiveConfig \/ RejectConfig
    \/ Finished

Spec == Init /\ [][Next]_vars

-----------------------------------------------------------------------------
(* Properties                                                              *)

Running == phase = "service"

\* The file turns routing on: it says so, or it names an interface.
FileRoutes ==
    /\ options.config_path /\ file # Unreadable
    /\ \/ ReadField(file, "enabled")
       \/ ReadField(file, "ingress_iface") # <<>>
       \/ ReadField(file, "egress_iface") # <<>>

\* The separator that splits a route: -> before :, and : before a comma.
RouteSeparator(spec) ==
    IF Occurs(spec, "->") # {} THEN "->" ELSE IF Occurs(spec, ":") # {} THEN ":" ELSE ","

\* A configuration that starts the service passes the checks the constructor
\* of RedisPacketStore makes: what they refuse is refused before the supervisor
\* begins to retry.  A route has two ends, and only --route can name one
\* interface as both: the loader's rule that they differ (RuntimeConfig.cpp:113)
\* is not applied to the command line.  Nothing is said of the sign of a
\* duration, see DelaysPositive.
ServiceConfigUsable ==
    Running => /\ RedisOptionsPresent(config) /\ CountsPositive(config)
               /\ config.enabled =>
                     /\ config.ingress_iface # <<>> /\ config.egress_iface # <<>>
                     /\ config.ingress_iface = config.egress_iface => options.routed

\* "value must be greater than 0" (RuntimeConfig.cpp:42): the delays and
\* timeouts the service runs with are positive.  A negative number in the file,
\* or one of 2^63 and more, is not 0 as an unsigned count, and as a duration it
\* is negative.
DelaysPositive ==
    Running => \A delay \in Counts \ {"max_pending_writes"} : Milliseconds(config[delay]) > 0

\* Who says which interfaces are used.  -i names exactly the captured ones and
\* --route exactly the routed ones; without --route the file decides on
\* routing, and naming an interface there overrides its enabled = false.  A
\* route is split at the first -> it has, without one at the first colon, and
\* without a colon at the first comma.  -i never runs over a file that routes,
\* and is refused for no other reason than that or a file that is not valid.
CommandLineWins ==
    /\ Running =>
          /\ options.ifaces # <<>> => config.ifaces = options.ifaces /\ ~config.enabled
          /\ options.routed =>
                LET sep == RouteSeparator(options.route_spec)
                IN  /\ config.enabled /\ config.ifaces = <<>>
                    /\ options.route_spec = config.ingress_iface \o <<sep>> \o config.egress_iface
                    /\ Occurs(config.ingress_iface, sep) = {}
          /\ ~options.routed => (config.enabled <=> FileRoutes)
    /\ phase = "failed" /\ options.ifaces # <<>> => BaseConfig = Invalid \/ FileRoutes
=============================================================================
