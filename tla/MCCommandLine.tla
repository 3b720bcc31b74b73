---------------------------- MODULE MCCommandLine ----------------------------
(* Model checking of CommandLine: every argument list of bounded length over *)
(* the flags, an interface, an unknown argument and routes, with a selection *)
(* of configuration files.                                                   *)
EXTENDS CommandLine, TLC

\* Routes: each separator, a missing end, two separators of one kind and of
\* two kinds, and both ends the same.
Routes ==
    {<<"a", ":", "b">>, <<"a", "->", "b">>, <<"a", ",", "b">>, <<"a", ":">>,
     <<"a", ":", "b", "->", "a">>, <<"a", ",", "b", ":", "b">>,
     <<"a", ":", "b", ":", "b">>, <<"a", ":", "a">>}
Words == PlainFlags \cup ValueFlags \cup Routes \cup {<<"a">>}

ArgLists(n) == UNION {[1 .. k -> Words] : k \in 0 .. n}
MCArgv == ArgLists(MaxArgs)

RoutedFile == "routing.ingress_iface" :> <<"a">> @@ "routing.egress_iface" :> <<"b">>
\* As the repository's elephantshrew.json.
ShippedFile == "routing.enabled" :> FALSE @@ RoutedFile
MCFiles ==
    {Unreadable, "redis.host" :> BadValue, "redis.port" :> <<>>,
     "redis.max_pending_writes" :> 0, "supervisor.restart_delay_ms" :> -1,
     "supervisor.poll_interval_ms" :> 200,
     "capture.interfaces" :> <<<<"b">>>> @@ "capture.record_packets" :> TRUE,
     "capture.ifaces" :> <<<<"a">>>> @@ "capture.interfaces" :> <<<<"b">>>>,
     RoutedFile, ShippedFile, "routing.from_interface" :> <<"b">> @@ RoutedFile,
     "routing.enabled" :> TRUE, "routing.ingress_iface" :> <<"a">>,
     "routing.bidirectional" :> TRUE @@ RoutedFile}

=============================================================================
