-------------------------- MODULE MCCaptureService --------------------------
(* Model checking of CaptureService on a host with two interfaces.          *)
EXTENDS CaptureService

CONSTANTS eth0, eth1, ghost

MCDeviceList == <<eth0, eth1>>

Capture(ifaces, record) ==
    [enabled |-> FALSE, ingress |-> NoDevice, egress |-> NoDevice,
     bidirectional |-> FALSE, ifaces |-> ifaces, record_packets |-> record]

Route(from, to, both, record) ==
    [enabled |-> TRUE, ingress |-> from, egress |-> to,
     bidirectional |-> both, ifaces |-> <<>>, record_packets |-> record]

\* Auto-selection, two interfaces, one interface twice by an empty name and
\* by its own, an interface the host does not have, and the kinds of route.
\* At most one thread records in six of them.
MCConfigs ==
    {Capture(<<>>, TRUE), Capture(<<eth0, eth1>>, TRUE),
     Capture(<<eth0, NoDevice>>, TRUE), Capture(<<eth1, ghost>>, TRUE),
     Route(eth0, eth1, FALSE, TRUE), Route(eth0, eth1, TRUE, TRUE),
     Route(eth0, eth1, TRUE, FALSE), Route(eth0, eth0, TRUE, TRUE)}

OneRoute == {Route(eth0, eth1, FALSE, TRUE)}
=============================================================================
