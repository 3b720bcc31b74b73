--------------------------- MODULE MCIngressPath ---------------------------
(* Model checking of IngressPath.  The frames are four good ones (IPv4/TCP,  *)
(* IPv4/UDP, IPv6/UDP, ARP) and every frame that differs from one of them in *)
(* at most two fields, with values on both sides of each boundary.           *)
EXTENDS IngressPath, TLC

Good ==
    LET base == [len |-> 54, stripped |-> FALSE, tags |-> 0, type |-> "ip4", valid |-> TRUE,
                 ihl |-> 20, total |-> 40, frag |-> FALSE, exts |-> <<>>, proto |-> "tcp",
                 hlen |-> 20]
    IN  {base,
         [base EXCEPT !.len = 60, !.total = 28, !.proto = "udp", !.hlen = 8],
         [base EXCEPT !.len = 160, !.type = "ip6", !.total = 88, !.proto = "udp", !.hlen = 8],
         [base EXCEPT !.len = 42, !.type = "arp"]}

Extension(kind, units) == [kind |-> kind, units |-> units]
Plain(n) == [i \in 1 .. n |-> Extension("plain", 0)]

\* Values other than the good ones.
Values ==
    [len |-> {0, 13, 17, 33, 41, 61, 62},
     stripped |-> {TRUE},
     tags |-> {1, 2, 3},
     type |-> {"other", "ip6"},
     valid |-> {FALSE},
     ihl |-> {16, 24},
     total |-> {0, 19, 27, 39, 41},
     frag |-> {TRUE},
     exts |-> {Plain(4), Plain(5), <<Extension("auth", 1)>>, <<Extension("plain", 6)>>,
               <<Extension("plain", 20)>>, <<Extension("plain", 0), Extension("fragment", 0)>>},
     proto |-> {"esp", "none", "udp"},
     hlen |-> {7, 19, 21, 9}]

Changed(frames) ==
    UNION {{[f EXCEPT ![field] = v] : v \in Values[field]} : f \in frames, field \in DOMAIN Values}

MCFrames == Good \cup Changed(Good) \cup Changed(Changed(Good))

Observer(classify, select, snapshot) ==
    [classify |-> classify, flow_enabled |-> FALSE, select_l4_proto |-> select,
     snapshot_bytes |-> snapshot]

MCSetups ==
    {[xdp |-> "none", observer |-> Observer(TRUE, "any", 200)],
     [xdp |-> "observe", observer |-> Observer(FALSE, "udp", 40)],
     [xdp |-> "forward", observer |-> Observer(FALSE, "any", 0)],
     [xdp |-> "socket", observer |-> Observer(FALSE, "any", 0)]}

Rule(action, out) == [action |-> action, out_ifindex |-> out]

MCTables ==
    {[exact |-> Rule("REDIRECT", 2), default |-> Rule("DROP", 0)],
     [exact |-> Rule("MIRROR", 2)],
     [default |-> Rule("REDIRECT", 1)],
     [exact |-> Rule("unknown", 2), default |-> Rule("NEXT", 0)]}
=============================================================================
