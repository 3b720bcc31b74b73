---------------------------- MODULE PacketParser ----------------------------
(***************************************************************************)
(* The packet parser (bpf/packet_parser.bpf.h, es_parse) as operators on   *)
(* frames.  A frame is described by what its headers declare, not by its   *)
(* bytes; lengths and offsets are the real ones.  The buffer holds the     *)
(* first cap bytes and zeros behind them, so a field read from beyond cap  *)
(* is 0: the parser must not look there.                                   *)
(***************************************************************************)
EXTENDS Integers, Sequences, FiniteSetsExt

ES_PARSE_BYTES == 128

\* What the headers of a packet declare.
Frame ==
    [len : Nat,             \* length of the packet
     stripped : BOOLEAN,    \* the kernel has taken one VLAN tag out of it
     tags : Nat,            \* VLAN tags in it
     type : {"arp", "ip4", "ip6", "other"},
     valid : BOOLEAN,       \* version 4 or 6; for ARP: Ethernet and IPv4
     ihl : Nat,             \* length of the IPv4 header
     total : Nat,           \* length of the IPv4 packet, or of the IPv6 payload
     frag : BOOLEAN,        \* the IPv4 header says it is a fragment
                            \* IPv6 extension headers; units: the length byte
     exts : Seq([kind : {"plain", "auth", "fragment"}, units : Nat]),
     proto : {"tcp", "udp", "esp", "none"},     \* what comes after these
     hlen : Nat]            \* TCP header or UDP datagram length

es_need(off, n, cap, end) ==
    IF off + n > end THEN "MALFORMED" ELSE IF off + n > cap THEN "TRUNCATED" ELSE "OK"

\* A field whose last byte is number last.
Field(last, cap, value) == IF last < cap THEN value ELSE 0

NoTuple == [flags |-> {}, vlan_count |-> 0, ethertype |-> "none", l4_proto |-> "none"]

-----------------------------------------------------------------------------
(* The parser at work: rc is "GO" until it returns; tag and ext count the  *)
(* VLAN tags and extension headers behind it; t is the tuple so far.       *)

Return(s, rc) == [s EXCEPT !.rc = rc]
Going(s) == s.rc = "GO"

Ethernet(f, cap) ==
    LET rc == es_need(0, 14, cap, f.len)
        s == [rc |-> "GO", off |-> 14, end |-> f.len, tag |-> 0, ext |-> 0, t |-> NoTuple]
    IN  IF rc # "OK" THEN Return(s, rc)
        ELSE [s EXCEPT !.t.flags = {"L2_VALID"}, !.t.vlan_count = IF f.stripped THEN 1 ELSE 0]

\* One round of the loop over VLAN tags.
Vlan(f, cap, s) ==
    LET rc == es_need(s.off, 4, cap, s.end)
    IN  IF ~Going(s) \/ s.tag = f.tags THEN s
        ELSE IF s.t.vlan_count >= 2 THEN Return(s, "UNSUPPORTED")
        ELSE IF rc # "OK" THEN Return(s, rc)
        ELSE [s EXCEPT !.t.vlan_count = @ + 1, !.tag = @ + 1, !.off = @ + 4]

Ethertype(f, s) ==
    IF ~Going(s) THEN s
    ELSE IF s.tag < f.tags THEN Return([s EXCEPT !.t.ethertype = "vlan"], "UNSUPPORTED")
    ELSE [s EXCEPT !.t.ethertype = f.type]

Arp(f, cap, s) ==
    LET rc == es_need(s.off, 28, cap, s.end)
    IN  IF rc # "OK" THEN Return(s, rc)
        ELSE IF ~f.valid THEN Return(s, "UNSUPPORTED")
        ELSE Return([s EXCEPT !.t.flags = @ \cup {"ADDR_VALID"}], "OK")

\* The packet ends where the IPv4 header says, not at the frame's padding.
IPv4(f, cap, s) ==
    LET fixed == es_need(s.off, 20, cap, s.end)
        end == s.off + f.total
        header == es_need(s.off, f.ihl, cap, end)
        found == [s EXCEPT !.end = end, !.off = @ + f.ihl, !.t.l4_proto = f.proto,
                           !.t.flags = @ \cup {"ADDR_VALID"}]
    IN  IF fixed # "OK" THEN Return(s, fixed)
        ELSE IF ~f.valid \/ f.ihl < 20 \/ f.total < f.ihl \/ end > s.end
          THEN Return(s, "MALFORMED")
        ELSE IF header # "OK" THEN Return(s, header)
        ELSE IF f.frag THEN Return([found EXCEPT !.t.flags = @ \cup {"FRAGMENT"}], "FRAGMENT")
        ELSE found

IPv6(f, cap, s) ==
    LET fixed == es_need(s.off, 40, cap, s.end)
    IN  IF fixed # "OK" THEN Return(s, fixed)
        ELSE IF ~f.valid THEN Return(s, "MALFORMED")
        ELSE IF f.total = 0 THEN Return(s, "UNSUPPORTED")
        ELSE IF f.total > s.end - s.off - 40 THEN Return(s, "MALFORMED")
        ELSE [s EXCEPT !.end = s.off + 40 + f.total, !.off = @ + 40,
                       !.t.flags = @ \cup {"ADDR_VALID"}]

ExtLen(x, units) == IF x.kind = "auth" THEN (units + 2) * 4 ELSE (units + 1) * 8

\* A fragment header ends the loop.
FragmentHeader(f, cap, s) ==
    LET rc == es_need(s.off, 8, cap, s.end)
        next == IF s.ext + 1 = Len(f.exts) THEN f.proto ELSE "ext"
    IN  IF rc # "OK" THEN Return(s, rc)
        ELSE Return([s EXCEPT !.t.flags = @ \cup {"FRAGMENT"}, !.t.l4_proto = next], "FRAGMENT")

\* An extension header.
ExtHeader(f, cap, s) ==
    LET x == f.exts[s.ext + 1]
        start == es_need(s.off, 2, cap, s.end)
        ext_len == ExtLen(x, Field(s.off + 1, cap, x.units))
        rc == es_need(s.off, ext_len, cap, s.end)
    IN  IF start # "OK" THEN Return(s, start)
        ELSE IF x.kind = "fragment" THEN FragmentHeader(f, cap, s)
        ELSE IF rc # "OK" THEN Return(s, rc)
        ELSE [s EXCEPT !.ext = @ + 1, !.off = @ + ext_len]

\* One round of the loop over them.
ExtRound(f, cap, s) ==
    IF Going(s) /\ s.ext < Len(f.exts) THEN ExtHeader(f, cap, s) ELSE s

\* Four rounds at most; what follows them is the protocol.
ExtensionsEnd(f, s) ==
    IF ~Going(s) THEN s
    ELSE IF s.ext < Len(f.exts) THEN Return([s EXCEPT !.t.l4_proto = "ext"], "UNSUPPORTED")
    ELSE IF f.proto = "esp" THEN Return([s EXCEPT !.t.l4_proto = "esp"], "UNSUPPORTED")
    ELSE [s EXCEPT !.t.l4_proto = f.proto]

\* Fault: the declared length is read before the header is known to be there.
TransportUnchecked(f, cap, s) ==
    LET size == IF f.proto = "tcp" THEN 20 ELSE 8
        hlen == Field(s.off + (IF f.proto = "tcp" THEN 12 ELSE 5), cap, f.hlen)
    IN  IF ~Going(s) THEN s
        ELSE IF f.proto \notin {"tcp", "udp"} THEN Return(s, "OK")
        ELSE IF hlen < size \/ hlen > s.end - s.off THEN Return(s, "MALFORMED")
        ELSE Return([s EXCEPT !.t.flags = @ \cup {"PORTS_VALID"}], "OK")

Transport(f, cap, s) ==
    LET size == IF f.proto = "tcp" THEN 20 ELSE 8
        rc == es_need(s.off, size, cap, s.end)
        hlen == Field(s.off + (IF f.proto = "tcp" THEN 12 ELSE 5), cap, f.hlen)
    IN  IF ~Going(s) THEN s
        ELSE IF f.proto \notin {"tcp", "udp"} THEN Return(s, "OK")
        ELSE IF rc # "OK" THEN Return(s, rc)
        ELSE IF hlen < size \/ hlen > s.end - s.off THEN Return(s, "MALFORMED")
        ELSE Return([s EXCEPT !.t.flags = @ \cup {"PORTS_VALID"}], "OK")

-----------------------------------------------------------------------------
Extensions(f, cap, s) ==
    LET round(r) == ExtRound(f, cap, r)
    IN  ExtensionsEnd(f, round(round(round(round(s)))))

Network(f, cap, s) ==
    CASE ~Going(s) -> s
      [] f.type = "arp" /\ Going(s) -> Arp(f, cap, s)
      [] f.type = "ip4" /\ Going(s) -> IPv4(f, cap, s)
      [] f.type = "ip6" /\ Going(s) -> Extensions(f, cap, IPv6(f, cap, s))
      [] f.type = "other" /\ Going(s) -> Return(s, "UNSUPPORTED")

\* The status and the tuple that the first cap bytes of f lead to.
Parse(f, cap) ==
    LET tagged == Vlan(f, cap, Vlan(f, cap, Ethernet(f, cap)))
        s == Transport(f, cap, Network(f, cap, Ethertype(f, tagged)))
    IN  [status |-> s.rc, tuple |-> s.t]

es_parse(f, cap) == Parse(f, Min({cap, ES_PARSE_BYTES, f.len}))

-----------------------------------------------------------------------------
(* What a parse should find, from the frame as a whole                     *)

VlanTags(f) == f.tags + (IF f.stripped THEN 1 ELSE 0)
L3Start(f) == 14 + 4 * f.tags

\* Where the transport header of an IPv6 packet begins, behind the four
\* extension headers at most that the parser follows.
ExtBytes(f, i) == IF i <= Len(f.exts) THEN ExtLen(f.exts[i], f.exts[i].units) ELSE 0
L4Start(f) ==
    L3Start(f) + 40 + ExtBytes(f, 1) + ExtBytes(f, 2) + ExtBytes(f, 3) + ExtBytes(f, 4)

Ip4Sound(f) ==
    /\ f.type = "ip4" /\ f.valid /\ ~f.frag
    /\ f.ihl >= 20 /\ f.ihl <= f.total /\ L3Start(f) + f.total <= f.len
Ip6Sound(f) ==
    /\ f.type = "ip6" /\ f.valid /\ f.total > 0
    /\ L3Start(f) + 40 + f.total <= f.len
    /\ Len(f.exts) <= 4
    /\ \A i \in DOMAIN f.exts : f.exts[i].kind # "fragment"

\* A complete TCP or UDP header at offset l4 of a packet that ends at end.
TransportSound(f, l4, end) ==
    /\ f.proto \in {"tcp", "udp"}
    /\ f.hlen >= (IF f.proto = "tcp" THEN 20 ELSE 8)
    /\ l4 + f.hlen <= end

\* The frame has ports that can be relied upon.
HasPorts(f) ==
    /\ VlanTags(f) <= 2
    /\ \/ /\ Ip4Sound(f)
          /\ TransportSound(f, L3Start(f) + f.ihl, L3Start(f) + f.total)
       \/ /\ Ip6Sound(f)
          /\ TransportSound(f, L4Start(f), L3Start(f) + 40 + f.total)
=============================================================================
