------------------------- MODULE IngressPathProofs -------------------------
(***************************************************************************)
(* Proofs about the ingress path, for every set of frames, set-ups and     *)
(* rule tables, however often the rules are replaced.                      *)
(***************************************************************************)
EXTENDS IngressPath, SequenceTheorems, TLAPS

-----------------------------------------------------------------------------
(* One generation of rules                                                 *)

\* Where the packet is in the policy, and what has been found there.  The
\* table held was active when it was looked up, and what has been decided so
\* far is what that table alone prescribes.
Judged ==
    /\ at \in {"xdp", "observe", "policy", "exact", "default", "act", "done"}
    /\ active \in Tables \cup {NoTable}
    /\ at # "done" => mirrored = FALSE
    /\ at \in {"xdp", "observe", "policy"} => seen = {}
    /\ at \in {"xdp", "observe", "policy", "exact", "default"} => rule = NoRule
    /\ at \in {"exact", "default", "act"} => held \in Tables /\ held \in seen
    /\ at = "default" => ~(keyed /\ "exact" \in DOMAIN held)
    /\ at = "act" => rule = RuleFor(held, keyed) /\ rule.action # NoRule.action
    /\ OneGeneration

\* Nothing is judged before the packet arrives.
LEMMA JudgedInit == Init => Judged
BY DEF Init, Judged, OneGeneration

\* Every step of a packet and every replacement of the rules keeps Judged.
LEMMA JudgedNext == Judged /\ [Next]_vars => Judged'
<1> SUFFICES ASSUME Judged, [Next]_vars PROVE Judged'
  OBVIOUS
<1>1. ASSUME NEW t \in Tables \cup {NoTable}, SwapRules(t) PROVE Judged'
  BY <1>1 DEF Judged, SwapRules, pathVars, OneGeneration
<1>2. ASSUME NEW b \in BOOLEAN, es_xdp(b) \/ es_xsk(b) \/ NoXdp PROVE Judged'
  BY <1>2 DEF Judged, es_xdp, es_xsk, NoXdp, Go, Finish, OneGeneration
<1>3. ASSUME NEW l \in BOOLEAN, NEW c \in BOOLEAN, NEW s \in BOOLEAN, es_observe(l, c, s)
      PROVE  Judged'
  BY <1>3 DEF Judged, es_observe, Go, OneGeneration
<1>4. ASSUME LookupRules PROVE Judged'
  <2>1. CASE active = NoTable
    <3>1. at' = "done" /\ verdict' = "NEXT" /\ seen' = {NoTable} /\ mirrored' = FALSE
      BY <1>4, <2>1 DEF LookupRules, Finish, Judged
    <3>2. Allows(RuleFor(NoTable, keyed'), verdict', mirrored')
      BY <3>1 DEF Allows, RuleFor, NoRule
    <3>3. OneGeneration'
      BY <3>1, <3>2 DEF OneGeneration
    <3> QED
      BY <1>4, <3>1, <3>3 DEF Judged, LookupRules
  <2>2. CASE active # NoTable
    BY <1>4, <2>2 DEF Judged, LookupRules, Go, OneGeneration
  <2> QED
    BY <2>1, <2>2
<1>5. ASSUME NEW b \in BOOLEAN, LookupExact(b) PROVE Judged'
  <2>1. /\ at = "exact" /\ held' = held /\ seen' = seen /\ active' = active
        /\ mirrored' = mirrored /\ held # NoTable /\ held \in Tables /\ held \in seen
    BY <1>5, PathAssumption DEF LookupExact, Judged
  <2>2. CASE at' = "act"
    <3>1. keyed' /\ "exact" \in DOMAIN held /\ rule' = held["exact"]
      BY <1>5, <2>2 DEF LookupExact, Go
    <3>2. rule' = RuleFor(held, keyed)' /\ rule'.action # NoRule.action
      BY <2>1, <3>1, PathAssumption DEF RuleFor
    <3> QED
      BY <2>1, <2>2, <3>2 DEF Judged, OneGeneration
  <2>3. CASE at' # "act"
    <3>1. at' = "default" /\ rule' = rule /\ ~(keyed' /\ "exact" \in DOMAIN held)
      BY <1>5, <2>3 DEF LookupExact, Go
    <3> QED
      BY <2>1, <3>1 DEF Judged, OneGeneration
  <2> QED
    BY <2>2, <2>3
<1>6. ASSUME LookupDefault PROVE Judged'
  <2>1. /\ at = "default" /\ held' = held /\ seen' = seen /\ active' = active
        /\ keyed' = keyed /\ mirrored' = mirrored /\ mirrored = FALSE
        /\ held # NoTable /\ held \in Tables /\ held \in seen
        /\ ~(keyed /\ "exact" \in DOMAIN held)
    BY <1>6, PathAssumption DEF LookupDefault, Judged
  <2>2. CASE "default" \in DOMAIN held
    <3>1. at' = "act" /\ rule' = held["default"]
      BY <1>6, <2>2 DEF LookupDefault, Go
    <3>2. rule' = RuleFor(held, keyed)' /\ rule'.action # NoRule.action
      BY <2>1, <2>2, <3>1, PathAssumption DEF RuleFor
    <3> QED
      BY <2>1, <3>1, <3>2 DEF Judged, OneGeneration
  <2>3. CASE "default" \notin DOMAIN held
    <3>1. at' = "done" /\ verdict' = "NEXT"
      BY <1>6, <2>3 DEF LookupDefault, Finish
    <3>2. RuleFor(held, keyed') = NoRule
      BY <2>1, <2>3 DEF RuleFor
    <3>3. Allows(RuleFor(held, keyed'), verdict', mirrored')
      BY <2>1, <3>1, <3>2 DEF Allows, NoRule
    <3>4. OneGeneration'
      BY <2>1, <3>3 DEF OneGeneration
    <3> QED
      BY <2>1, <3>1, <3>4 DEF Judged
  <2> QED
    BY <2>2, <2>3
<1>7. ASSUME NEW b \in BOOLEAN, Act(b) PROVE Judged'
  <2>1. /\ at = "act" /\ held' = held /\ seen' = seen /\ active' = active /\ keyed' = keyed
        /\ at' = "done" /\ mirrored = FALSE /\ held \in seen
        /\ rule = RuleFor(held, keyed) /\ rule.action # NoRule.action
    BY <1>7 DEF Act, Judged, Finish
  <2>2. Allows(rule, verdict', mirrored')
    BY <1>7, <2>1 DEF Act, Finish, BadTarget, Allows, NoRule
  <2>3. OneGeneration'
    BY <2>1, <2>2 DEF OneGeneration
  <2> QED
    BY <2>1, <2>3 DEF Judged
<1>8. ASSUME UNCHANGED vars PROVE Judged'
  BY <1>8 DEF Judged, vars, pathVars, OneGeneration
<1> QED
  BY <1>1, <1>2, <1>3, <1>4, <1>5, <1>6, <1>7, <1>8 DEF Next, Finished

\* OneGeneration: a packet that the policy has judged met one table's verdict.
THEOREM JudgedByOneGeneration == Spec => []OneGeneration
<1>1. Judged => OneGeneration
  BY DEF Judged
<1> QED
  BY <1>1, JudgedInit, JudgedNext, PTL DEF Spec

-----------------------------------------------------------------------------
(* The parser, stage by stage                                              *)

Flags == {"L2_VALID", "ADDR_VALID", "PORTS_VALID", "FRAGMENT"}
Codes == {"OK", "TRUNCATED", "UNSUPPORTED", "MALFORMED", "FRAGMENT"}
Ethertypes == {"none", "vlan", "arp", "ip4", "ip6", "other"}
Protocols == {"none", "ext", "tcp", "udp", "esp"}
Tuples == [flags : SUBSET Flags, vlan_count : 0 .. 2,
           ethertype : Ethertypes, l4_proto : Protocols]
ParserStates ==
    [rc : Codes \cup {"GO"}, off : Nat, end : Nat, tag : Nat, ext : Nat, t : Tuples]

\* A state before the transport header has been looked at.
Stage(f, s) ==
    /\ s \in ParserStates /\ s.end <= f.len
    /\ "PORTS_VALID" \notin s.t.flags
    /\ Going(s) => "FRAGMENT" \notin s.t.flags

\* What a stage may do to the state: nothing after the parser has returned,
\* and never take back what the tuple says.
Later(s, r) ==
    /\ ~Going(s) => r = s
    /\ s.t.flags \subseteq r.t.flags
    /\ s.t.vlan_count <= r.t.vlan_count

\* What a shorter buffer may do to a stage that begins in state s: a stops
\* where b goes on, with the tuple as it was.
Cut(s, a, b) == a = b \/ (a.rc = "TRUNCATED" /\ a.t = s.t)

\* A length that fits into the packet is found, unless it lies behind the end
\* of the buffer; TRUNCATED is the answer to nothing else.
LEMMA NeedCut ==
  ASSUME NEW off \in Nat, NEW n \in Nat, NEW cap \in Nat, NEW len \in Nat, NEW end \in Nat,
         cap <= len, end <= len
  PROVE  /\ es_need(off, n, cap, end) = "TRUNCATED" \/ es_need(off, n, cap, end) = es_need(off, n, len, end)
         /\ es_need(off, n, len, end) = IF off + n > end THEN "MALFORMED" ELSE "OK"
         /\ es_need(off, n, cap, end) = "OK" => off + n <= cap /\ off + n <= end
         /\ es_need(off, n, cap, end) \in Codes
BY DEF es_need, Codes

\* The state r, field by field.
Is(r, rc, off, end, tag, ext, flags, vlans, proto) ==
    /\ r \in ParserStates
    /\ r.rc = rc /\ r.off = off /\ r.end = end /\ r.tag = tag /\ r.ext = ext
    /\ r.t.flags = flags /\ r.t.vlan_count = vlans /\ r.t.l4_proto = proto

\* The state after recording the Ethernet header.
LEMMA SetLink ==
  ASSUME NEW s \in ParserStates, NEW F \in SUBSET Flags, NEW n \in 0 .. 2
  PROVE  Is([s EXCEPT !.t.flags = F, !.t.vlan_count = n],
            s.rc, s.off, s.end, s.tag, s.ext, F, n, s.t.l4_proto)
BY DEF Is, ParserStates, Tuples

\* The state after recording a VLAN tag.
LEMMA SetVlan ==
  ASSUME NEW s \in ParserStates, NEW n \in 0 .. 2, NEW g \in Nat, NEW o \in Nat
  PROVE  Is([s EXCEPT !.t.vlan_count = n, !.tag = g, !.off = o],
            s.rc, o, s.end, g, s.ext, s.t.flags, n, s.t.l4_proto)
BY DEF Is, ParserStates, Tuples

\* The state after recording the ethertype.
LEMMA SetType ==
  ASSUME NEW s \in ParserStates, NEW y \in Ethertypes
  PROVE  Is([s EXCEPT !.t.ethertype = y],
            s.rc, s.off, s.end, s.tag, s.ext, s.t.flags, s.t.vlan_count, s.t.l4_proto)
BY DEF Is, ParserStates, Tuples

\* The state after recording flags.
LEMMA SetFlags ==
  ASSUME NEW s \in ParserStates, NEW F \in SUBSET Flags
  PROVE  Is([s EXCEPT !.t.flags = F],
            s.rc, s.off, s.end, s.tag, s.ext, F, s.t.vlan_count, s.t.l4_proto)
BY DEF Is, ParserStates, Tuples

\* The state after recording the IPv4 header.
LEMMA SetIPv4 ==
  ASSUME NEW s \in ParserStates, NEW e \in Nat, NEW o \in Nat, NEW p \in Protocols, NEW F \in SUBSET Flags
  PROVE  Is([s EXCEPT !.end = e, !.off = o, !.t.l4_proto = p, !.t.flags = F],
            s.rc, o, e, s.tag, s.ext, F, s.t.vlan_count, p)
BY DEF Is, ParserStates, Tuples

\* The state after recording the IPv6 header.
LEMMA SetIPv6 ==
  ASSUME NEW s \in ParserStates, NEW e \in Nat, NEW o \in Nat, NEW F \in SUBSET Flags
  PROVE  Is([s EXCEPT !.end = e, !.off = o, !.t.flags = F],
            s.rc, o, e, s.tag, s.ext, F, s.t.vlan_count, s.t.l4_proto)
BY DEF Is, ParserStates, Tuples

\* The state after recording a fragment header.
LEMMA SetFragment ==
  ASSUME NEW s \in ParserStates, NEW F \in SUBSET Flags, NEW p \in Protocols
  PROVE  Is([s EXCEPT !.t.flags = F, !.t.l4_proto = p],
            s.rc, s.off, s.end, s.tag, s.ext, F, s.t.vlan_count, p)
BY DEF Is, ParserStates, Tuples

\* The state after recording an extension header.
LEMMA SetExt ==
  ASSUME NEW s \in ParserStates, NEW x \in Nat, NEW o \in Nat
  PROVE  Is([s EXCEPT !.ext = x, !.off = o],
            s.rc, o, s.end, s.tag, x, s.t.flags, s.t.vlan_count, s.t.l4_proto)
BY DEF Is, ParserStates, Tuples

\* The state after recording the protocol.
LEMMA SetProto ==
  ASSUME NEW s \in ParserStates, NEW p \in Protocols
  PROVE  Is([s EXCEPT !.t.l4_proto = p],
            s.rc, s.off, s.end, s.tag, s.ext, s.t.flags, s.t.vlan_count, p)
BY DEF Is, ParserStates, Tuples

\* Returning changes the code only.
LEMMA ReturnFacts ==
  ASSUME NEW s \in ParserStates, NEW rc \in Codes
  PROVE  /\ Return(s, rc) \in ParserStates /\ ~Going(Return(s, rc))
         /\ Return(s, rc).rc = rc /\ Return(s, rc).t = s.t /\ Return(s, rc).end = s.end
BY DEF Return, Going, ParserStates, Codes

\* A stage that returns is one that the rules above allow.
LEMMA ReturnStage ==
  ASSUME NEW f \in Frame, NEW s, Stage(f, s), Going(s), NEW rc \in Codes
  PROVE  Stage(f, Return(s, rc)) /\ Later(s, Return(s, rc))
<1>1. s \in ParserStates /\ s.t.vlan_count \in 0 .. 2
  BY DEF Stage, ParserStates, Tuples
<1> QED
  BY <1>1, ReturnFacts DEF Stage, Later

\* The first stage.
LEMMA EthernetStage ==
  ASSUME NEW f \in Frame, NEW cap \in Nat
  PROVE  /\ Stage(f, Ethernet(f, cap))
         /\ cap <= f.len => \/ Ethernet(f, cap) = Ethernet(f, f.len)
                            \/ Ethernet(f, cap).rc = "TRUNCATED" /\ Ethernet(f, cap).t = NoTuple
<1> DEFINE s == [rc |-> "GO", off |-> 14, end |-> f.len, tag |-> 0, ext |-> 0, t |-> NoTuple]
           good == [s EXCEPT !.t.flags = {"L2_VALID"}, !.t.vlan_count = IF f.stripped THEN 1 ELSE 0]
<1>1. f.len \in Nat /\ f.stripped \in BOOLEAN
  BY DEF Frame
<1>2. s \in ParserStates /\ s.end = f.len /\ s.t = NoTuple /\ s.t.flags = {} /\ Going(s)
  <2>1. NoTuple \in Tuples /\ NoTuple.flags = {}
    BY DEF NoTuple, Tuples, Ethertypes, Protocols
  <2> QED
    BY <1>1, <2>1 DEF ParserStates, Going
<1>3. good \in ParserStates /\ good.end = f.len /\ good.t.flags = {"L2_VALID"}
  <2>1. PICK n \in 0 .. 2 : n = (IF f.stripped THEN 1 ELSE 0)
    BY <1>1
  <2>2. {"L2_VALID"} \in SUBSET Flags
    BY DEF Flags
  <2>3. good = [s EXCEPT !.t.flags = {"L2_VALID"}, !.t.vlan_count = n]
    BY <2>1
  <2> HIDE DEF s, good
  <2>4. Is(good, s.rc, s.off, s.end, s.tag, s.ext, {"L2_VALID"}, n, s.t.l4_proto)
    BY <1>2, <2>2, <2>3, SetLink
  <2> QED
    BY <1>2, <2>4 DEF Is
<1>4. \A c : Ethernet(f, c) = IF es_need(0, 14, c, f.len) # "OK" THEN Return(s, es_need(0, 14, c, f.len))
                                                                ELSE good
  BY DEF Ethernet
<1>5. Stage(f, s) /\ Stage(f, good)
  BY <1>1, <1>2, <1>3 DEF Stage
<1> HIDE DEF s, good
<1>6. Stage(f, Ethernet(f, cap))
  <2>1. es_need(0, 14, cap, f.len) \in Codes
    BY DEF es_need, Codes
  <2> QED
    BY <1>2, <1>4, <1>5, <2>1, ReturnStage
<1>7. ASSUME cap <= f.len
      PROVE  \/ Ethernet(f, cap) = Ethernet(f, f.len)
             \/ Ethernet(f, cap).rc = "TRUNCATED" /\ Ethernet(f, cap).t = NoTuple
  <2>1. \/ es_need(0, 14, cap, f.len) = es_need(0, 14, f.len, f.len)
        \/ es_need(0, 14, cap, f.len) = "TRUNCATED"
    BY <1>1, <1>7, NeedCut
  <2>2. "TRUNCATED" \in Codes
    BY DEF Codes
  <2> QED
    BY <1>2, <1>4, <2>1, <2>2, ReturnFacts
<1> QED
  BY <1>6, <1>7

\* What the proofs below need to know about a frame and a state.
LEMMA Typing ==
  ASSUME NEW f \in Frame, NEW s, Stage(f, s)
  PROVE  /\ s \in ParserStates /\ s.off \in Nat /\ s.end \in Nat /\ s.tag \in Nat /\ s.ext \in Nat
         /\ s.t.flags \in SUBSET Flags /\ s.t.vlan_count \in 0 .. 2 /\ s.t.l4_proto \in Protocols
         /\ s.end <= f.len /\ f.len \in Nat /\ f.tags \in Nat /\ f.ihl \in Nat /\ f.total \in Nat
         /\ f.hlen \in Nat /\ f.proto \in Protocols /\ f.type \in Ethertypes
BY DEF Stage, ParserStates, Tuples, Frame, Ethertypes, Protocols

\* The codes that the stages return.
LEMMA CodeFacts ==
  /\ \A off, n, cap, end : es_need(off, n, cap, end) \in Codes
  /\ {"OK", "TRUNCATED", "UNSUPPORTED", "MALFORMED", "FRAGMENT"} \subseteq Codes /\ "GO" \notin Codes
BY DEF es_need, Codes

\* A stage that does nothing.
LEMMA NoStage ==
  ASSUME NEW f \in Frame, NEW s, Stage(f, s)
  PROVE  Later(s, s) /\ Cut(s, s, s)
BY Typing DEF Later, Cut

\* A VLAN tag is recorded.
LEMMA VlanGoes ==
  ASSUME NEW f \in Frame, NEW s, Stage(f, s), s.t.vlan_count < 2
  PROVE  Is([s EXCEPT !.t.vlan_count = @ + 1, !.tag = @ + 1, !.off = @ + 4],
            s.rc, s.off + 4, s.end, s.tag + 1, s.ext, s.t.flags, s.t.vlan_count + 1, s.t.l4_proto)
<1>1. PICK n \in 0 .. 2, g \in Nat, o \in Nat :
         n = s.t.vlan_count + 1 /\ g = s.tag + 1 /\ o = s.off + 4
  BY Typing
<1>2. Is([s EXCEPT !.t.vlan_count = n, !.tag = g, !.off = o],
         s.rc, o, s.end, g, s.ext, s.t.flags, n, s.t.l4_proto)
  BY Typing, SetVlan
<1> QED
  BY <1>1, <1>2

\* A round of the loop over VLAN tags.
LEMMA VlanStage ==
  ASSUME NEW f \in Frame, NEW cap \in Nat, cap <= f.len, NEW s, Stage(f, s)
  PROVE  /\ Stage(f, Vlan(f, cap, s)) /\ Later(s, Vlan(f, cap, s))
         /\ Cut(s, Vlan(f, cap, s), Vlan(f, f.len, s))
         /\ Going(Vlan(f, cap, s)) =>
              \/ s.tag = f.tags /\ Vlan(f, cap, s) = s
              \/ /\ s.tag # f.tags /\ s.t.vlan_count < 2 /\ s.off + 4 <= s.end
                 /\ Is(Vlan(f, cap, s), "GO", s.off + 4, s.end, s.tag + 1, s.ext, s.t.flags,
                       s.t.vlan_count + 1, s.t.l4_proto)
         /\ Going(s) /\ (s.tag = f.tags \/ (s.t.vlan_count < 2 /\ s.off + 4 <= s.end)) =>
              Going(Vlan(f, f.len, s))
<1> DEFINE go == [s EXCEPT !.t.vlan_count = @ + 1, !.tag = @ + 1, !.off = @ + 4]
           need(c) == es_need(s.off, 4, c, s.end)
<1>1. \A c : Vlan(f, c, s) = IF ~Going(s) \/ s.tag = f.tags THEN s
                             ELSE IF s.t.vlan_count >= 2 THEN Return(s, "UNSUPPORTED")
                             ELSE IF need(c) # "OK" THEN Return(s, need(c))
                             ELSE go
  BY DEF Vlan
<1>2. s.t.vlan_count < 2 =>
        Is(go, s.rc, s.off + 4, s.end, s.tag + 1, s.ext, s.t.flags, s.t.vlan_count + 1, s.t.l4_proto)
  BY VlanGoes
<1> HIDE DEF go
<1>3. s.t.vlan_count < 2 => Stage(f, go) /\ (Going(go) <=> Going(s)) /\ (Going(s) => Later(s, go))
  BY <1>2, Typing DEF Is, Stage, Later, Going
<1>4. /\ need(cap) = need(f.len) \/ need(cap) = "TRUNCATED"
      /\ need(f.len) = IF s.off + 4 > s.end THEN "MALFORMED" ELSE "OK"
      /\ need(cap) = "OK" => s.off + 4 <= s.end
  BY Typing, NeedCut
<1>5. /\ need(cap) \in Codes /\ s.t.vlan_count \in 0 .. 2
      /\ \A rc \in Codes : ~Going(Return(s, rc)) /\ Return(s, rc).rc = rc /\ Return(s, rc).t = s.t
  BY CodeFacts, Typing, ReturnFacts
<1> HIDE DEF need
<1>6. Stage(f, Vlan(f, cap, s)) /\ Later(s, Vlan(f, cap, s))
  BY <1>1, <1>3, <1>5, CodeFacts, NoStage, ReturnStage
<1>7. Cut(s, Vlan(f, cap, s), Vlan(f, f.len, s))
  <2>1. Return(s, "TRUNCATED").rc = "TRUNCATED" /\ Return(s, "TRUNCATED").t = s.t
    BY <1>5, CodeFacts
  <2> QED
    BY <1>1, <1>4, <2>1 DEF Cut
<1>8. ASSUME Going(Vlan(f, cap, s))
      PROVE  \/ s.tag = f.tags /\ Vlan(f, cap, s) = s
             \/ /\ s.tag # f.tags /\ s.t.vlan_count < 2 /\ s.off + 4 <= s.end
                /\ Is(Vlan(f, cap, s), "GO", s.off + 4, s.end, s.tag + 1, s.ext, s.t.flags,
                      s.t.vlan_count + 1, s.t.l4_proto)
  <2>1. Going(s)
    BY <1>6, <1>8 DEF Later
  <2>2. CASE s.tag = f.tags
    BY <1>1, <2>2
  <2>3. CASE s.tag # f.tags
    <3>1. s.t.vlan_count < 2 /\ need(cap) = "OK" /\ Vlan(f, cap, s) = go
      BY <1>1, <1>5, <1>8, <2>1, <2>3, CodeFacts
    <3> QED
      BY <1>2, <1>4, <2>1, <2>3, <3>1 DEF Going
  <2> QED
    BY <2>2, <2>3
<1>9. ASSUME Going(s), s.tag = f.tags \/ (s.t.vlan_count < 2 /\ s.off + 4 <= s.end)
      PROVE  Going(Vlan(f, f.len, s))
  BY <1>1, <1>3, <1>4, <1>9, Typing
<1> QED
  BY <1>6, <1>7, <1>8, <1>9

\* The ethertype behind the tags.
LEMMA EthertypeStage ==
  ASSUME NEW f \in Frame, NEW s, Stage(f, s)
  PROVE  /\ Stage(f, Ethertype(f, s)) /\ Later(s, Ethertype(f, s))
         /\ Going(Ethertype(f, s)) <=> Going(s) /\ s.tag >= f.tags
         /\ Going(Ethertype(f, s)) =>
              Is(Ethertype(f, s), "GO", s.off, s.end, s.tag, s.ext, s.t.flags, s.t.vlan_count,
                 s.t.l4_proto)
<1> DEFINE typed(y) == [s EXCEPT !.t.ethertype = y]
<1>1. Ethertype(f, s) = IF ~Going(s) THEN s
                        ELSE IF s.tag < f.tags THEN Return(typed("vlan"), "UNSUPPORTED")
                        ELSE typed(f.type)
  BY DEF Ethertype
<1>2. \A y \in Ethertypes : Is(typed(y), s.rc, s.off, s.end, s.tag, s.ext, s.t.flags, s.t.vlan_count,
                               s.t.l4_proto)
  BY Typing, SetType
<1> HIDE DEF typed
<1>3. f.type \in Ethertypes /\ "vlan" \in Ethertypes /\ s.tag \in Nat /\ f.tags \in Nat
  BY Typing DEF Ethertypes
<1>4. \A y \in Ethertypes : /\ Stage(f, typed(y)) /\ (Going(typed(y)) <=> Going(s))
                            /\ Going(s) => Later(s, typed(y))
  BY <1>2, Typing DEF Is, Stage, Later, Going
<1>5. CASE ~Going(s)
  BY <1>1, <1>5, NoStage
<1>6. CASE Going(s) /\ s.tag < f.tags
  <2>1. Ethertype(f, s) = Return(typed("vlan"), "UNSUPPORTED")
    BY <1>1, <1>6
  <2>2. /\ Stage(f, typed("vlan")) /\ Going(typed("vlan")) /\ Later(s, typed("vlan"))
        /\ typed("vlan") \in ParserStates /\ "UNSUPPORTED" \in Codes
    BY <1>3, <1>4, <1>6, CodeFacts DEF Stage
  <2>3. /\ Stage(f, Ethertype(f, s)) /\ ~Going(Ethertype(f, s))
        /\ Ethertype(f, s).t = typed("vlan").t
    BY <2>1, <2>2, ReturnStage, ReturnFacts
  <2> QED
    BY <1>3, <1>6, <2>2, <2>3 DEF Later
<1>7. CASE Going(s) /\ ~(s.tag < f.tags)
  <2>1. Ethertype(f, s) = typed(f.type)
    BY <1>1, <1>7
  <2> QED
    BY <1>2, <1>3, <1>4, <1>7, <2>1 DEF Going
<1> QED
  BY <1>5, <1>6, <1>7

\* A header is recorded in the tuple.
LEMMA FlagsGrow ==
  ASSUME NEW f \in Frame, NEW s, Stage(f, s), NEW flag \in {"ADDR_VALID", "FRAGMENT"}
  PROVE  /\ s.t.flags \cup {flag} \in SUBSET Flags
         /\ "PORTS_VALID" \notin s.t.flags \cup {flag}
         /\ Going(s) /\ flag = "ADDR_VALID" => "FRAGMENT" \notin s.t.flags \cup {flag}
BY Typing DEF Stage, Flags

\* ARP: the parser returns.
LEMMA ArpStage ==
  ASSUME NEW f \in Frame, NEW cap \in Nat, cap <= f.len, NEW s, Stage(f, s), Going(s)
  PROVE  /\ Stage(f, Arp(f, cap, s)) /\ Later(s, Arp(f, cap, s))
         /\ Cut(s, Arp(f, cap, s), Arp(f, f.len, s))
         /\ ~Going(Arp(f, cap, s))
<1> DEFINE found == [s EXCEPT !.t.flags = @ \cup {"ADDR_VALID"}]
           need(c) == es_need(s.off, 28, c, s.end)
<1>1. \A c : Arp(f, c, s) = IF need(c) # "OK" THEN Return(s, need(c))
                            ELSE IF ~f.valid THEN Return(s, "UNSUPPORTED")
                            ELSE Return(found, "OK")
  BY DEF Arp
<1>2. Is(found, s.rc, s.off, s.end, s.tag, s.ext, s.t.flags \cup {"ADDR_VALID"}, s.t.vlan_count,
         s.t.l4_proto)
  BY Typing, SetFlags, FlagsGrow
<1> HIDE DEF found
<1>3. Stage(f, found) /\ Going(found) /\ Later(s, found)
  BY <1>2, Typing, FlagsGrow DEF Is, Stage, Later, Going
<1>4. need(cap) = need(f.len) \/ need(cap) = "TRUNCATED"
  BY Typing, NeedCut
<1>5. need(cap) \in Codes
  BY CodeFacts
<1> HIDE DEF need
<1>6. \A rc \in Codes : /\ Stage(f, Return(s, rc)) /\ Later(s, Return(s, rc)) /\ ~Going(Return(s, rc))
                        /\ Return(s, rc).rc = rc /\ Return(s, rc).t = s.t
  BY Typing, ReturnFacts, ReturnStage
<1>7. Stage(f, Return(found, "OK")) /\ Later(s, Return(found, "OK")) /\ ~Going(Return(found, "OK"))
  <2>1. found \in ParserStates /\ "OK" \in Codes
    BY <1>2, CodeFacts DEF Is
  <2>2. Return(found, "OK").t = found.t /\ ~Going(Return(found, "OK")) /\ Stage(f, Return(found, "OK"))
    BY <1>3, <2>1, ReturnFacts, ReturnStage
  <2> QED
    BY <1>3, <2>2 DEF Later
<1>8. Return(s, "TRUNCATED").rc = "TRUNCATED" /\ Return(s, "TRUNCATED").t = s.t
  BY <1>6, CodeFacts
<1>9. Cut(s, Arp(f, cap, s), Arp(f, f.len, s))
  BY <1>1, <1>4, <1>8 DEF Cut
<1> QED
  BY <1>1, <1>5, <1>6, <1>7, <1>9, CodeFacts

\* The packet's IPv4 header; a fragment is recorded as one.
LEMMA IPv4Stage ==
  ASSUME NEW f \in Frame, NEW cap \in Nat, cap <= f.len, NEW s, Stage(f, s), Going(s)
  PROVE  /\ Stage(f, IPv4(f, cap, s)) /\ Later(s, IPv4(f, cap, s))
         /\ Cut(s, IPv4(f, cap, s), IPv4(f, f.len, s))
         /\ Going(IPv4(f, cap, s)) =>
              /\ f.valid /\ f.ihl >= 20 /\ f.total >= f.ihl /\ s.off + f.total <= s.end /\ ~f.frag
              /\ Is(IPv4(f, cap, s), "GO", s.off + f.ihl, s.off + f.total, s.tag, s.ext,
                    s.t.flags \cup {"ADDR_VALID"}, s.t.vlan_count, f.proto)
         /\ f.valid /\ f.ihl >= 20 /\ f.total >= f.ihl /\ s.off + f.total <= s.end /\ ~f.frag =>
              Going(IPv4(f, f.len, s))
<1> DEFINE end == s.off + f.total
           fixed(c) == es_need(s.off, 20, c, s.end)
           header(c) == es_need(s.off, f.ihl, c, end)
           found == [s EXCEPT !.end = end, !.off = @ + f.ihl, !.t.l4_proto = f.proto,
                              !.t.flags = @ \cup {"ADDR_VALID"}]
           part == [found EXCEPT !.t.flags = @ \cup {"FRAGMENT"}]
           bad == ~f.valid \/ f.ihl < 20 \/ f.total < f.ihl \/ end > s.end
<1>1. \A c : IPv4(f, c, s) = IF fixed(c) # "OK" THEN Return(s, fixed(c))
                             ELSE IF bad THEN Return(s, "MALFORMED")
                             ELSE IF header(c) # "OK" THEN Return(s, header(c))
                             ELSE IF f.frag THEN Return(part, "FRAGMENT")
                             ELSE found
  BY DEF IPv4
<1>2. Is(found, s.rc, s.off + f.ihl, s.off + f.total, s.tag, s.ext, s.t.flags \cup {"ADDR_VALID"},
         s.t.vlan_count, f.proto)
  <2>0. /\ s.off + f.total \in Nat /\ s.off + f.ihl \in Nat
        /\ s.t.flags \cup {"ADDR_VALID"} \in SUBSET Flags
    BY Typing, FlagsGrow
  <2>1. PICK e \in Nat, o \in Nat, F \in SUBSET Flags :
           e = s.off + f.total /\ o = s.off + f.ihl /\ F = s.t.flags \cup {"ADDR_VALID"}
    BY <2>0, Zenon
  <2>2. Is([s EXCEPT !.end = e, !.off = o, !.t.l4_proto = f.proto, !.t.flags = F],
           s.rc, o, e, s.tag, s.ext, F, s.t.vlan_count, f.proto)
    BY Typing, SetIPv4
  <2> QED
    BY <2>1, <2>2
<1> HIDE DEF found
<1>3. ASSUME ~bad PROVE Stage(f, found) /\ Going(found) /\ Later(s, found)
  BY <1>2, <1>3, Typing, FlagsGrow DEF Is, Stage, Later, Going
<1>4. ASSUME ~bad PROVE Stage(f, Return(part, "FRAGMENT")) /\ Later(s, Return(part, "FRAGMENT"))
                        /\ ~Going(Return(part, "FRAGMENT"))
  <2>1. Stage(f, found) /\ Going(found) /\ Later(s, found) /\ found \in ParserStates
    BY <1>3, <1>4 DEF Stage
  <2>2. Is(part, found.rc, found.off, found.end, found.tag, found.ext, found.t.flags \cup {"FRAGMENT"},
           found.t.vlan_count, found.t.l4_proto)
    BY <2>1, SetFlags, FlagsGrow
  <2> HIDE DEF part
  <2>3. /\ Return(part, "FRAGMENT") \in ParserStates /\ ~Going(Return(part, "FRAGMENT"))
        /\ Return(part, "FRAGMENT").t = part.t /\ Return(part, "FRAGMENT").end = part.end
    BY <2>2, ReturnFacts, CodeFacts DEF Is
  <2>4. Stage(f, Return(part, "FRAGMENT"))
    BY <2>1, <2>2, <2>3 DEF Is, Stage
  <2>5. Later(s, Return(part, "FRAGMENT"))
    BY <2>1, <2>2, <2>3 DEF Is, Later
  <2> QED
    BY <2>3, <2>4, <2>5
<1>5. /\ fixed(cap) = fixed(f.len) \/ fixed(cap) = "TRUNCATED"
      /\ fixed(f.len) = IF s.off + 20 > s.end THEN "MALFORMED" ELSE "OK"
  BY Typing, NeedCut
<1>6. ASSUME ~bad
      PROVE  /\ header(cap) = header(f.len) \/ header(cap) = "TRUNCATED"
             /\ header(f.len) = "OK" /\ fixed(f.len) = "OK"
  <2>1. /\ end \in Nat /\ end <= f.len /\ s.off \in Nat /\ f.ihl \in Nat /\ f.len \in Nat
        /\ ~(s.off + f.ihl > end) /\ ~(s.off + 20 > s.end)
    BY <1>6, Typing
  <2>2. header(cap) \in {"OK", "TRUNCATED"} /\ header(f.len) = "OK"
    BY <2>1 DEF es_need
  <2> QED
    BY <1>5, <2>1, <2>2
<1>7. fixed(cap) \in Codes /\ header(cap) \in Codes
  BY CodeFacts
<1> HIDE DEF fixed, header, part
<1>8. \A rc \in Codes : /\ Stage(f, Return(s, rc)) /\ Later(s, Return(s, rc)) /\ ~Going(Return(s, rc))
                        /\ Return(s, rc).rc = rc /\ Return(s, rc).t = s.t
  BY Typing, ReturnFacts, ReturnStage
<1>9. Stage(f, IPv4(f, cap, s)) /\ Later(s, IPv4(f, cap, s))
  BY <1>1, <1>3, <1>4, <1>7, <1>8, CodeFacts
<1>10. Cut(s, IPv4(f, cap, s), IPv4(f, f.len, s))
  <2>1. Return(s, "TRUNCATED").rc = "TRUNCATED" /\ Return(s, "TRUNCATED").t = s.t
    BY <1>8, CodeFacts
  <2> QED
    BY <1>1, <1>5, <1>6, <2>1 DEF Cut
<1>11. ASSUME Going(IPv4(f, cap, s)) PROVE ~bad /\ ~f.frag /\ IPv4(f, cap, s) = found
  BY <1>1, <1>4, <1>7, <1>8, <1>11, CodeFacts
<1>12. ~bad <=> f.valid /\ f.ihl >= 20 /\ f.total >= f.ihl /\ s.off + f.total <= s.end
  BY Typing
<1>13. ~bad /\ ~f.frag => Going(IPv4(f, f.len, s))
  BY <1>1, <1>3, <1>6
<1> QED
  BY <1>2, <1>9, <1>10, <1>11, <1>12, <1>13 DEF Going

\* The packet's IPv6 header.
LEMMA IPv6Stage ==
  ASSUME NEW f \in Frame, NEW cap \in Nat, cap <= f.len, NEW s, Stage(f, s), Going(s)
  PROVE  /\ Stage(f, IPv6(f, cap, s)) /\ Later(s, IPv6(f, cap, s))
         /\ Cut(s, IPv6(f, cap, s), IPv6(f, f.len, s))
         /\ Going(IPv6(f, cap, s)) =>
              /\ f.valid /\ f.total > 0 /\ s.off + 40 + f.total <= s.end
              /\ Is(IPv6(f, cap, s), "GO", s.off + 40, s.off + 40 + f.total, s.tag, s.ext,
                    s.t.flags \cup {"ADDR_VALID"}, s.t.vlan_count, s.t.l4_proto)
         /\ f.valid /\ f.total > 0 /\ s.off + 40 + f.total <= s.end => Going(IPv6(f, f.len, s))
<1> DEFINE fixed(c) == es_need(s.off, 40, c, s.end)
           long == f.total > s.end - s.off - 40
           found == [s EXCEPT !.end = s.off + 40 + f.total, !.off = @ + 40,
                              !.t.flags = @ \cup {"ADDR_VALID"}]
<1>1. \A c : IPv6(f, c, s) = IF fixed(c) # "OK" THEN Return(s, fixed(c))
                             ELSE IF ~f.valid THEN Return(s, "MALFORMED")
                             ELSE IF f.total = 0 THEN Return(s, "UNSUPPORTED")
                             ELSE IF long THEN Return(s, "MALFORMED")
                             ELSE found
  BY DEF IPv6
<1>2. Is(found, s.rc, s.off + 40, s.off + 40 + f.total, s.tag, s.ext, s.t.flags \cup {"ADDR_VALID"},
         s.t.vlan_count, s.t.l4_proto)
  <2>1. /\ s.off + 40 + f.total \in Nat /\ s.off + 40 \in Nat
        /\ s.t.flags \cup {"ADDR_VALID"} \in SUBSET Flags
    BY Typing, FlagsGrow
  <2>2. PICK e \in Nat, o \in Nat, F \in SUBSET Flags :
           e = s.off + 40 + f.total /\ o = s.off + 40 /\ F = s.t.flags \cup {"ADDR_VALID"}
    BY <2>1, Zenon
  <2>3. Is([s EXCEPT !.end = e, !.off = o, !.t.flags = F],
           s.rc, o, e, s.tag, s.ext, F, s.t.vlan_count, s.t.l4_proto)
    BY Typing, SetIPv6
  <2> QED
    BY <2>2, <2>3
<1> HIDE DEF found
<1>3. ~long <=> s.off + 40 + f.total <= s.end
  BY Typing
<1>4. ~long => Stage(f, found) /\ Going(found) /\ Later(s, found)
  BY <1>2, <1>3, Typing, FlagsGrow DEF Is, Stage, Later, Going
<1>5. /\ fixed(cap) = fixed(f.len) \/ fixed(cap) = "TRUNCATED"
      /\ fixed(f.len) = IF s.off + 40 > s.end THEN "MALFORMED" ELSE "OK"
  <2>1. s.off \in Nat /\ s.end \in Nat /\ f.len \in Nat /\ s.end <= f.len
    BY Typing
  <2> QED
    BY <2>1 DEF es_need
<1>6. ~long => fixed(f.len) = "OK"
  BY <1>3, <1>5, Typing
<1>7. fixed(cap) \in Codes /\ f.total \in Nat
  BY CodeFacts, Typing
<1> HIDE DEF fixed, long
<1>8. \A rc \in Codes : /\ Stage(f, Return(s, rc)) /\ Later(s, Return(s, rc)) /\ ~Going(Return(s, rc))
                        /\ Return(s, rc).rc = rc /\ Return(s, rc).t = s.t
  BY Typing, ReturnFacts, ReturnStage
<1>9. Stage(f, IPv6(f, cap, s)) /\ Later(s, IPv6(f, cap, s))
  BY <1>1, <1>4, <1>7, <1>8, CodeFacts
<1>10. Cut(s, IPv6(f, cap, s), IPv6(f, f.len, s))
  <2>1. Return(s, "TRUNCATED").rc = "TRUNCATED" /\ Return(s, "TRUNCATED").t = s.t
    BY <1>8, CodeFacts
  <2> QED
    BY <1>1, <1>5, <2>1 DEF Cut
<1>11. ASSUME Going(IPv6(f, cap, s)) PROVE f.valid /\ f.total > 0 /\ ~long /\ IPv6(f, cap, s) = found
  <2>1. f.valid /\ f.total # 0 /\ ~long /\ IPv6(f, cap, s) = found
    BY <1>1, <1>7, <1>8, <1>11, CodeFacts
  <2> QED
    BY <1>7, <2>1
<1>12. f.valid /\ f.total > 0 /\ ~long => Going(IPv6(f, f.len, s))
  BY <1>1, <1>4, <1>6, <1>7
<1> QED
  BY <1>2, <1>3, <1>9, <1>10, <1>11, <1>12 DEF Going

\* The extension headers of a frame.
LEMMA ExtTyping ==
  ASSUME NEW f \in Frame
  PROVE  /\ Len(f.exts) \in Nat
         /\ \A i \in 1 .. Len(f.exts) :
               /\ f.exts[i].kind \in {"plain", "auth", "fragment"} /\ f.exts[i].units \in Nat
               /\ ExtLen(f.exts[i], f.exts[i].units) \in Nat
               /\ ExtLen(f.exts[i], f.exts[i].units) >= 8
<1>1. f.exts \in Seq([kind : {"plain", "auth", "fragment"}, units : Nat])
  BY DEF Frame
<1>2. ASSUME NEW x \in [kind : {"plain", "auth", "fragment"}, units : Nat]
      PROVE  ExtLen(x, x.units) \in Nat /\ ExtLen(x, x.units) >= 8
  BY DEF ExtLen
<1>3. ASSUME NEW i \in 1 .. Len(f.exts)
      PROVE  f.exts[i] \in [kind : {"plain", "auth", "fragment"}, units : Nat]
  BY <1>1, ElementOfSeq
<1> QED
  BY <1>1, <1>2, <1>3

\* A fragment header: the parser returns.
LEMMA FragmentStage ==
  ASSUME NEW f \in Frame, NEW cap \in Nat, cap <= f.len, NEW s, Stage(f, s), Going(s)
  PROVE  /\ Stage(f, FragmentHeader(f, cap, s)) /\ Later(s, FragmentHeader(f, cap, s))
         /\ Cut(s, FragmentHeader(f, cap, s), FragmentHeader(f, f.len, s))
         /\ ~Going(FragmentHeader(f, cap, s))
<1> DEFINE need(c) == es_need(s.off, 8, c, s.end)
           next == IF s.ext + 1 = Len(f.exts) THEN f.proto ELSE "ext"
           part == [s EXCEPT !.t.flags = @ \cup {"FRAGMENT"}, !.t.l4_proto = next]
<1>1. \A c : FragmentHeader(f, c, s) = IF need(c) # "OK" THEN Return(s, need(c))
                                       ELSE Return(part, "FRAGMENT")
  BY DEF FragmentHeader
<1>2. Is(part, s.rc, s.off, s.end, s.tag, s.ext, s.t.flags \cup {"FRAGMENT"}, s.t.vlan_count, next)
  <2>1. next \in Protocols /\ s.t.flags \cup {"FRAGMENT"} \in SUBSET Flags
    BY Typing, FlagsGrow DEF Protocols
  <2> HIDE DEF next
  <2>2. PICK F \in SUBSET Flags : F = s.t.flags \cup {"FRAGMENT"}
    BY <2>1
  <2>3. Is([s EXCEPT !.t.flags = F, !.t.l4_proto = next],
           s.rc, s.off, s.end, s.tag, s.ext, F, s.t.vlan_count, next)
    BY <2>1, Typing, SetFragment
  <2> QED
    BY <2>2, <2>3
<1> HIDE DEF part
<1>3. /\ Stage(f, Return(part, "FRAGMENT")) /\ Later(s, Return(part, "FRAGMENT"))
      /\ ~Going(Return(part, "FRAGMENT"))
  <2>1. /\ Return(part, "FRAGMENT") \in ParserStates /\ ~Going(Return(part, "FRAGMENT"))
        /\ Return(part, "FRAGMENT").t = part.t /\ Return(part, "FRAGMENT").end = part.end
    BY <1>2, ReturnFacts, CodeFacts DEF Is
  <2>2. /\ part.end = s.end /\ part.t.flags = s.t.flags \cup {"FRAGMENT"}
        /\ part.t.vlan_count = s.t.vlan_count
    BY <1>2 DEF Is
  <2>3. s.end <= f.len /\ s.t.vlan_count \in 0 .. 2 /\ "PORTS_VALID" \notin s.t.flags \cup {"FRAGMENT"}
    BY Typing, FlagsGrow
  <2> QED
    BY <2>1, <2>2, <2>3 DEF Stage, Later
<1>4. need(cap) = need(f.len) \/ need(cap) = "TRUNCATED"
  BY Typing, NeedCut
<1>5. need(cap) \in Codes
  BY CodeFacts
<1> HIDE DEF need
<1>6. \A rc \in Codes : /\ Stage(f, Return(s, rc)) /\ Later(s, Return(s, rc)) /\ ~Going(Return(s, rc))
                        /\ Return(s, rc).rc = rc /\ Return(s, rc).t = s.t
  BY Typing, ReturnFacts, ReturnStage
<1>7. Return(s, "TRUNCATED").rc = "TRUNCATED" /\ Return(s, "TRUNCATED").t = s.t
  BY <1>6, CodeFacts
<1>8. Cut(s, FragmentHeader(f, cap, s), FragmentHeader(f, f.len, s))
  BY <1>1, <1>4, <1>7 DEF Cut
<1> QED
  BY <1>1, <1>3, <1>5, <1>6, <1>8

\* An extension header that is there: its length is read only when the buffer
\* holds it.
LEMMA ExtStage ==
  ASSUME NEW f \in Frame, NEW cap \in Nat, cap <= f.len, NEW s, Stage(f, s), Going(s),
         s.ext < Len(f.exts)
  PROVE  /\ Stage(f, ExtHeader(f, cap, s)) /\ Later(s, ExtHeader(f, cap, s))
         /\ Cut(s, ExtHeader(f, cap, s), ExtHeader(f, f.len, s))
         /\ Going(ExtHeader(f, cap, s)) =>
              /\ f.exts[s.ext + 1].kind # "fragment" /\ s.off + ExtBytes(f, s.ext + 1) <= s.end
              /\ Is(ExtHeader(f, cap, s), "GO", s.off + ExtBytes(f, s.ext + 1), s.end, s.tag, s.ext + 1,
                    s.t.flags, s.t.vlan_count, s.t.l4_proto)
         /\ f.exts[s.ext + 1].kind # "fragment" /\ s.off + ExtBytes(f, s.ext + 1) <= s.end =>
              Going(ExtHeader(f, f.len, s))
<1> DEFINE x == f.exts[s.ext + 1]
           start(c) == es_need(s.off, 2, c, s.end)
           size == ExtLen(x, x.units)
           rc(c, u) == es_need(s.off, ExtLen(x, u), c, s.end)
           found(u) == [s EXCEPT !.ext = @ + 1, !.off = @ + ExtLen(x, u)]
<1>1. \A c : ExtHeader(f, c, s) =
               IF start(c) # "OK" THEN Return(s, start(c))
               ELSE IF x.kind = "fragment" THEN FragmentHeader(f, c, s)
               ELSE IF rc(c, Field(s.off + 1, c, x.units)) # "OK"
                 THEN Return(s, rc(c, Field(s.off + 1, c, x.units)))
               ELSE found(Field(s.off + 1, c, x.units))
  BY DEF ExtHeader
<1> HIDE DEF found, start, rc
<1>2. /\ s.ext + 1 \in 1 .. Len(f.exts)
      /\ size \in Nat /\ size >= 8 /\ ExtBytes(f, s.ext + 1) = size
  <2>1. s.ext \in Nat
    BY Typing
  <2>2. s.ext + 1 \in 1 .. Len(f.exts) /\ s.ext + 1 <= Len(f.exts)
    BY <2>1, ExtTyping
  <2>3. size \in Nat /\ size >= 8
    BY <2>2, ExtTyping
  <2> QED
    BY <2>2, <2>3 DEF ExtBytes
<1>3. cap \in Nat /\ s.off \in Nat /\ s.end \in Nat /\ f.len \in Nat /\ s.end <= f.len
  BY Typing
<1>4. ASSUME NEW c \in Nat
      PROVE  ExtHeader(f, c, s) = IF start(c) # "OK" THEN Return(s, start(c))
                                  ELSE IF x.kind = "fragment" THEN FragmentHeader(f, c, s)
                                  ELSE IF rc(c, x.units) # "OK" THEN Return(s, rc(c, x.units))
                                  ELSE found(x.units)
  <2>1. start(c) = "OK" => Field(s.off + 1, c, x.units) = x.units
    BY <1>3 DEF es_need, Field, start
  <2> QED
    BY <1>1, <2>1
<1>5. Is(found(x.units), s.rc, s.off + size, s.end, s.tag, s.ext + 1, s.t.flags, s.t.vlan_count,
         s.t.l4_proto)
  <2>1. s.ext + 1 \in Nat /\ s.off + size \in Nat
    BY <1>2, Typing
  <2>2. PICK e \in Nat, o \in Nat : e = s.ext + 1 /\ o = s.off + size
    BY <2>1, Zenon
  <2>3. Is([s EXCEPT !.ext = e, !.off = o], s.rc, o, s.end, s.tag, e, s.t.flags, s.t.vlan_count,
           s.t.l4_proto)
    BY Typing, SetExt
  <2> QED
    BY <2>2, <2>3 DEF found
<1>6. Stage(f, found(x.units)) /\ Going(found(x.units)) /\ Later(s, found(x.units))
  <2>1. PICK y : y = found(x.units)
    OBVIOUS
  <2>2. /\ y \in ParserStates /\ y.rc = s.rc /\ y.end = s.end /\ y.t.flags = s.t.flags
        /\ y.t.vlan_count = s.t.vlan_count
    BY <1>5, <2>1 DEF Is
  <2>3. s.t.vlan_count \in 0 .. 2
    BY Typing
  <2>4. Stage(f, y) /\ Going(y) /\ Later(s, y)
    BY <2>2, <2>3 DEF Stage, Later, Going
  <2> QED
    BY <2>1, <2>4
<1>7. /\ start(cap) = start(f.len) \/ start(cap) = "TRUNCATED"
      /\ start(f.len) = IF s.off + 2 > s.end THEN "MALFORMED" ELSE "OK"
  BY <1>3 DEF es_need, start
<1>8. /\ rc(cap, x.units) = rc(f.len, x.units) \/ rc(cap, x.units) = "TRUNCATED"
      /\ rc(f.len, x.units) = IF s.off + size > s.end THEN "MALFORMED" ELSE "OK"
      /\ rc(cap, x.units) = "OK" => s.off + size <= s.end
  BY <1>2, <1>3 DEF es_need, rc
<1>9. start(cap) \in Codes /\ rc(cap, x.units) \in Codes
  BY CodeFacts DEF start, rc
<1>10. ~(s.off + size > s.end) => start(f.len) = "OK" /\ rc(f.len, x.units) = "OK"
  BY <1>2, <1>3, <1>7, <1>8
<1> HIDE DEF size, x
<1>11. \A c \in Codes : /\ Stage(f, Return(s, c)) /\ Later(s, Return(s, c)) /\ ~Going(Return(s, c))
                        /\ Return(s, c).rc = c /\ Return(s, c).t = s.t
  BY Typing, ReturnFacts, ReturnStage
<1>12. Stage(f, ExtHeader(f, cap, s)) /\ Later(s, ExtHeader(f, cap, s))
  BY <1>4, <1>6, <1>9, <1>11, FragmentStage
<1>13. Cut(s, ExtHeader(f, cap, s), ExtHeader(f, f.len, s))
  <2>1. Return(s, "TRUNCATED").rc = "TRUNCATED" /\ Return(s, "TRUNCATED").t = s.t
    BY <1>11, CodeFacts
  <2>2. Cut(s, FragmentHeader(f, cap, s), FragmentHeader(f, f.len, s))
    BY FragmentStage
  <2> QED
    BY <1>3, <1>4, <1>7, <1>8, <2>1, <2>2 DEF Cut
<1>14. ASSUME Going(ExtHeader(f, cap, s))
       PROVE  x.kind # "fragment" /\ rc(cap, x.units) = "OK" /\ ExtHeader(f, cap, s) = found(x.units)
  BY <1>4, <1>9, <1>11, <1>14, FragmentStage
<1>15. x.kind # "fragment" /\ ~(s.off + size > s.end) => Going(ExtHeader(f, f.len, s))
  BY <1>3, <1>4, <1>6, <1>10
<1>16. s.off + size <= s.end <=> ~(s.off + size > s.end)
  BY <1>2, <1>3
<1>17. s.rc = "GO"
  BY DEF Going
<1> QED
  BY <1>2, <1>5, <1>8, <1>12, <1>13, <1>14, <1>15, <1>16, <1>17 DEF x

-----------------------------------------------------------------------------
(* The parser as a whole                                                   *)

\* A parse that sees less of the packet says the same as one that sees more,
\* or that the packet is truncated and nothing that the other would deny.
Agree(a, b) ==
    \/ a = b
    \/ /\ a.rc = "TRUNCATED"
       /\ a.t.flags \subseteq b.t.flags /\ a.t.vlan_count <= b.t.vlan_count

\* Stages keep the two parses in agreement.
LEMMA AgreeStep ==
  ASSUME NEW f \in Frame, NEW s, NEW w, NEW r, NEW x, Stage(f, s), Stage(f, w), Stage(f, x),
         Agree(s, w), Later(s, r), Later(w, x), s = w => Cut(s, r, x)
  PROVE  Agree(r, x)
<1>1. s.t.vlan_count \in Nat /\ w.t.vlan_count \in Nat /\ x.t.vlan_count \in Nat
  BY Typing
<1>2. CASE s = w
  BY <1>2 DEF Cut, Agree, Later
<1>3. CASE s # w
  <2>1. s.rc = "TRUNCATED" /\ s.t.flags \subseteq w.t.flags /\ s.t.vlan_count <= w.t.vlan_count
    BY <1>3 DEF Agree
  <2>2. r = s
    BY <2>1 DEF Later, Going
  <2> QED
    BY <1>1, <2>1, <2>2 DEF Later, Agree
<1> QED
  BY <1>2, <1>3

\* What two stages do, one may do.
LEMMA LaterTwice ==
  ASSUME NEW f \in Frame, NEW s, NEW r, NEW x, Stage(f, s), Stage(f, r), Stage(f, x),
         Later(s, r), Later(r, x)
  PROVE  Later(s, x)
<1>1. s.t.vlan_count \in Nat /\ r.t.vlan_count \in Nat /\ x.t.vlan_count \in Nat
  BY Typing
<1> QED
  BY <1>1 DEF Later

\* The state after i rounds of the loop over extension headers, unless the
\* parser has returned.
Walked(f, s, i, off, end) ==
    Going(s) => /\ s.ext = (IF i <= Len(f.exts) THEN i ELSE Len(f.exts))
                /\ s.off = off /\ s.end = end
                /\ \A j \in 1 .. s.ext : f.exts[j].kind # "fragment"

\* A round of the loop.
LEMMA RoundStage ==
  ASSUME NEW f \in Frame, NEW cap \in Nat, cap <= f.len, NEW s, Stage(f, s),
         NEW i \in Nat, NEW off \in Nat, NEW end \in Nat, Walked(f, s, i, off, end)
  PROVE  /\ Stage(f, ExtRound(f, cap, s)) /\ Later(s, ExtRound(f, cap, s))
         /\ Cut(s, ExtRound(f, cap, s), ExtRound(f, f.len, s))
         /\ off + ExtBytes(f, i + 1) \in Nat
         /\ Walked(f, ExtRound(f, cap, s), i + 1, off + ExtBytes(f, i + 1), end)
         /\ /\ Going(s)
            /\ i + 1 \in 1 .. Len(f.exts) => f.exts[i + 1].kind # "fragment"
            /\ off + ExtBytes(f, i + 1) <= end
            => Going(ExtRound(f, f.len, s))
<1>1. Len(f.exts) \in Nat /\ s.ext \in Nat
  BY Typing, ExtTyping
<1>2. i + 1 > Len(f.exts) => ExtBytes(f, i + 1) = 0
  BY <1>1 DEF ExtBytes
<1>3. i + 1 <= Len(f.exts) => ExtBytes(f, i + 1) \in Nat
  <2>1. i + 1 <= Len(f.exts) => i + 1 \in 1 .. Len(f.exts)
    BY <1>1
  <2> QED
    BY <2>1, ExtTyping DEF ExtBytes
<1>4. off + ExtBytes(f, i + 1) \in Nat
  BY <1>1, <1>2, <1>3
<1>5. CASE Going(s) /\ s.ext < Len(f.exts)
  <2>1. s.ext = i /\ i + 1 \in 1 .. Len(f.exts) /\ s.off = off /\ s.end = end
    BY <1>1, <1>5 DEF Walked
  <2>2. ExtRound(f, cap, s) = ExtHeader(f, cap, s) /\ ExtRound(f, f.len, s) = ExtHeader(f, f.len, s)
    BY <1>5 DEF ExtRound
  <2>3. /\ Stage(f, ExtHeader(f, cap, s)) /\ Later(s, ExtHeader(f, cap, s))
        /\ Cut(s, ExtHeader(f, cap, s), ExtHeader(f, f.len, s))
        /\ f.exts[s.ext + 1].kind # "fragment" /\ s.off + ExtBytes(f, s.ext + 1) <= s.end =>
              Going(ExtHeader(f, f.len, s))
    BY <1>5, ExtStage
  <2>4. ASSUME Going(ExtHeader(f, cap, s))
        PROVE  Walked(f, ExtHeader(f, cap, s), i + 1, off + ExtBytes(f, i + 1), end)
    <3>1. /\ f.exts[i + 1].kind # "fragment"
          /\ ExtHeader(f, cap, s).ext = i + 1 /\ ExtHeader(f, cap, s).end = end
          /\ ExtHeader(f, cap, s).off = off + ExtBytes(f, i + 1)
      BY <1>5, <2>1, <2>4, ExtStage DEF Is
    <3>2. \A j \in 1 .. i + 1 : f.exts[j].kind # "fragment"
      <4>1. \A j \in 1 .. i : f.exts[j].kind # "fragment"
        BY <1>5, <2>1 DEF Walked
      <4>2. \A j \in 1 .. i + 1 : j \in 1 .. i \/ j = i + 1
        OBVIOUS
      <4> QED
        BY <3>1, <4>1, <4>2
    <3> QED
      BY <2>1, <3>1, <3>2 DEF Walked
  <2>5. Walked(f, ExtHeader(f, cap, s), i + 1, off + ExtBytes(f, i + 1), end)
    BY <2>4 DEF Walked
  <2> QED
    BY <1>4, <2>1, <2>2, <2>3, <2>5
<1>6. CASE ~(Going(s) /\ s.ext < Len(f.exts))
  <2>1. ExtRound(f, cap, s) = s /\ ExtRound(f, f.len, s) = s
    BY <1>6 DEF ExtRound
  <2>2. Going(s) => /\ i >= Len(f.exts) /\ s.ext = Len(f.exts) /\ ExtBytes(f, i + 1) = 0
                    /\ off + ExtBytes(f, i + 1) = off
    BY <1>1, <1>2, <1>6 DEF Walked
  <2>3. Walked(f, s, i + 1, off + ExtBytes(f, i + 1), end)
    BY <1>1, <2>2 DEF Walked
  <2> QED
    BY <1>4, <2>1, <2>3, NoStage
<1> QED
  BY <1>5, <1>6

\* What follows the extension headers.
LEMMA ExtensionsEndStage ==
  ASSUME NEW f \in Frame, NEW s, Stage(f, s)
  PROVE  /\ Stage(f, ExtensionsEnd(f, s)) /\ Later(s, ExtensionsEnd(f, s))
         /\ Going(ExtensionsEnd(f, s)) <=> Going(s) /\ ~(s.ext < Len(f.exts)) /\ f.proto # "esp"
         /\ Going(ExtensionsEnd(f, s)) =>
              /\ ExtensionsEnd(f, s).off = s.off /\ ExtensionsEnd(f, s).end = s.end
              /\ ExtensionsEnd(f, s).t.l4_proto = f.proto
<1> DEFINE proto(p) == [s EXCEPT !.t.l4_proto = p]
<1>1. ExtensionsEnd(f, s) = IF ~Going(s) THEN s
                            ELSE IF s.ext < Len(f.exts) THEN Return(proto("ext"), "UNSUPPORTED")
                            ELSE IF f.proto = "esp" THEN Return(proto("esp"), "UNSUPPORTED")
                            ELSE proto(f.proto)
  BY DEF ExtensionsEnd
<1>2. \A p \in Protocols : Is(proto(p), s.rc, s.off, s.end, s.tag, s.ext, s.t.flags, s.t.vlan_count, p)
  BY Typing, SetProto
<1> HIDE DEF proto
<1>3. f.proto \in Protocols /\ "ext" \in Protocols /\ "esp" \in Protocols
  BY Typing DEF Protocols
<1>4. \A p \in Protocols : /\ Stage(f, proto(p)) /\ (Going(proto(p)) <=> Going(s))
                           /\ Going(s) => Later(s, proto(p))
  BY <1>2, Typing DEF Is, Stage, Later, Going
<1>5. ASSUME NEW p \in Protocols, Going(s)
      PROVE  /\ Stage(f, Return(proto(p), "UNSUPPORTED")) /\ Later(s, Return(proto(p), "UNSUPPORTED"))
             /\ ~Going(Return(proto(p), "UNSUPPORTED"))
  <2>1. /\ Stage(f, proto(p)) /\ Going(proto(p)) /\ Later(s, proto(p))
        /\ proto(p) \in ParserStates /\ "UNSUPPORTED" \in Codes
    BY <1>4, <1>5, CodeFacts DEF Stage
  <2>2. /\ Stage(f, Return(proto(p), "UNSUPPORTED")) /\ ~Going(Return(proto(p), "UNSUPPORTED"))
        /\ Return(proto(p), "UNSUPPORTED").t = proto(p).t
    BY <2>1, ReturnStage, ReturnFacts
  <2> QED
    BY <1>5, <2>1, <2>2 DEF Later
<1>6. CASE ~Going(s)
  BY <1>1, <1>6, NoStage
<1>7. CASE Going(s) /\ (s.ext < Len(f.exts) \/ f.proto = "esp")
  BY <1>1, <1>3, <1>5, <1>7
<1>8. CASE Going(s) /\ ~(s.ext < Len(f.exts)) /\ f.proto # "esp"
  <2>1. ExtensionsEnd(f, s) = proto(f.proto)
    BY <1>1, <1>8
  <2>2. proto(f.proto).off = s.off /\ proto(f.proto).end = s.end /\ proto(f.proto).t.l4_proto = f.proto
    BY <1>2, <1>3 DEF Is
  <2> QED
    BY <1>3, <1>4, <1>8, <2>1, <2>2
<1> QED
  BY <1>6, <1>7, <1>8

\* The four rounds, from a header that ends at off in a packet that ends at
\* end: the parser goes on with the transport header just when there are at
\* most four extension headers, none of them a fragment header, and all of
\* them end before the packet does.
LEMMA ExtensionsStage ==
  ASSUME NEW f \in Frame, NEW cap \in Nat, cap <= f.len, NEW s, Stage(f, s),
         NEW off \in Nat, NEW end \in Nat, Walked(f, s, 0, off, end)
  PROVE  LET l4 == off + ExtBytes(f, 1) + ExtBytes(f, 2) + ExtBytes(f, 3) + ExtBytes(f, 4)
             plain == Len(f.exts) <= 4 /\ \A j \in 1 .. Len(f.exts) : f.exts[j].kind # "fragment"
         IN  /\ Stage(f, Extensions(f, cap, s)) /\ Later(s, Extensions(f, cap, s))
             /\ Agree(Extensions(f, cap, s), Extensions(f, f.len, s))
             /\ Going(Extensions(f, cap, s)) =>
                  /\ plain /\ f.proto # "esp"
                  /\ Extensions(f, cap, s).off = l4 /\ Extensions(f, cap, s).end = end
                  /\ Extensions(f, cap, s).t.l4_proto = f.proto
             /\ Going(s) /\ plain /\ f.proto # "esp" /\ l4 <= end => Going(Extensions(f, f.len, s))
             /\ l4 \in Nat
<1> DEFINE o1 == off + ExtBytes(f, 1)
           o2 == o1 + ExtBytes(f, 2)
           o3 == o2 + ExtBytes(f, 3)
           o4 == o3 + ExtBytes(f, 4)
           plain == Len(f.exts) <= 4 /\ \A j \in 1 .. Len(f.exts) : f.exts[j].kind # "fragment"
<1>1. PICK r1, w1 : r1 = ExtRound(f, cap, s) /\ w1 = ExtRound(f, f.len, s)
  OBVIOUS
<1>2. PICK r2, w2 : r2 = ExtRound(f, cap, r1) /\ w2 = ExtRound(f, f.len, w1)
  OBVIOUS
<1>3. PICK r3, w3 : r3 = ExtRound(f, cap, r2) /\ w3 = ExtRound(f, f.len, w2)
  OBVIOUS
<1>4. PICK r4, w4 : r4 = ExtRound(f, cap, r3) /\ w4 = ExtRound(f, f.len, w3)
  OBVIOUS
<1>5. Extensions(f, cap, s) = ExtensionsEnd(f, r4) /\ Extensions(f, f.len, s) = ExtensionsEnd(f, w4)
  BY <1>1, <1>2, <1>3, <1>4 DEF Extensions
<1>6. f.len \in Nat /\ f.len <= f.len /\ Len(f.exts) \in Nat
  BY Typing, ExtTyping
<1>7. ASSUME NEW c \in {cap, f.len}, NEW a, NEW i \in Nat, NEW o \in Nat,
             Stage(f, a), Walked(f, a, i, o, end)
      PROVE  /\ Stage(f, ExtRound(f, c, a)) /\ Later(a, ExtRound(f, c, a))
             /\ o + ExtBytes(f, i + 1) \in Nat
             /\ Walked(f, ExtRound(f, c, a), i + 1, o + ExtBytes(f, i + 1), end)
  BY <1>6, <1>7, RoundStage
<1>8. ASSUME NEW a, NEW b, NEW i \in Nat, NEW o \in Nat, Agree(a, b),
             Stage(f, a), Walked(f, a, i, o, end), Stage(f, b), Walked(f, b, i, o, end)
      PROVE  Agree(ExtRound(f, cap, a), ExtRound(f, f.len, b))
  <2>1. Cut(a, ExtRound(f, cap, a), ExtRound(f, f.len, a))
    BY <1>8, RoundStage
  <2>2. /\ Later(a, ExtRound(f, cap, a)) /\ Later(b, ExtRound(f, f.len, b))
        /\ Stage(f, ExtRound(f, f.len, b))
    BY <1>7, <1>8
  <2> QED
    BY <1>8, <2>1, <2>2, AgreeStep
<1>9. /\ Stage(f, r1) /\ Stage(f, w1) /\ Later(s, r1) /\ Agree(r1, w1) /\ o1 \in Nat
      /\ Walked(f, r1, 1, o1, end) /\ Walked(f, w1, 1, o1, end)
  <2>1. Agree(s, s)
    BY DEF Agree
  <2> QED
    BY <1>1, <1>7, <1>8, <2>1
<1>10. /\ Stage(f, r2) /\ Stage(f, w2) /\ Later(r1, r2) /\ Agree(r2, w2) /\ o2 \in Nat
       /\ Walked(f, r2, 2, o2, end) /\ Walked(f, w2, 2, o2, end)
  BY <1>2, <1>7, <1>8, <1>9
<1>11. /\ Stage(f, r3) /\ Stage(f, w3) /\ Later(r2, r3) /\ Agree(r3, w3) /\ o3 \in Nat
       /\ Walked(f, r3, 3, o3, end) /\ Walked(f, w3, 3, o3, end)
  BY <1>3, <1>7, <1>8, <1>10
<1>12. /\ Stage(f, r4) /\ Stage(f, w4) /\ Later(r3, r4) /\ Agree(r4, w4) /\ o4 \in Nat
       /\ Walked(f, r4, 4, o4, end) /\ Walked(f, w4, 4, o4, end)
  BY <1>4, <1>7, <1>8, <1>11
<1>13. Later(s, r4)
  BY <1>9, <1>10, <1>11, <1>12, LaterTwice
<1>14. /\ Stage(f, ExtensionsEnd(f, r4)) /\ Later(r4, ExtensionsEnd(f, r4))
       /\ Stage(f, ExtensionsEnd(f, w4)) /\ Later(w4, ExtensionsEnd(f, w4))
  BY <1>12, ExtensionsEndStage
<1>15. Later(s, ExtensionsEnd(f, r4))
  BY <1>12, <1>13, <1>14, LaterTwice
<1>16. Agree(ExtensionsEnd(f, r4), ExtensionsEnd(f, w4))
  <2>1. r4 = w4 => Cut(r4, ExtensionsEnd(f, r4), ExtensionsEnd(f, w4))
    BY DEF Cut
  <2> QED
    BY <1>12, <1>14, <2>1, AgreeStep
<1>17. ASSUME Going(ExtensionsEnd(f, r4))
       PROVE  /\ plain /\ f.proto # "esp"
              /\ ExtensionsEnd(f, r4).off = o4 /\ ExtensionsEnd(f, r4).end = end
              /\ ExtensionsEnd(f, r4).t.l4_proto = f.proto
  <2>1. /\ Going(r4) /\ ~(r4.ext < Len(f.exts)) /\ f.proto # "esp"
        /\ ExtensionsEnd(f, r4).off = r4.off /\ ExtensionsEnd(f, r4).end = r4.end
        /\ ExtensionsEnd(f, r4).t.l4_proto = f.proto
    BY <1>12, <1>17, ExtensionsEndStage
  <2>2. /\ r4.ext = (IF 4 <= Len(f.exts) THEN 4 ELSE Len(f.exts))
        /\ r4.off = o4 /\ r4.end = end /\ \A j \in 1 .. r4.ext : f.exts[j].kind # "fragment"
    BY <1>12, <2>1 DEF Walked
  <2>3. r4.ext = Len(f.exts) /\ Len(f.exts) <= 4
    BY <1>6, <2>1, <2>2
  <2> QED
    BY <2>1, <2>2, <2>3
<1>18. ASSUME Going(s), plain, f.proto # "esp", o4 <= end
       PROVE  Going(ExtensionsEnd(f, w4))
  <2>1. \A j \in Nat : j \in 1 .. Len(f.exts) => f.exts[j].kind # "fragment"
    BY <1>18
  <2>2. o1 <= end /\ o2 <= end /\ o3 <= end
    <3>1. \A j \in 1 .. 4 : ExtBytes(f, j) \in Nat
      BY <1>6, ExtTyping DEF ExtBytes
    <3> QED
      BY <1>18, <3>1
  <2>3. ASSUME NEW a, NEW i \in Nat, NEW o \in Nat, Stage(f, a), Walked(f, a, i, o, end), Going(a),
               o + ExtBytes(f, i + 1) <= end
        PROVE  Going(ExtRound(f, f.len, a))
    BY <1>6, <2>1, <2>3, RoundStage
  <2> HIDE DEF o1, o2, o3, o4
  <2>4. Going(w1)
    BY <1>1, <1>18, <2>2, <2>3 DEF o1
  <2>5. Going(w2)
    BY <1>2, <1>9, <2>2, <2>3, <2>4 DEF o2
  <2>6. Going(w3)
    BY <1>3, <1>10, <2>2, <2>3, <2>5 DEF o3
  <2>7. Going(w4)
    BY <1>4, <1>11, <1>18, <2>3, <2>6 DEF o4
  <2>8. ~(w4.ext < Len(f.exts))
    BY <1>6, <1>12, <1>18, <2>7 DEF Walked
  <2> QED
    BY <1>12, <1>18, <2>7, <2>8, ExtensionsEndStage
<1> QED
  BY <1>5, <1>12, <1>14, <1>15, <1>16, <1>17, <1>18

\* The network header at off of a packet that ends at end, as the parser wants
\* it before it looks for a transport header.
Sound4(f, off, end) ==
    /\ f.type = "ip4" /\ f.valid /\ ~f.frag
    /\ f.ihl >= 20 /\ f.total >= f.ihl /\ off + f.total <= end
Sound6(f, off, end) ==
    /\ f.type = "ip6" /\ f.valid /\ f.total > 0 /\ off + 40 + f.total <= end
    /\ Len(f.exts) <= 4
    /\ \A j \in 1 .. Len(f.exts) : f.exts[j].kind # "fragment"
L4From(f, off) ==
    off + 40 + ExtBytes(f, 1) + ExtBytes(f, 2) + ExtBytes(f, 3) + ExtBytes(f, 4)

\* IPv6 with its extension headers.
LEMMA IPv6ExtensionsStage ==
  ASSUME NEW f \in Frame, NEW cap \in Nat, cap <= f.len, NEW s, Stage(f, s), Going(s), s.ext = 0,
         f.type = "ip6"
  PROVE  LET N(c) == Extensions(f, c, IPv6(f, c, s))
         IN  /\ Stage(f, N(cap)) /\ Later(s, N(cap)) /\ Agree(N(cap), N(f.len))
             /\ Going(N(cap)) =>
                  /\ Sound6(f, s.off, s.end) /\ f.proto # "esp"
                  /\ N(cap).off = L4From(f, s.off) /\ N(cap).end = s.off + 40 + f.total
                  /\ N(cap).t.l4_proto = f.proto /\ "ADDR_VALID" \in N(cap).t.flags
             /\ /\ Sound6(f, s.off, s.end) /\ f.proto # "esp"
                /\ L4From(f, s.off) <= s.off + 40 + f.total
                => Going(N(f.len))
             /\ L4From(f, s.off) \in Nat
<1> DEFINE N(c) == Extensions(f, c, IPv6(f, c, s))
           off == s.off + 40
           end == s.off + 40 + f.total
<1>1. f.len \in Nat /\ f.len <= f.len /\ off \in Nat /\ end \in Nat /\ Len(f.exts) \in Nat
  BY Typing, ExtTyping
<1>2. ASSUME NEW c \in {cap, f.len}
      PROVE  /\ Stage(f, IPv6(f, c, s)) /\ Later(s, IPv6(f, c, s))
             /\ Going(IPv6(f, c, s)) => /\ f.valid /\ f.total > 0 /\ end <= s.end
                                        /\ "ADDR_VALID" \in IPv6(f, c, s).t.flags
             /\ Walked(f, IPv6(f, c, s), 0, off, end)
  <2>1. c \in Nat /\ c <= f.len
    BY <1>1
  <2>2. /\ Stage(f, IPv6(f, c, s)) /\ Later(s, IPv6(f, c, s))
        /\ Going(IPv6(f, c, s)) =>
             /\ f.valid /\ f.total > 0 /\ s.off + 40 + f.total <= s.end
             /\ Is(IPv6(f, c, s), "GO", s.off + 40, s.off + 40 + f.total, s.tag, s.ext,
                   s.t.flags \cup {"ADDR_VALID"}, s.t.vlan_count, s.t.l4_proto)
    BY <2>1, IPv6Stage
  <2>3. Going(IPv6(f, c, s)) => /\ IPv6(f, c, s).ext = 0 /\ IPv6(f, c, s).off = off
                                /\ IPv6(f, c, s).end = end
                                /\ "ADDR_VALID" \in IPv6(f, c, s).t.flags
    BY <2>2 DEF Is
  <2>4. Walked(f, IPv6(f, c, s), 0, off, end)
    BY <1>1, <2>3 DEF Walked
  <2> QED
    BY <2>2, <2>3, <2>4
<1>3. Cut(s, IPv6(f, cap, s), IPv6(f, f.len, s))
  BY IPv6Stage
<1>4. f.valid /\ f.total > 0 /\ end <= s.end => Going(IPv6(f, f.len, s))
  BY IPv6Stage
<1>5. PICK a, b : a = IPv6(f, cap, s) /\ b = IPv6(f, f.len, s)
  OBVIOUS
<1>6. N(cap) = Extensions(f, cap, a) /\ N(f.len) = Extensions(f, f.len, b)
  BY <1>5
<1> HIDE DEF N, off, end
<1>7. /\ Stage(f, a) /\ Later(s, a) /\ Walked(f, a, 0, off, end)
      /\ Going(a) => f.valid /\ f.total > 0 /\ end <= s.end /\ "ADDR_VALID" \in a.t.flags
      /\ Stage(f, b) /\ Later(s, b) /\ Walked(f, b, 0, off, end)
  BY <1>2, <1>5
<1>8. /\ Stage(f, Extensions(f, cap, a)) /\ Later(a, Extensions(f, cap, a))
      /\ Agree(Extensions(f, cap, a), Extensions(f, f.len, a))
      /\ Going(Extensions(f, cap, a)) =>
           /\ Len(f.exts) <= 4 /\ (\A j \in 1 .. Len(f.exts) : f.exts[j].kind # "fragment")
           /\ f.proto # "esp"
           /\ Extensions(f, cap, a).off = off + ExtBytes(f, 1) + ExtBytes(f, 2) + ExtBytes(f, 3) + ExtBytes(f, 4)
           /\ Extensions(f, cap, a).end = end
           /\ Extensions(f, cap, a).t.l4_proto = f.proto
      /\ off + ExtBytes(f, 1) + ExtBytes(f, 2) + ExtBytes(f, 3) + ExtBytes(f, 4) \in Nat
  BY <1>1, <1>7, ExtensionsStage
<1>9. /\ Stage(f, Extensions(f, f.len, b)) /\ Later(b, Extensions(f, f.len, b))
      /\ /\ Going(b) /\ Len(f.exts) <= 4 /\ (\A j \in 1 .. Len(f.exts) : f.exts[j].kind # "fragment")
         /\ f.proto # "esp"
         /\ off + ExtBytes(f, 1) + ExtBytes(f, 2) + ExtBytes(f, 3) + ExtBytes(f, 4) <= end
         => Going(Extensions(f, f.len, b))
  BY <1>1, <1>7, ExtensionsStage
<1>10. L4From(f, s.off) = off + ExtBytes(f, 1) + ExtBytes(f, 2) + ExtBytes(f, 3) + ExtBytes(f, 4)
  BY DEF L4From, off
<1>11. Stage(f, N(cap)) /\ Later(s, N(cap))
  BY <1>6, <1>7, <1>8, LaterTwice
<1>12. Agree(N(cap), N(f.len))
  <2>1. CASE a = b
    BY <1>6, <1>8, <2>1
  <2>2. CASE a # b
    <3>1. a.rc = "TRUNCATED" /\ a.t = s.t
      BY <1>3, <1>5, <2>2 DEF Cut
    <3>2. Extensions(f, cap, a) = a
      BY <1>8, <3>1 DEF Later, Going
    <3>3. Later(s, Extensions(f, f.len, b))
      BY <1>7, <1>9, LaterTwice
    <3> QED
      BY <1>6, <3>1, <3>2, <3>3 DEF Agree, Later
  <2> QED
    BY <2>1, <2>2
<1>13. ASSUME Going(N(cap))
       PROVE  /\ Sound6(f, s.off, s.end) /\ f.proto # "esp"
              /\ N(cap).off = L4From(f, s.off) /\ N(cap).end = s.off + 40 + f.total
              /\ N(cap).t.l4_proto = f.proto /\ "ADDR_VALID" \in N(cap).t.flags
  <2>1. Going(a)
    BY <1>6, <1>8, <1>13 DEF Later
  <2>2. "ADDR_VALID" \in N(cap).t.flags
    BY <1>6, <1>7, <1>8, <2>1 DEF Later
  <2>3. Sound6(f, s.off, s.end)
    BY <1>6, <1>7, <1>8, <1>13, <2>1 DEF Sound6, end
  <2> QED
    BY <1>6, <1>8, <1>10, <1>13, <2>2, <2>3 DEF end
<1>14. ASSUME Sound6(f, s.off, s.end), f.proto # "esp", L4From(f, s.off) <= s.off + 40 + f.total
       PROVE  Going(N(f.len))
  <2>1. Going(b)
    BY <1>4, <1>5, <1>14 DEF Sound6, end
  <2> QED
    BY <1>6, <1>9, <1>10, <1>14, <2>1 DEF Sound6, end
<1> QED
  BY <1>8, <1>10, <1>11, <1>12, <1>13, <1>14 DEF N

\* The stage of the network header.
LEMMA NetworkStage ==
  ASSUME NEW f \in Frame, NEW cap \in Nat, cap <= f.len, NEW s, Stage(f, s), Going(s) => s.ext = 0
  PROVE  /\ Stage(f, Network(f, cap, s)) /\ Later(s, Network(f, cap, s))
         /\ Agree(Network(f, cap, s), Network(f, f.len, s))
         /\ Going(Network(f, cap, s)) =>
              /\ Network(f, cap, s).t.l4_proto = f.proto
              /\ "ADDR_VALID" \in Network(f, cap, s).t.flags
              /\ \/ /\ Sound4(f, s.off, s.end) /\ Network(f, cap, s).off = s.off + f.ihl
                    /\ Network(f, cap, s).end = s.off + f.total
                 \/ /\ Sound6(f, s.off, s.end) /\ Network(f, cap, s).off = L4From(f, s.off)
                    /\ Network(f, cap, s).end = s.off + 40 + f.total
         /\ Going(s) /\ Sound4(f, s.off, s.end) => Going(Network(f, f.len, s))
         /\ /\ Going(s) /\ Sound6(f, s.off, s.end) /\ f.proto # "esp"
            /\ L4From(f, s.off) <= s.off + 40 + f.total
            => Going(Network(f, f.len, s))
<1>1. CASE ~Going(s)
  <2>1. \A c : Network(f, c, s) = s
    BY <1>1 DEF Network
  <2> QED
    BY <1>1, <2>1, NoStage DEF Agree
<1>2. CASE Going(s) /\ f.type = "arp"
  <2>1. \A c : Network(f, c, s) = Arp(f, c, s)
    BY <1>2 DEF Network
  <2>2. ~Sound4(f, s.off, s.end) /\ ~Sound6(f, s.off, s.end)
    BY <1>2 DEF Sound4, Sound6
  <2>3. /\ Stage(f, Arp(f, cap, s)) /\ Later(s, Arp(f, cap, s)) /\ ~Going(Arp(f, cap, s))
        /\ Cut(s, Arp(f, cap, s), Arp(f, f.len, s))
    BY <1>2, ArpStage
  <2>4. f.len \in Nat /\ f.len <= f.len
    BY Typing
  <2>5. Later(s, Arp(f, f.len, s))
    BY <1>2, <2>4, ArpStage
  <2>6. Agree(Arp(f, cap, s), Arp(f, f.len, s))
    BY <2>3, <2>5 DEF Agree, Cut, Later
  <2> QED
    BY <2>1, <2>2, <2>3, <2>6
<1>3. CASE Going(s) /\ f.type = "ip4"
  <2>1. \A c : Network(f, c, s) = IPv4(f, c, s)
    BY <1>3 DEF Network
  <2>2. ~Sound6(f, s.off, s.end)
    BY <1>3 DEF Sound6
  <2>3. /\ Stage(f, IPv4(f, cap, s)) /\ Later(s, IPv4(f, cap, s))
        /\ Cut(s, IPv4(f, cap, s), IPv4(f, f.len, s))
        /\ Going(IPv4(f, cap, s)) =>
              /\ f.valid /\ f.ihl >= 20 /\ f.total >= f.ihl /\ s.off + f.total <= s.end /\ ~f.frag
              /\ Is(IPv4(f, cap, s), "GO", s.off + f.ihl, s.off + f.total, s.tag, s.ext,
                    s.t.flags \cup {"ADDR_VALID"}, s.t.vlan_count, f.proto)
        /\ f.valid /\ f.ihl >= 20 /\ f.total >= f.ihl /\ s.off + f.total <= s.end /\ ~f.frag =>
              Going(IPv4(f, f.len, s))
    BY <1>3, IPv4Stage
  <2>4. f.len \in Nat /\ f.len <= f.len
    BY Typing
  <2>5. Later(s, IPv4(f, f.len, s))
    BY <1>3, <2>4, IPv4Stage
  <2>6. Agree(IPv4(f, cap, s), IPv4(f, f.len, s))
    BY <2>3, <2>5 DEF Agree, Cut, Later
  <2>7. Going(IPv4(f, cap, s)) =>
           /\ Sound4(f, s.off, s.end)
           /\ IPv4(f, cap, s).off = s.off + f.ihl /\ IPv4(f, cap, s).end = s.off + f.total
           /\ IPv4(f, cap, s).t.l4_proto = f.proto /\ "ADDR_VALID" \in IPv4(f, cap, s).t.flags
    BY <1>3, <2>3 DEF Sound4, Is
  <2>8. Sound4(f, s.off, s.end) => Going(IPv4(f, f.len, s))
    BY <2>3 DEF Sound4
  <2> QED
    BY <2>1, <2>2, <2>3, <2>6, <2>7, <2>8
<1>4. CASE Going(s) /\ f.type = "ip6"
  <2>1. \A c : Network(f, c, s) = Extensions(f, c, IPv6(f, c, s))
    BY <1>4 DEF Network
  <2>2. ~Sound4(f, s.off, s.end)
    BY <1>4 DEF Sound4
  <2> QED
    BY <1>4, <2>1, <2>2, IPv6ExtensionsStage
<1>5. CASE Going(s) /\ f.type = "other"
  <2>1. \A c : Network(f, c, s) = Return(s, "UNSUPPORTED")
    BY <1>5 DEF Network
  <2>2. ~Sound4(f, s.off, s.end) /\ ~Sound6(f, s.off, s.end)
    BY <1>5 DEF Sound4, Sound6
  <2>3. /\ Stage(f, Return(s, "UNSUPPORTED")) /\ Later(s, Return(s, "UNSUPPORTED"))
        /\ ~Going(Return(s, "UNSUPPORTED"))
    BY <1>5, CodeFacts, Typing, ReturnFacts, ReturnStage
  <2> QED
    BY <2>1, <2>2, <2>3 DEF Agree
<1> QED
  BY <1>1, <1>2, <1>3, <1>4, <1>5 DEF Frame

\* The state after i rounds of the loop over VLAN tags, unless the parser has
\* returned.
Tagged(f, s, i) ==
    Going(s) => /\ s.tag = (IF i <= f.tags THEN i ELSE f.tags)
                /\ s.off = 14 + 4 * s.tag /\ s.end = f.len /\ s.ext = 0
                /\ s.t.vlan_count = s.tag + (IF f.stripped THEN 1 ELSE 0)

\* The Ethernet header.
LEMMA EthernetGoes ==
  ASSUME NEW f \in Frame, NEW cap \in Nat
  PROVE  /\ Tagged(f, Ethernet(f, cap), 0)
         /\ f.len >= 14 => Going(Ethernet(f, f.len))
<1> DEFINE s == [rc |-> "GO", off |-> 14, end |-> f.len, tag |-> 0, ext |-> 0, t |-> NoTuple]
           good == [s EXCEPT !.t.flags = {"L2_VALID"}, !.t.vlan_count = IF f.stripped THEN 1 ELSE 0]
<1>1. f.len \in Nat /\ f.stripped \in BOOLEAN /\ f.tags \in Nat
  BY DEF Frame
<1>2. s \in ParserStates /\ s.rc = "GO" /\ s.off = 14 /\ s.end = f.len /\ s.tag = 0 /\ s.ext = 0
  <2>1. NoTuple \in Tuples
    BY DEF NoTuple, Tuples, Ethertypes, Protocols
  <2> QED
    BY <1>1, <2>1 DEF ParserStates
<1>3. \A c : Ethernet(f, c) = IF es_need(0, 14, c, f.len) # "OK" THEN Return(s, es_need(0, 14, c, f.len))
                                                                ELSE good
  BY DEF Ethernet
<1>4. PICK n \in 0 .. 2 : n = (IF f.stripped THEN 1 ELSE 0)
  BY <1>1
<1>5. good = [s EXCEPT !.t.flags = {"L2_VALID"}, !.t.vlan_count = n]
  BY <1>4
<1>6. {"L2_VALID"} \in SUBSET Flags
  BY DEF Flags
<1> HIDE DEF s, good
<1>7. Is(good, s.rc, s.off, s.end, s.tag, s.ext, {"L2_VALID"}, n, s.t.l4_proto)
  BY <1>2, <1>5, <1>6, SetLink
<1>8. Going(good) /\ Tagged(f, good, 0)
  BY <1>1, <1>2, <1>4, <1>7 DEF Is, Going, Tagged
<1>9. \A c : ~Going(Return(s, es_need(0, 14, c, f.len)))
  BY <1>2, CodeFacts, ReturnFacts
<1>10. Tagged(f, Ethernet(f, cap), 0)
  BY <1>3, <1>8, <1>9 DEF Tagged
<1>11. f.len >= 14 => es_need(0, 14, f.len, f.len) = "OK"
  BY <1>1 DEF es_need
<1> QED
  BY <1>3, <1>8, <1>10, <1>11

\* A round of the loop over VLAN tags.
LEMMA TagRound ==
  ASSUME NEW f \in Frame, NEW cap \in Nat, cap <= f.len, NEW s, Stage(f, s),
         NEW i \in Nat, Tagged(f, s, i)
  PROVE  /\ Tagged(f, Vlan(f, cap, s), i + 1)
         /\ Going(s) /\ VlanTags(f) <= 2 /\ L3Start(f) <= f.len => Going(Vlan(f, f.len, s))
<1>1. /\ f.tags \in Nat /\ f.stripped \in BOOLEAN /\ f.len \in Nat
      /\ s.tag \in Nat /\ s.off \in Nat /\ s.end \in Nat
  BY Typing DEF Frame
<1>2. ASSUME Going(Vlan(f, cap, s)) PROVE Tagged(f, Vlan(f, cap, s), i + 1)
  <2>1. Going(s)
    BY <1>2, VlanStage DEF Later
  <2>2. CASE s.tag = f.tags /\ Vlan(f, cap, s) = s
    BY <1>1, <2>1, <2>2 DEF Tagged
  <2>3. CASE s.tag # f.tags /\ Is(Vlan(f, cap, s), "GO", s.off + 4, s.end, s.tag + 1, s.ext, s.t.flags,
                                  s.t.vlan_count + 1, s.t.l4_proto)
    BY <1>1, <2>1, <2>3 DEF Tagged, Is
  <2> QED
    BY <1>2, <2>2, <2>3, VlanStage
<1>3. ASSUME Going(s), VlanTags(f) <= 2, L3Start(f) <= f.len PROVE Going(Vlan(f, f.len, s))
  <2>1. s.tag # f.tags => s.t.vlan_count < 2 /\ s.off + 4 <= s.end
    BY <1>1, <1>3 DEF Tagged, VlanTags, L3Start
  <2> QED
    BY <1>3, <2>1, VlanStage
<1> QED
  BY <1>2, <1>3 DEF Tagged

\* The link layer as the parser reads it.
Link(f, cap) == Ethertype(f, Vlan(f, cap, Vlan(f, cap, Ethernet(f, cap))))

\* The link layer: behind at most two tags, the network header begins where
\* the tags end.
LEMMA LinkStage ==
  ASSUME NEW f \in Frame, NEW cap \in Nat, cap <= f.len
  PROVE  /\ Stage(f, Link(f, cap)) /\ Agree(Link(f, cap), Link(f, f.len))
         /\ Going(Link(f, cap)) => /\ VlanTags(f) <= 2 /\ Link(f, cap).ext = 0
                                   /\ Link(f, cap).off = L3Start(f) /\ Link(f, cap).end = f.len
         /\ VlanTags(f) <= 2 /\ L3Start(f) <= f.len => Going(Link(f, f.len))
<1>1. f.len \in Nat /\ f.len <= f.len /\ f.tags \in Nat /\ f.stripped \in BOOLEAN
  BY DEF Frame
<1>2. PICK r0, w0 : r0 = Ethernet(f, cap) /\ w0 = Ethernet(f, f.len)
  OBVIOUS
<1>3. PICK r1, w1 : r1 = Vlan(f, cap, r0) /\ w1 = Vlan(f, f.len, w0)
  OBVIOUS
<1>4. PICK r2, w2 : r2 = Vlan(f, cap, r1) /\ w2 = Vlan(f, f.len, w1)
  OBVIOUS
<1>5. Link(f, cap) = Ethertype(f, r2) /\ Link(f, f.len) = Ethertype(f, w2)
  BY <1>2, <1>3, <1>4 DEF Link
<1>6. Stage(f, r0) /\ Stage(f, w0) /\ Tagged(f, r0, 0) /\ Tagged(f, w0, 0)
  BY <1>1, <1>2, EthernetStage, EthernetGoes
<1>7. Agree(r0, w0)
  <2>1. r0 = w0 \/ (r0.rc = "TRUNCATED" /\ r0.t = NoTuple)
    BY <1>2, EthernetStage
  <2>2. NoTuple.flags = {} /\ NoTuple.vlan_count = 0
    BY DEF NoTuple
  <2>3. w0.t.vlan_count \in 0 .. 2
    BY <1>6, Typing
  <2> QED
    BY <2>1, <2>2, <2>3 DEF Agree
<1>8. ASSUME NEW a, NEW b, NEW i \in Nat, Agree(a, b),
             Stage(f, a), Tagged(f, a, i), Stage(f, b), Tagged(f, b, i)
      PROVE  /\ Stage(f, Vlan(f, cap, a)) /\ Tagged(f, Vlan(f, cap, a), i + 1)
             /\ Stage(f, Vlan(f, f.len, b)) /\ Tagged(f, Vlan(f, f.len, b), i + 1)
             /\ Agree(Vlan(f, cap, a), Vlan(f, f.len, b))
  <2>1. /\ Stage(f, Vlan(f, cap, a)) /\ Later(a, Vlan(f, cap, a))
        /\ Stage(f, Vlan(f, f.len, b)) /\ Later(b, Vlan(f, f.len, b))
        /\ Cut(a, Vlan(f, cap, a), Vlan(f, f.len, a))
    BY <1>1, <1>8, VlanStage
  <2>2. Tagged(f, Vlan(f, cap, a), i + 1) /\ Tagged(f, Vlan(f, f.len, b), i + 1)
    BY <1>1, <1>8, TagRound
  <2>3. Agree(Vlan(f, cap, a), Vlan(f, f.len, b))
    BY <1>8, <2>1, AgreeStep
  <2> QED
    BY <2>1, <2>2, <2>3
<1>9. Stage(f, r1) /\ Stage(f, w1) /\ Tagged(f, r1, 1) /\ Tagged(f, w1, 1) /\ Agree(r1, w1)
  BY <1>3, <1>6, <1>7, <1>8
<1>10. Stage(f, r2) /\ Stage(f, w2) /\ Tagged(f, r2, 2) /\ Tagged(f, w2, 2) /\ Agree(r2, w2)
  BY <1>4, <1>8, <1>9
<1>11. /\ Stage(f, Ethertype(f, r2)) /\ Later(r2, Ethertype(f, r2))
       /\ Stage(f, Ethertype(f, w2)) /\ Later(w2, Ethertype(f, w2))
  BY <1>10, EthertypeStage
<1>12. Agree(Ethertype(f, r2), Ethertype(f, w2))
  <2>1. r2 = w2 => Cut(r2, Ethertype(f, r2), Ethertype(f, w2))
    BY DEF Cut
  <2> QED
    BY <1>10, <1>11, <2>1, AgreeStep
<1>13. ASSUME Going(Ethertype(f, r2))
       PROVE  /\ VlanTags(f) <= 2 /\ Ethertype(f, r2).ext = 0
              /\ Ethertype(f, r2).off = L3Start(f) /\ Ethertype(f, r2).end = f.len
  <2>1. /\ Going(r2) /\ r2.tag >= f.tags
        /\ Ethertype(f, r2).off = r2.off /\ Ethertype(f, r2).end = r2.end
        /\ Ethertype(f, r2).ext = r2.ext
    BY <1>10, <1>13, EthertypeStage DEF Is
  <2>2. r2.tag \in Nat /\ r2.t.vlan_count \in 0 .. 2
    BY <1>10, Typing
  <2>3. r2.tag = f.tags /\ r2.off = 14 + 4 * f.tags /\ r2.end = f.len /\ r2.ext = 0
    <3>1. /\ r2.tag = (IF 2 <= f.tags THEN 2 ELSE f.tags)
          /\ r2.off = 14 + 4 * r2.tag /\ r2.end = f.len /\ r2.ext = 0
      BY <1>10, <2>1 DEF Tagged
    <3>2. r2.tag = f.tags
      BY <1>1, <2>1, <3>1
    <3> QED
      BY <3>1, <3>2
  <2>4. VlanTags(f) <= 2
    BY <1>1, <1>10, <2>1, <2>2, <2>3 DEF Tagged, VlanTags
  <2> QED
    BY <2>1, <2>3, <2>4 DEF L3Start
<1>14. ASSUME VlanTags(f) <= 2, L3Start(f) <= f.len PROVE Going(Ethertype(f, w2))
  <2>1. f.len >= 14 /\ f.tags <= 2
    BY <1>1, <1>14 DEF L3Start, VlanTags
  <2>2. Going(w0)
    BY <1>1, <1>2, <2>1, EthernetGoes
  <2>3. Going(w1)
    BY <1>1, <1>3, <1>6, <1>14, <2>2, TagRound
  <2>4. Going(w2)
    BY <1>1, <1>4, <1>9, <1>14, <2>3, TagRound
  <2>5. w2.tag >= f.tags
    BY <1>1, <1>10, <2>1, <2>4 DEF Tagged
  <2> QED
    BY <1>10, <2>4, <2>5, EthertypeStage
<1> QED
  BY <1>5, <1>11, <1>12, <1>13, <1>14

\* The last stage: what the parser's answer looks like.
Answer(f, r) ==
    /\ r.rc \in Codes
    /\ r.t.flags \subseteq Flags /\ r.t.vlan_count \in 0 .. 2
    /\ "PORTS_VALID" \in r.t.flags =>
          /\ "ADDR_VALID" \in r.t.flags /\ "FRAGMENT" \notin r.t.flags
          /\ r.t.l4_proto \in {"tcp", "udp"}

\* The transport header.
LEMMA TransportStage ==
  ASSUME NEW f \in Frame, NEW cap \in Nat, cap <= f.len, NEW s, Stage(f, s),
         Going(s) => s.t.l4_proto = f.proto /\ "ADDR_VALID" \in s.t.flags
  PROVE  /\ Answer(f, Transport(f, cap, s)) /\ Later(s, Transport(f, cap, s))
         /\ Cut(s, Transport(f, cap, s), Transport(f, f.len, s))
         /\ "PORTS_VALID" \in Transport(f, f.len, s).t.flags <=>
              Going(s) /\ TransportSound(f, s.off, s.end)
         /\ "PORTS_VALID" \in Transport(f, cap, s).t.flags => Transport(f, cap, s).rc = "OK"
<1> DEFINE size == IF f.proto = "tcp" THEN 20 ELSE 8
           last == s.off + (IF f.proto = "tcp" THEN 12 ELSE 5)
           need(c) == es_need(s.off, size, c, s.end)
           bad(h) == h < size \/ h > s.end - s.off
           found == [s EXCEPT !.t.flags = @ \cup {"PORTS_VALID"}]
<1>1. \A c : Transport(f, c, s) =
               IF ~Going(s) THEN s
               ELSE IF f.proto \notin {"tcp", "udp"} THEN Return(s, "OK")
               ELSE IF need(c) # "OK" THEN Return(s, need(c))
               ELSE IF bad(Field(last, c, f.hlen)) THEN Return(s, "MALFORMED")
               ELSE Return(found, "OK")
  BY DEF Transport
<1>2. /\ s \in ParserStates /\ s.off \in Nat /\ s.end \in Nat /\ s.end <= f.len
      /\ f.len \in Nat /\ f.hlen \in Nat /\ s.t.flags \in SUBSET Flags /\ s.t.vlan_count \in 0 .. 2
  BY Typing
<1>3. s.t.flags \cup {"PORTS_VALID"} \in SUBSET Flags
  BY <1>2 DEF Flags
<1>4. Is(found, s.rc, s.off, s.end, s.tag, s.ext, s.t.flags \cup {"PORTS_VALID"}, s.t.vlan_count,
         s.t.l4_proto)
  BY <1>2, <1>3, SetFlags
<1> HIDE DEF found
<1>5. \A rc \in Codes : /\ ~Going(Return(s, rc)) /\ Return(s, rc).rc = rc /\ Return(s, rc).t = s.t
                        /\ Later(s, Return(s, rc)) \/ ~Going(s)
  BY <1>2, ReturnFacts, ReturnStage
<1>6. /\ Return(found, "OK").rc = "OK" /\ Return(found, "OK").t.flags = s.t.flags \cup {"PORTS_VALID"}
      /\ Return(found, "OK").t.vlan_count = s.t.vlan_count
      /\ Return(found, "OK").t.l4_proto = s.t.l4_proto
  BY <1>4, CodeFacts, ReturnFacts DEF Is
<1>7. ASSUME NEW c \in {cap, f.len}, need(c) = "OK" PROVE Field(last, c, f.hlen) = f.hlen
  BY <1>2, <1>7 DEF es_need, Field
<1>8. /\ need(cap) = "TRUNCATED" \/ need(cap) = need(f.len)
      /\ need(f.len) = IF s.off + size > s.end THEN "MALFORMED" ELSE "OK"
  BY <1>2 DEF es_need
<1>9. need(cap) \in Codes /\ need(f.len) \in Codes
  BY CodeFacts
<1>10. \A c \in {cap, f.len} : Transport(f, c, s) =
               IF ~Going(s) THEN s
               ELSE IF f.proto \notin {"tcp", "udp"} THEN Return(s, "OK")
               ELSE IF need(c) # "OK" THEN Return(s, need(c))
               ELSE IF bad(f.hlen) THEN Return(s, "MALFORMED")
               ELSE Return(found, "OK")
  <2> HIDE DEF need, bad, last
  <2> QED
    BY <1>1, <1>7
<1>11. TransportSound(f, s.off, s.end) <=>
         f.proto \in {"tcp", "udp"} /\ need(f.len) = "OK" /\ ~bad(f.hlen)
  BY <1>2, <1>8 DEF TransportSound
<1> HIDE DEF need, bad
<1>12. "PORTS_VALID" \notin s.t.flags /\ (Going(s) => "FRAGMENT" \notin s.t.flags)
  BY DEF Stage
<1>13. ~Going(s) => s.rc \in Codes
  BY <1>2 DEF ParserStates, Going
<1>14. Answer(f, Transport(f, cap, s))
  <2>1. CASE Transport(f, cap, s) = Return(found, "OK") /\ Going(s) /\ f.proto \in {"tcp", "udp"}
    BY <1>2, <1>3, <1>6, <1>12, <2>1, CodeFacts DEF Answer
  <2>2. CASE \E rc \in Codes : Transport(f, cap, s) = Return(s, rc)
    BY <1>2, <1>5, <1>12, <2>2 DEF Answer
  <2>3. CASE ~Going(s) /\ Transport(f, cap, s) = s
    BY <1>2, <1>12, <1>13, <2>3 DEF Answer
  <2> QED
    BY <1>9, <1>10, <2>1, <2>2, <2>3, CodeFacts
<1>15. Later(s, Transport(f, cap, s))
  <2>1. Going(s) => Later(s, Return(found, "OK"))
    BY <1>2, <1>6 DEF Later
  <2>2. Later(s, s)
    BY NoStage
  <2> QED
    BY <1>5, <1>9, <1>10, <2>1, <2>2, CodeFacts
<1>16. Cut(s, Transport(f, cap, s), Transport(f, f.len, s))
  <2>1. Return(s, "TRUNCATED").rc = "TRUNCATED" /\ Return(s, "TRUNCATED").t = s.t
    BY <1>5, CodeFacts
  <2> QED
    BY <1>8, <1>10, <2>1 DEF Cut
<1>17. ASSUME NEW c \in {cap, f.len}
       PROVE  /\ "PORTS_VALID" \in Transport(f, c, s).t.flags <=>
                   Going(s) /\ f.proto \in {"tcp", "udp"} /\ need(c) = "OK" /\ ~bad(f.hlen)
              /\ "PORTS_VALID" \in Transport(f, c, s).t.flags => Transport(f, c, s).rc = "OK"
  BY <1>5, <1>6, <1>9, <1>10, <1>12, CodeFacts
<1> QED
  BY <1>11, <1>14, <1>15, <1>16, <1>17

\* Two parses stay in agreement when they do from the same state.
LEMMA AgreeOn ==
  ASSUME NEW s, NEW w, NEW r, NEW x, Agree(s, w), Later(s, r), Later(w, x), s = w => Agree(r, x),
         s.t.vlan_count \in Nat, w.t.vlan_count \in Nat, x.t.vlan_count \in Nat
  PROVE  Agree(r, x)
<1>1. CASE s = w
  BY <1>1
<1>2. CASE s # w
  <2>1. s.rc = "TRUNCATED" /\ s.t.flags \subseteq w.t.flags /\ s.t.vlan_count <= w.t.vlan_count
    BY <1>2 DEF Agree
  <2>2. r = s
    BY <2>1 DEF Later, Going
  <2> QED
    BY <2>1, <2>2 DEF Later, Agree
<1> QED
  BY <1>1, <1>2

\* The headers around the transport header, as the reference definition of
\* a sound packet has them.
LEMMA SoundHeaders ==
  ASSUME NEW f \in Frame
  PROVE  /\ L3Start(f) \in Nat
         /\ Ip4Sound(f) <=> Sound4(f, L3Start(f), f.len)
         /\ Ip6Sound(f) <=> Sound6(f, L3Start(f), f.len)
         /\ L4Start(f) = L4From(f, L3Start(f))
         /\ Ip4Sound(f) \/ Ip6Sound(f) => L3Start(f) <= f.len
<1>1. f.len \in Nat /\ f.tags \in Nat /\ f.total \in Nat /\ f.ihl \in Nat
  BY DEF Frame
<1>2. f.exts \in Seq([kind : {"plain", "auth", "fragment"}, units : Nat])
  BY DEF Frame
<1>3. DOMAIN f.exts = 1 .. Len(f.exts)
  BY <1>2
<1>4. L3Start(f) \in Nat
  BY <1>1 DEF L3Start
<1>5. L4Start(f) = L4From(f, L3Start(f))
  BY DEF L4Start, L4From
<1>6. Ip4Sound(f) <=> Sound4(f, L3Start(f), f.len)
  BY <1>1, <1>4 DEF Ip4Sound, Sound4
<1>7. Ip6Sound(f) <=> Sound6(f, L3Start(f), f.len)
  BY <1>3 DEF Ip6Sound, Sound6
<1>8. Ip4Sound(f) \/ Ip6Sound(f) => L3Start(f) <= f.len
  BY <1>1, <1>4 DEF Ip4Sound, Ip6Sound
<1> QED
  BY <1>4, <1>5, <1>6, <1>7, <1>8

\* The parser's last state.
Parsed(f, cap) == Transport(f, cap, Network(f, cap, Link(f, cap)))

\* A parse of the first cap bytes, of the whole packet, and how they compare.
LEMMA ParsedFacts ==
  ASSUME NEW f \in Frame, NEW cap \in Nat, cap <= f.len
  PROVE  /\ Answer(f, Parsed(f, cap))
         /\ Agree(Parsed(f, cap), Parsed(f, f.len))
         /\ "PORTS_VALID" \in Parsed(f, f.len).t.flags <=> HasPorts(f)
         /\ "PORTS_VALID" \in Parsed(f, f.len).t.flags => Parsed(f, f.len).rc = "OK"
<1>1. f.len \in Nat /\ f.len <= f.len /\ f.hlen \in Nat /\ f.total \in Nat /\ f.ihl \in Nat
  BY DEF Frame
<1>2. PICK a, b : a = Link(f, cap) /\ b = Link(f, f.len)
  OBVIOUS
<1>3. PICK n, m : n = Network(f, cap, a) /\ m = Network(f, f.len, b)
  OBVIOUS
<1>4. PICK x, y : x = Transport(f, cap, n) /\ y = Transport(f, f.len, m)
  OBVIOUS
<1>5. Parsed(f, cap) = x /\ Parsed(f, f.len) = y
  BY <1>2, <1>3, <1>4 DEF Parsed
<1>6. /\ Stage(f, a) /\ Stage(f, b) /\ Agree(a, b)
      /\ Going(a) => a.ext = 0
      /\ Going(b) => /\ VlanTags(f) <= 2 /\ b.ext = 0 /\ b.off = L3Start(f) /\ b.end = f.len
      /\ VlanTags(f) <= 2 /\ L3Start(f) <= f.len => Going(b)
  BY <1>1, <1>2, LinkStage
<1>7. /\ Stage(f, n) /\ Later(a, n)
      /\ Going(n) => n.t.l4_proto = f.proto /\ "ADDR_VALID" \in n.t.flags
      /\ a = b => Agree(n, m)
  BY <1>3, <1>6, NetworkStage
<1>8. /\ Stage(f, m) /\ Later(b, m)
      /\ Going(m) =>
           /\ m.t.l4_proto = f.proto /\ "ADDR_VALID" \in m.t.flags
           /\ \/ Sound4(f, b.off, b.end) /\ m.off = b.off + f.ihl /\ m.end = b.off + f.total
              \/ Sound6(f, b.off, b.end) /\ m.off = L4From(f, b.off) /\ m.end = b.off + 40 + f.total
      /\ Going(b) /\ Sound4(f, b.off, b.end) => Going(m)
      /\ /\ Going(b) /\ Sound6(f, b.off, b.end) /\ f.proto # "esp"
         /\ L4From(f, b.off) <= b.off + 40 + f.total
         => Going(m)
  BY <1>1, <1>3, <1>6, NetworkStage
<1>9. Agree(n, m)
  <2>1. a.t.vlan_count \in Nat /\ b.t.vlan_count \in Nat /\ m.t.vlan_count \in Nat
    BY <1>6, <1>8, Typing
  <2> QED
    BY <1>6, <1>7, <1>8, <2>1, AgreeOn
<1>10. Answer(f, x) /\ Later(n, x) /\ Cut(n, x, Transport(f, f.len, n))
  BY <1>4, <1>7, TransportStage
<1>11. /\ Answer(f, y) /\ Later(m, y)
       /\ "PORTS_VALID" \in y.t.flags <=> Going(m) /\ TransportSound(f, m.off, m.end)
       /\ "PORTS_VALID" \in y.t.flags => y.rc = "OK"
  BY <1>1, <1>4, <1>8, TransportStage
<1>12. Agree(x, y)
  <2>1. n.t.vlan_count \in Nat /\ m.t.vlan_count \in Nat /\ y.t.vlan_count \in Nat
    <3>1. y.t.vlan_count \in Nat
      BY <1>11 DEF Answer
    <3> QED
      BY <1>7, <1>8, <3>1, Typing
  <2>2. n = m => Agree(x, y)
    BY <1>4, <1>10, <1>11 DEF Cut, Agree, Later
  <2> QED
    BY <1>9, <1>10, <1>11, <2>1, <2>2, AgreeOn
<1>13. ASSUME Going(m), TransportSound(f, m.off, m.end) PROVE HasPorts(f)
  <2>1. Going(b)
    BY <1>8, <1>13 DEF Later
  <2>2. VlanTags(f) <= 2 /\ b.off = L3Start(f) /\ b.end = f.len
    BY <1>6, <2>1
  <2>3. CASE Sound4(f, b.off, b.end) /\ m.off = b.off + f.ihl /\ m.end = b.off + f.total
    <3>1. Ip4Sound(f)
      BY <2>2, <2>3, SoundHeaders
    <3> QED
      BY <1>13, <2>2, <2>3, <3>1 DEF HasPorts
  <2>4. CASE Sound6(f, b.off, b.end) /\ m.off = L4From(f, b.off) /\ m.end = b.off + 40 + f.total
    <3>1. Ip6Sound(f) /\ L4Start(f) = L4From(f, L3Start(f))
      BY <2>2, <2>4, SoundHeaders
    <3> QED
      BY <1>13, <2>2, <2>4, <3>1 DEF HasPorts
  <2> QED
    BY <1>8, <1>13, <2>3, <2>4
<1>14. ASSUME HasPorts(f) PROVE Going(m) /\ TransportSound(f, m.off, m.end)
  <2>1. VlanTags(f) <= 2 /\ (Ip4Sound(f) \/ Ip6Sound(f))
    BY <1>14 DEF HasPorts
  <2>2. Going(b) /\ b.off = L3Start(f) /\ b.end = f.len /\ L3Start(f) \in Nat
    BY <1>6, <2>1, SoundHeaders
  <2>3. CASE Ip4Sound(f) /\ TransportSound(f, L3Start(f) + f.ihl, L3Start(f) + f.total)
    <3>1. Sound4(f, b.off, b.end) /\ ~Sound6(f, b.off, b.end)
      BY <2>2, <2>3, SoundHeaders DEF Sound4, Sound6
    <3> QED
      BY <1>8, <2>2, <2>3, <3>1
  <2>4. CASE Ip6Sound(f) /\ TransportSound(f, L4Start(f), L3Start(f) + 40 + f.total)
    <3>1. Sound6(f, b.off, b.end) /\ ~Sound4(f, b.off, b.end) /\ L4Start(f) = L4From(f, b.off)
      BY <2>2, <2>4, SoundHeaders DEF Sound4, Sound6
    <3>2. L4From(f, b.off) \in Nat
      BY <1>1, <1>6, <2>2, <3>1, IPv6ExtensionsStage DEF Sound6
    <3>3. f.proto # "esp" /\ L4From(f, b.off) <= b.off + 40 + f.total
      BY <1>1, <2>2, <2>4, <3>1, <3>2 DEF TransportSound
    <3> QED
      BY <1>8, <2>2, <2>4, <3>1, <3>3
  <2> QED
    BY <1>14, <2>3, <2>4 DEF HasPorts
<1> QED
  BY <1>5, <1>10, <1>11, <1>12, <1>13, <1>14

\* Parse in terms of the parser's last state.
LEMMA ParseIs ==
  ASSUME NEW f, NEW cap
  PROVE  Parse(f, cap) = [status |-> Parsed(f, cap).rc, tuple |-> Parsed(f, cap).t]
BY DEF Parse, Parsed, Link

\* A parse of part of a packet that does not say what a parse of the whole
\* packet says calls it truncated and claims no more.
LEMMA CutParse ==
  ASSUME NEW f \in Frame, NEW cap \in 0 .. f.len
  PROVE  \/ Parse(f, cap) = Parse(f, f.len)
         \/ /\ Parse(f, cap).status = "TRUNCATED"
            /\ Parse(f, cap).tuple.flags \subseteq Parse(f, f.len).tuple.flags
            /\ Parse(f, cap).tuple.vlan_count <= Parse(f, f.len).tuple.vlan_count
<1>1. cap \in Nat /\ cap <= f.len
  BY DEF Frame
<1>2. Agree(Parsed(f, cap), Parsed(f, f.len))
  BY <1>1, ParsedFacts
<1> QED
  BY <1>2, ParseIs DEF Agree

\* The parser finds ports in the packets that have them and in no other.
LEMMA PortsFound ==
  ASSUME NEW f \in Frame
  PROVE  /\ Parse(f, f.len).status = "OK"
         /\ "PORTS_VALID" \in Parse(f, f.len).tuple.flags
         <=> HasPorts(f)
<1>1. f.len \in Nat /\ f.len <= f.len
  BY DEF Frame
<1>2. /\ "PORTS_VALID" \in Parsed(f, f.len).t.flags <=> HasPorts(f)
      /\ "PORTS_VALID" \in Parsed(f, f.len).t.flags => Parsed(f, f.len).rc = "OK"
  BY <1>1, ParsedFacts
<1> QED
  BY <1>2, ParseIs

-----------------------------------------------------------------------------
(* The packet on its way                                                   *)

\* A packet is one of Frames, under one of Setups, all the way.
LEMMA Arrived == Spec => [](frame \in Frames /\ setup \in Setups)
<1>1. Init => frame \in Frames /\ setup \in Setups
  BY DEF Init
<1>2. frame \in Frames /\ setup \in Setups /\ [Next]_vars => (frame \in Frames /\ setup \in Setups)'
  <2> SUFFICES ASSUME frame \in Frames, setup \in Setups, [Next]_vars
               PROVE  frame' = frame /\ setup' = setup
    OBVIOUS
  <2> QED
    BY DEF Next, SwapRules, es_xdp, es_xsk, NoXdp, es_observe, LookupRules, LookupExact, LookupDefault,
           Act, Finished, vars
<1> QED
  BY <1>1, <1>2, PTL DEF Spec

\* ParserExact: a shorter buffer only ever turns an answer into TRUNCATED, and
\* the parser of bpf/packet_parser.bpf.h promises ports exactly for a packet
\* whose headers are complete and consistent, for every packet there is.
THEOREM ParserIsExact == Spec => []ParserExact
<1>1. frame \in Frames => ParserExact
  <2> SUFFICES ASSUME frame \in Frames PROVE ParserExact
    OBVIOUS
  <2>1. frame \in Frame
    BY PathAssumption
  <2>2. \A cap \in 0 .. frame.len :
           \/ Parse(frame, cap) = Parse(frame, frame.len)
           \/ /\ Parse(frame, cap).status = "TRUNCATED"
              /\ Parse(frame, cap).tuple.flags \subseteq Parse(frame, frame.len).tuple.flags
              /\ Parse(frame, cap).tuple.vlan_count <= Parse(frame, frame.len).tuple.vlan_count
    BY <2>1, CutParse
  <2>3. /\ Parse(frame, frame.len).status = "OK"
        /\ "PORTS_VALID" \in Parse(frame, frame.len).tuple.flags
        <=> HasPorts(frame)
    BY <2>1, PortsFound
  <2> QED
    BY <2>2, <2>3 DEF ParserExact
<1> QED
  BY <1>1, Arrived, PTL

\* The smallest of three numbers.
LEMMA MinOfThree ==
  ASSUME NEW a \in Nat, NEW b \in Nat, NEW c \in Nat
  PROVE  Min({a, b, c}) \in Nat /\ Min({a, b, c}) <= a /\ Min({a, b, c}) <= b /\ Min({a, b, c}) <= c
<1>1. \E x \in {a, b, c} : \A y \in {a, b, c} : x <= y
  OBVIOUS
<1>2. Min({a, b, c}) \in {a, b, c} /\ \A y \in {a, b, c} : Min({a, b, c}) <= y
  BY <1>1 DEF Min
<1> QED
  BY <1>2

\* What the observer works with, whether it looked at the packet or not.
LEMMA ClassifiedFacts ==
  ASSUME NEW f \in Frame, NEW o, NEW loaded \in BOOLEAN
  PROVE  LET parsed == Classified(f, o, loaded)
         IN  /\ parsed.status \in Codes \cup {"SKIPPED"}
             /\ parsed.tuple.flags \subseteq Flags /\ parsed.tuple.vlan_count \in 0 .. 2
             /\ "PORTS_VALID" \in parsed.tuple.flags =>
                  /\ "ADDR_VALID" \in parsed.tuple.flags /\ "FRAGMENT" \notin parsed.tuple.flags
                  /\ parsed.tuple.l4_proto \in {"tcp", "udp"}
<1>1. f.len \in Nat
  BY DEF Frame
<1>2. PICK cap : cap = Min({f.len, ES_PARSE_BYTES, f.len})
  OBVIOUS
<1>3. cap \in Nat /\ cap <= f.len
  BY <1>1, <1>2, MinOfThree DEF ES_PARSE_BYTES
<1>4. es_parse(f, f.len) = Parse(f, cap)
  BY <1>2 DEF es_parse
<1>5. Answer(f, Parsed(f, cap))
  BY <1>3, ParsedFacts
<1>6. /\ es_parse(f, f.len).status = Parsed(f, cap).rc /\ es_parse(f, f.len).tuple = Parsed(f, cap).t
  BY <1>4, ParseIs
<1>7. CASE Classified(f, o, loaded) = es_parse(f, f.len)
  BY <1>5, <1>6, <1>7 DEF Answer
<1>8. CASE \E c \in {"SKIPPED", "TRUNCATED"} : Classified(f, o, loaded) = [status |-> c, tuple |-> NoTuple]
  BY <1>8 DEF NoTuple, Codes
<1> QED
  BY <1>7, <1>8 DEF Classified

\* The bytes of the packet that go with a record.
LEMMA SnapshotFacts ==
  ASSUME NEW f \in Frame, NEW o \in Settings, NEW copied \in BOOLEAN
  PROVE  /\ Snapshot(f, o, copied).captured_len <= ES_SNAPSHOT_MAX
         /\ Snapshot(f, o, copied).captured_len <= f.len
         /\ Snapshot(f, o, copied).flags \subseteq {"PREFIX_TRUNCATED", "COPY_FAILED"}
         /\ "COPY_FAILED" \in Snapshot(f, o, copied).flags => Snapshot(f, o, copied).captured_len = 0
<1>1. f.len \in Nat /\ o.snapshot_bytes \in Nat /\ ES_SNAPSHOT_MAX \in Nat
  BY DEF Frame, Settings, ES_SNAPSHOT_MAX
<1>2. Wanted(f, o) \in Nat /\ Wanted(f, o) <= ES_SNAPSHOT_MAX /\ Wanted(f, o) <= f.len
  BY <1>1, MinOfThree DEF Wanted
<1> QED
  BY <1>1, <1>2 DEF Snapshot

\* The consumer accepts every record that the observer makes.
LEMMA EventDecodes ==
  ASSUME NEW f \in Frame, NEW o \in Settings, NEW loaded \in BOOLEAN, NEW copied \in BOOLEAN
  PROVE  DecodeEvent(EventOf(f, o, Classified(f, o, loaded), copied))
<1>1. PICK p, x : p = Classified(f, o, loaded) /\ x = Snapshot(f, o, copied)
  OBVIOUS
<1>2. /\ p.status \in Codes \cup {"SKIPPED"}
      /\ p.tuple.flags \subseteq Flags /\ p.tuple.vlan_count \in 0 .. 2
      /\ "PORTS_VALID" \in p.tuple.flags =>
            /\ "ADDR_VALID" \in p.tuple.flags /\ "FRAGMENT" \notin p.tuple.flags
            /\ p.tuple.l4_proto \in {"tcp", "udp"}
  BY <1>1, ClassifiedFacts
<1>3. /\ x.captured_len <= ES_SNAPSHOT_MAX /\ x.captured_len <= f.len
      /\ x.flags \subseteq {"PREFIX_TRUNCATED", "COPY_FAILED"}
      /\ "COPY_FAILED" \in x.flags => x.captured_len = 0
  BY <1>1, SnapshotFacts
<1>4. PICK e : e = EventOf(f, o, p, copied)
  OBVIOUS
<1>5. /\ e.original_len = f.len /\ e.parse_status = p.status /\ e.tuple = p.tuple
      /\ e.captured_len = x.captured_len
      /\ e.flags = x.flags \cup (IF f.stripped THEN {"VLAN_STRIPPED"} ELSE {})
  BY <1>1, <1>4 DEF EventOf
<1>6. e.parse_status \in {"OK", "TRUNCATED", "UNSUPPORTED", "MALFORMED", "FRAGMENT", "SKIPPED"}
  BY <1>2, <1>5 DEF Codes
<1>7. /\ e.flags \subseteq {"PREFIX_TRUNCATED", "COPY_FAILED", "VLAN_STRIPPED"}
      /\ "COPY_FAILED" \in e.flags => e.captured_len = 0
  BY <1>3, <1>5
<1>8. e.tuple.flags \subseteq {"L2_VALID", "ADDR_VALID", "PORTS_VALID", "FRAGMENT"} /\ e.tuple.vlan_count <= 2
  BY <1>2, <1>5 DEF Flags
<1> QED
  BY <1>1, <1>2, <1>3, <1>4, <1>5, <1>6, <1>7, <1>8 DEF DecodeEvent

\* RecordsDecode: whatever the packet, the settings and the outcome of the
\* copies, DecodeEvent of inc/TelemetryTypes.hpp accepts what es_observe of
\* bpf/elephantshrew_tc.bpf.c publishes.
THEOREM EveryRecordDecodes == Spec => []RecordsDecode
<1>1. Init => RecordsDecode
  BY DEF Init, RecordsDecode
<1>2. ASSUME RecordsDecode, frame \in Frames, setup \in Setups, [Next]_vars PROVE RecordsDecode'
  <2>1. ASSUME NEW l \in BOOLEAN, NEW c \in BOOLEAN, NEW s \in BOOLEAN, es_observe(l, c, s)
        PROVE  RecordsDecode'
    <3>1. frame \in Frame /\ setup.observer \in Settings
      BY <1>2, PathAssumption
    <3>2. DecodeEvent(EventOf(frame, setup.observer, Classified(frame, setup.observer, l), c))
      BY <3>1, EventDecodes
    <3>3. record' \subseteq {EventOf(frame, setup.observer, Classified(frame, setup.observer, l), c)}
      BY <2>1 DEF es_observe
    <3> QED
      BY <3>2, <3>3 DEF RecordsDecode
  <2>2. CASE LookupRules
    BY <2>2 DEF LookupRules, RecordsDecode
  <2>3. CASE record' = record
    BY <1>2, <2>3 DEF RecordsDecode
  <2>4. ASSUME NEW t, SwapRules(t) PROVE record' = record
    BY <2>4 DEF SwapRules, pathVars
  <2>5. ASSUME NEW b, es_xdp(b) \/ es_xsk(b) \/ LookupExact(b) \/ Act(b) PROVE record' = record
    BY <2>5 DEF es_xdp, es_xsk, LookupExact, Act
  <2>6. NoXdp \/ LookupDefault \/ Finished \/ UNCHANGED vars => record' = record
    BY DEF NoXdp, LookupDefault, Finished, vars, pathVars
  <2> QED
    BY <1>2, <2>1, <2>2, <2>3, <2>4, <2>5, <2>6 DEF Next
<1> QED
  BY <1>1, <1>2, Arrived, PTL DEF Spec
=============================================================================
