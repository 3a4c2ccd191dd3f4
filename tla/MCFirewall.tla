----------------------------- MODULE MCFirewall -----------------------------
(* Rules of the kinds a RouterOS firewall holds: the default configuration's *)
(* accepts and drops, a drop of what is in no list of the LAN's, rules on    *)
(* something doctor cannot read, a jump, an invalid rule and rules that      *)
(* still name a deleted list.                                                *)
EXTENDS Firewall

M(k, v) == [key |-> k, value |-> v, neg |-> FALSE]
Not(k, v) == [key |-> k, value |-> v, neg |-> TRUE]
R(t, c, a, m) == [table |-> t, chain |-> c, action |-> a, invalid |-> FALSE, match |-> m]
Raw(a, m) == R("raw", "prerouting", a, m)
Forward(a, m) == R("filter", "forward", a, m)
Input(a, m) == R("filter", "input", a, m)

DropOthers == {Not("in-interface-list", "LAN")}
DropDeleted == {Not("in-interface-list", "*2000010")}
Marked == {M("connection-mark", "any")}
Established == {M("connection-state", "established")}

MCRules == {
  Raw("drop", DropOthers),
  Raw("drop", {Not("src-address-list", "LANs"), M("in-interface", "veth")}),
  Raw("accept", {M("dst-address", "elsewhere"), M("src-port", "agent")}),
  Raw("other", {M("in-interface", "all-ethernet")}),
  Forward("accept", Established),
  Forward("accept", Marked),
  Forward("drop", Marked),
  Forward("drop", DropOthers),
  Forward("drop", DropDeleted),
  Forward("drop", {M("in-interface-list", "DMZ"), Not("connection-nat-state", "dstnat")}),
  Forward("jump", {M("protocol", "tcp")}),
  [Forward("drop", {}) EXCEPT !.invalid = TRUE],
  Input("accept", {M("dst-address", "loopback")}),
  Input("accept", Marked),
  Input("drop", DropOthers),
  Input("drop", {M("protocol", "udp"), M("dst-port", "dns"), M("in-interface-list", "WAN")}),
  Input("drop", {M("in-interface-list", "dynamic"), M("port", "dns")}),
  Input("jump", {})}
=============================================================================
