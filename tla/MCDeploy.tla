------------------------------ MODULE MCDeploy ------------------------------
(* A tar install in both lists and a pulled one that is exposed, on two      *)
(* veths; an operator with a membership of his own.                          *)
EXTENDS Deploy

TarShape == [veth |-> "v1", ifaceList |-> "LAN", addrList |-> "none",
             expose |-> "no", remote |-> FALSE]
PulledShape == [veth |-> "v2", ifaceList |-> "none", addrList |-> "LANs",
                expose |-> "lan", remote |-> TRUE]

MCShapes == {TarShape, PulledShape}
MCLegacy == {TarShape}
MCTheirs == {Step("iface-member", <<"v1", "LAN">>), Step("expose-nat", <<"lan">>)}
MCItems == {"mikroscope_cpu", "invoices"}
MCOurItems == {"mikroscope_cpu"}
=============================================================================
