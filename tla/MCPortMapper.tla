---------------------------- MODULE MCPortMapper ----------------------------
(* Instances of PortMapper: one port, small tables. *)
EXTENDS PortMapper, TLC

onePort == {4662}
onlyUpnp == {{"UPNP"}}
bothProtocols == {{"UPNP", "NATPMP"}}
=============================================================================
