----------------------------- MODULE MCTunnel ------------------------------
(* Tunnel with two clusters, two HTTP ports, a SOCKS port and a stranger's. *)
EXTENDS Tunnel

CONSTANTS http, other, socks, extra

MCPorts == {http, other, socks, extra}
MCPolicies == {{http}, {other}, {http, socks}}
=============================================================================
