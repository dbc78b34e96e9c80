---------------------------- MODULE MCProxySystem ---------------------------
(* A pool of two whose first client asks for a file and the second for a   *)
(* missing one; and one client of its own process, asking for a missing    *)
(* file, beside a free client that asks for a file.                        *)
EXTENDS ProxySystem

CONSTANTS c1, c2
MCPools == {{c1}, {c1, c2}}
MCInit ==
    /\ ProxySystemInit
    /\ members = {c1, c2} => wanted[c1] = "file" /\ wanted[c2] = "missing"
    /\ members = {c1}     => wanted[c1] = "missing" /\ wanted[c2] = "file"
MCSpec == MCInit /\ [][ProxySystemNext]_proxySystemVars /\ ProxySystemFairness
=============================================================================
