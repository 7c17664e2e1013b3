------------------------------ MODULE MCMdnsService ------------------------------
(***************************************************************************)
(* A small instance of MdnsService: a host with a network whose usable     *)
(* addresses come after others, with another address, and with IPv6 only.  *)
(***************************************************************************)
EXTENDS MdnsService

CONSTANTS lo, a1, a2, a3, b1, b2  \* addresses

Interface(address, kind) == [address |-> address, kind |-> kind]

MCNetworks ==
    {<<Interface(lo, "loopback"), Interface(a3, "pointopoint"), Interface(b2, "link_local"),
       Interface(b1, "lan"), Interface(a1, "lan"), Interface(a2, "lan")>>,
     <<Interface(a1, "down"), Interface(a2, "lan")>>,
     <<Interface(b1, "lan"), Interface(lo, "loopback")>>}

\* Two services are alike.
Symmetric == Permutations(Service)
=================================================================================
