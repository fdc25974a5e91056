---------------------------- MODULE MCSuccessor ----------------------------
(***************************************************************************)
(* Two NICs, addresses with short, long and no lease, routes in either     *)
(* order, more than a link or the text holds, a NIC the successor owns     *)
(* from boot, and two interfaces on one function.                          *)
(***************************************************************************)
EXTENDS Successor

CONSTANTS p1, p2, n1, n2

If(name, pci, index) == [name |-> name, pci |-> pci, index |-> index]
Addr(index, net, valid, preferred) ==
  [index |-> index, global |-> TRUE, net |-> net, valid |-> valid, preferred |-> preferred]
LinkLocal(index, net) == [Addr(index, net, None, None) EXCEPT !.global = FALSE]
Route(index, dst, gw) == [index |-> index, config |-> TRUE, dst |-> dst, gw |-> gw]
KernelRoute(index, dst) == [Route(index, dst, None) EXCEPT !.config = FALSE]

Two == <<If("lo", None, 1), If("eth0", p1, 2), If("eth1", p2, 3)>>
OnOne == <<If("usb0", p2, 3), If("usb1", p2, 4)>>
Three == <<If("eth0", p1, 2), If("eth1", p2, 3), If("eth2", p2, 4)>>

MCNetworks ==
  {[ifs |-> Two,
    addrs |-> <<Addr(2, n1, 2, 1), LinkLocal(2, n2), Addr(3, n2, None, None)>>,
    routes |-> <<Route(2, n2, n1), KernelRoute(2, n1)>>],
   [ifs |-> Two,
    addrs |-> <<Addr(2, n1, 1, None)>>,
    routes |-> <<Route(2, n1, n2), Route(2, n2, None)>>],
   [ifs |-> Three,
    addrs |-> <<Addr(2, n1, None, None), Addr(2, n2, None, None), Addr(2, n1, 1, 1)>>,
    routes |-> <<>>],
   [ifs |-> Two,
    addrs |-> <<Addr(2, n1, None, None), Addr(2, n2, None, None), Addr(3, n1, 1, 1)>>,
    routes |-> <<Route(2, n1, n2), Route(2, n2, None), Route(3, n1, None), Route(3, n2, n1)>>],
   [ifs |-> OnOne, addrs |-> <<Addr(3, n1, None, None)>>, routes |-> <<>>]}
MCNames == <<"eth0", "eth1">>
=============================================================================
