------------------------------ MODULE Netsnap ------------------------------
(***************************************************************************)
(* The network identity (lib/netsnap.c, rtnl.c).  In the predecessor it is *)
(* collected from sysfs and two rtnetlink dumps and written as lines of    *)
(* text; kmorphd reads the lines and, once it owns the devices, puts the   *)
(* identity back over rtnetlink while drivers still create interfaces and  *)
(* leases run out.  A subnet stands for an address or a gateway in it; the *)
(* MAC and the MTU are left out, the kernel takes both with the name.      *)
(***************************************************************************)
EXTENDS Integers, Sequences, SequencesExt, FiniteSets

CONSTANTS NETWORKS,      \* what the predecessor may look like
          SKIP,          \* functions handed to the successor at boot
          KERNEL_NAMES,  \* the names drivers give their interfaces, in order
          MAX_LINKS, MAX_ADDRS, MAX_ROUTES, TEXT_MAX,
          MAX_CLOCK,     \* how far the wall clock is followed
          MAX_ERRORS,    \* failures of sendto(), recv() and the kernel
          None

VARIABLES network,   \* the predecessor's interfaces, addresses and routes
          clock,     \* the wall clock, shared by both kernels
          text,      \* the lines the predecessor sends
          snap,      \* struct netsnap in kmorphd
          devs,      \* the successor's interfaces, by function
          i, j,      \* the link netsnap_apply() is at, and the request
          at,        \* where it stands
          sock,      \* its rtnetlink socket: sequence number and queue
          restored,  \* what it returns for each link
          errors

netVars == <<network, clock, text, snap, devs, i, j, at, sock, restored, errors>>

\* An error in place of links or lines.
Malformed == <<[kind |-> "malformed"]>>
-----------------------------------------------------------------------------
(* Collecting, formatting and parsing.                                     *)

\* collect_addr(): a lifetime becomes a point in time, 0 for one without end.
Until(life) == IF life = None THEN 0 ELSE clock + life

\* netsnap_collect(): PCI interfaces in directory order up to MAX_LINKS, then
\* what each dump says of them; too much for one link fails the whole.
netsnap_collect(n) ==
  LET pci == SelectSeq(n.ifs, LAMBDA f : f.pci # None /\ f.pci \notin SKIP)
      ifs == SubSeq(pci, 1, IF Len(pci) < MAX_LINKS THEN Len(pci) ELSE MAX_LINKS)
      addrs(f) == SelectSeq(n.addrs, LAMBDA a : a.index = f.index /\ a.global)
      routes(f) == SelectSeq(n.routes, LAMBDA r : r.index = f.index /\ r.config)
      addr(a) == [net |-> a.net, valid |-> Until(a.valid), preferred |-> Until(a.preferred)]
      link(f) == [pci |-> f.pci, name |-> f.name,
                  addrs |-> [k \in 1..Len(addrs(f)) |-> addr(addrs(f)[k])],
                  routes |-> [k \in 1..Len(routes(f)) |->
                                [dst |-> routes(f)[k].dst, gw |-> routes(f)[k].gw]]]
      s == [k \in 1..Len(ifs) |-> link(ifs[k])]
  IN  IF \E k \in 1..Len(s) : Len(s[k].addrs) > MAX_ADDRS \/ Len(s[k].routes) > MAX_ROUTES
        THEN Malformed ELSE s

\* put_until(), get_until(): "forever", or a number that is not zero.
put_until(t) == IF t = 0 THEN <<"forever">> ELSE <<"seconds", t>>
get_until(w) == IF w = <<"forever">> THEN 0 ELSE w[2]

\* A mutant of netsnap_format(): both lifetimes are written as the valid one.
FormatsValidTwice(s) ==
  LET line(l) ==
        <<[kind |-> "link", pci |-> l.pci, name |-> l.name]>>
        \o [k \in 1..Len(l.addrs) |->
             [kind |-> "addr", pci |-> l.pci, net |-> l.addrs[k].net,
              valid |-> put_until(l.addrs[k].valid),
              preferred |-> put_until(l.addrs[k].valid)]]
        \o [k \in 1..Len(l.routes) |->
             [kind |-> "route", pci |-> l.pci, dst |-> l.routes[k].dst, gw |-> l.routes[k].gw]]
      lines == FlattenSeq([k \in 1..Len(s) |-> line(s[k])])
  IN  IF Len(lines) > TEXT_MAX THEN Malformed ELSE lines

\* netsnap_format(): a link's line, then its addresses and routes, each keyed
\* by the function.  TEXT_MAX counts lines.
netsnap_format(s) ==
  LET line(l) ==
        <<[kind |-> "link", pci |-> l.pci, name |-> l.name]>>
        \o [k \in 1..Len(l.addrs) |->
             [kind |-> "addr", pci |-> l.pci, net |-> l.addrs[k].net,
              valid |-> put_until(l.addrs[k].valid),
              preferred |-> put_until(l.addrs[k].preferred)]]
        \o [k \in 1..Len(l.routes) |->
             [kind |-> "route", pci |-> l.pci, dst |-> l.routes[k].dst, gw |-> l.routes[k].gw]]
      lines == FlattenSeq([k \in 1..Len(s) |-> line(s[k])])
  IN  IF Len(lines) > TEXT_MAX THEN Malformed ELSE lines

\* netsnap_text(): -errno of either.
netsnap_text(n) ==
  LET s == netsnap_collect(n) IN IF s = Malformed THEN Malformed ELSE netsnap_format(s)

link_by_pci(s, pci) == SelectInSeq(s, LAMBDA l : l.pci = pci)

parse_link(s, line) ==
  IF Len(s) = MAX_LINKS \/ link_by_pci(s, line.pci) # 0
    THEN Malformed
    ELSE Append(s, [pci |-> line.pci, name |-> line.name, addrs |-> <<>>, routes |-> <<>>])

parse_addr(s, line) ==
  LET k == link_by_pci(s, line.pci)
      a == [net |-> line.net, valid |-> get_until(line.valid),
            preferred |-> get_until(line.preferred)]
  IN  IF k = 0 THEN Malformed
      ELSE IF Len(s[k].addrs) = MAX_ADDRS THEN Malformed
      ELSE [s EXCEPT ![k].addrs = Append(@, a)]

parse_route(s, line) ==
  LET k == link_by_pci(s, line.pci)
  IN  IF k = 0 THEN Malformed
      ELSE IF Len(s[k].routes) = MAX_ROUTES THEN Malformed
      ELSE [s EXCEPT ![k].routes = Append(@, [dst |-> line.dst, gw |-> line.gw])]

\* netsnap_parse(): line by line; the first one refused refuses the text.
netsnap_parse(lines) ==
  FoldLeft(LAMBDA s, line :
             CASE s = Malformed -> Malformed
               [] line.kind = "link" -> parse_link(s, line)
               [] line.kind = "addr" -> parse_addr(s, line)
               [] OTHER -> parse_route(s, line),
           <<>>, lines)
-----------------------------------------------------------------------------
(* Arming, and the successor's kernel.                                     *)

Nics == {network.ifs[k].pci : k \in 1..Len(network.ifs)} \ ({None} \cup SKIP)

NetInit == /\ network \in NETWORKS
           /\ clock = 1
           /\ text = <<>> /\ snap = <<>>
           /\ devs = <<>>
           /\ i = 1 /\ j = 0
           /\ at = "armed"
           /\ sock = [seq |-> 0, queue |-> <<>>]
           /\ restored = <<>>
           /\ errors = 0

Tick == /\ clock < MAX_CLOCK
        /\ clock' = clock + 1
        /\ UNCHANGED <<network, text, snap, devs, i, j, at, sock, restored, errors>>

\* The last identity the predecessor sends: forward_network() of arm, or
\* watch_push().  One that cannot be collected is not sent.
Forward == /\ at = "armed"
           /\ text' = netsnap_text(network)
           /\ at' = "sent"
           /\ UNCHANGED <<network, clock, snap, devs, i, j, sock, restored, errors>>

\* load_network(), answer_network(): lines that do not parse are not used.
Load(lines) ==
  /\ at = "sent"
  /\ LET s == IF lines = Malformed THEN Malformed ELSE netsnap_parse(lines)
     IN  snap' = IF s = Malformed THEN <<>> ELSE s
  /\ at' = "find"
  /\ UNCHANGED <<network, clock, text, devs, i, j, sock, restored, errors>>

NamesUsed == {devs[p].name : p \in DOMAIN devs}

\* A driver bound in ops_adopt_devices() creates its interface.
DriverCreates(p) ==
  /\ at \notin {"armed", "sent"} /\ p \in Nics \ DOMAIN devs
  /\ LET free == {k \in 1..Len(KERNEL_NAMES) : KERNEL_NAMES[k] \notin NamesUsed}
         name == KERNEL_NAMES[CHOOSE k \in free : \A m \in free : k <= m]
     IN  devs' = [q \in DOMAIN devs \cup {p} |->
                    IF q = p THEN [name |-> name, up |-> FALSE, addrs |-> {}, routes |-> {}]
                             ELSE devs[q]]
  /\ UNCHANGED <<network, clock, text, snap, i, j, at, sock, restored, errors>>

\* The kernel keeps an address until its lifetime is over.
Ends(life) == IF life = None THEN 0 ELSE clock + life
Alive(a) == a.valid = 0 \/ a.valid > clock

\* A gateway is reached through a subnet of the interface.
Reaches(d, gw) == \/ \E a \in d.addrs : a.net = gw /\ Alive(a)
                  \/ \E r \in d.routes : r.gw = None /\ r.dst = gw

\* The kernel's answer to a request on function p when nothing fails.
Answer(p, r) ==
  CASE r.kind = "set" /\ r.name # devs[p].name /\ r.name \in NamesUsed -> "EEXIST"
    [] r.kind = "route" /\ ~devs[p].up -> "ENETDOWN"
    [] r.kind = "route" /\ r.gw # None /\ ~Reaches(devs[p], r.gw) -> "ENETUNREACH"
    [] OTHER -> "ok"

\* What an accepted request does.
Apply(p, r) ==
  CASE r.kind = "set" -> [devs EXCEPT ![p].name = r.name]
    [] r.kind = "up" -> [devs EXCEPT ![p].up = TRUE]
    [] r.kind = "addr" -> [devs EXCEPT ![p].addrs = @ \cup
                             {[net |-> r.net, valid |-> Ends(r.valid),
                               preferred |-> Ends(r.preferred)]}]
    [] OTHER -> [devs EXCEPT ![p].routes = @ \cup {[dst |-> r.dst, gw |-> r.gw]}]
-----------------------------------------------------------------------------
(* netsnap_apply().                                                        *)

\* A mutant of life_left(): the lifetime there was when it was collected.
GivesLeaseAgain(until) == IF until = 0 THEN None ELSE until - 1

life_left(until) == IF until = 0 THEN None
                    ELSE IF until > clock THEN until - clock ELSE 0

\* restore_addr(): the preferred lifetime is not longer than the valid one.
AddrRequest(a) ==
  LET valid == life_left(a.valid)
      preferred == life_left(a.preferred)
  IN  [kind |-> "addr", net |-> a.net, valid |-> valid,
       preferred |-> IF valid # None /\ (preferred = None \/ preferred > valid)
                       THEN valid ELSE preferred]

\* A mutant of restore_routes(): one pass, in the order of the dump.
OnePass(l) == [k \in 1..Len(l.routes) |->
                 [kind |-> "route", dst |-> l.routes[k].dst, gw |-> l.routes[k].gw]]

\* restore_routes(): those without a gateway, then those with one.
restore_routes(l) ==
  LET pass(g) == SelectSeq(l.routes, LAMBDA r : (r.gw # None) = g)
      both == pass(FALSE) \o pass(TRUE)
  IN  [k \in 1..Len(both) |-> [kind |-> "route", dst |-> both[k].dst, gw |-> both[k].gw]]

\* The requests for a link, in the order netsnap_apply() makes them.
Work(l) == <<[kind |-> "set", name |-> l.name], [kind |-> "up"]>>
           \o [k \in 1..Len(l.addrs) |-> AddrRequest(l.addrs[k])]
           \o restore_routes(l)

NextLink(up) == /\ restored' = Append(restored, up)
                /\ i' = i + 1
                /\ j' = 0
                /\ at' = "find"

\* find_netdev(): the interface is there, or did not come within the timeout.
Find == /\ at = "find" /\ i <= Len(snap)
        /\ snap[i].pci \in DOMAIN devs
        /\ at' = "send" /\ j' = 1
        /\ UNCHANGED <<network, clock, text, snap, devs, i, sock, restored, errors>>

\* A mutant of find_netdev(): it polls until the interface is there.
PollsForever == /\ at = "find" /\ i <= Len(snap)
                /\ snap[i].pci \notin DOMAIN devs
                /\ UNCHANGED netVars

FindTimesOut == /\ at = "find" /\ i <= Len(snap)
                /\ snap[i].pci \notin DOMAIN devs
                /\ NextLink(FALSE)
                /\ UNCHANGED <<network, clock, text, snap, devs, sock, errors>>

\* The interface was renamed between netdev_on() and if_nametoindex().
FindFails == /\ at = "find" /\ i <= Len(snap)
             /\ snap[i].pci \in DOMAIN devs /\ errors < MAX_ERRORS
             /\ errors' = errors + 1
             /\ NextLink(FALSE)
             /\ UNCHANGED <<network, clock, text, snap, devs, sock>>

ApplyDone == /\ at = "find" /\ i > Len(snap)
             /\ at' = "done"
             /\ UNCHANGED <<network, clock, text, snap, devs, i, j, sock, restored, errors>>

\* What a request's result means: a link that does not come up is given up,
\* anything else is only logged.
Returned(err) ==
  IF j = 2 /\ err # "ok" THEN NextLink(FALSE)
  ELSE IF j = Len(Work(snap[i])) THEN NextLink(TRUE)
  ELSE /\ j' = j + 1
       /\ at' = "send"
       /\ UNCHANGED <<i, restored>>

Request == Work(snap[i])[j]
Expired(r) == r.kind = "addr" /\ r.valid # None /\ r.valid = 0

\* restore_addr(): -ETIME without a request.
LeaseRanOut == /\ at = "send" /\ Expired(Request)
               /\ Returned("ETIME")
               /\ UNCHANGED <<network, clock, text, snap, devs, sock, errors>>

\* send_req() of rtnl_talk(): the kernel acts on it before sendto() returns and
\* queues the acknowledgement.
Send == /\ at = "send" /\ ~Expired(Request)
        /\ LET p == snap[i].pci
               ack(err) == [seq |-> sock.seq + 1, err |-> err]
           IN  \/ /\ devs' = IF Answer(p, Request) = "ok" THEN Apply(p, Request) ELSE devs
                  /\ sock' = [seq |-> sock.seq + 1,
                              queue |-> Append(sock.queue, ack(Answer(p, Request)))]
                  /\ UNCHANGED errors
               \/ /\ errors < MAX_ERRORS
                  /\ errors' = errors + 1
                  /\ sock' = [seq |-> sock.seq + 1, queue |-> Append(sock.queue, ack("EBUSY"))]
                  /\ UNCHANGED devs
        /\ at' = "recv"
        /\ UNCHANGED <<network, clock, text, snap, i, j, restored>>

SendFails == /\ at = "send" /\ ~Expired(Request) /\ errors < MAX_ERRORS
             /\ errors' = errors + 1
             /\ sock' = [sock EXCEPT !.seq = @ + 1]
             /\ Returned("ENOBUFS")
             /\ UNCHANGED <<network, clock, text, snap, devs>>

\* A mutant of receive(): the sequence number is not looked at.
TakesAnyAck(m) == TRUE

OwnAck(m) == m.seq = sock.seq

\* receive(): answers to earlier requests are passed over.
Receive ==
  /\ at = "recv" /\ sock.queue # <<>>
  /\ sock' = [sock EXCEPT !.queue = Tail(@)]
  /\ IF OwnAck(Head(sock.queue))
       THEN Returned(Head(sock.queue).err)
       ELSE UNCHANGED <<i, j, at, restored>>
  /\ UNCHANGED <<network, clock, text, snap, devs, errors>>

\* recv() fails; the acknowledgement is still queued, or was dropped.
ReceiveFails ==
  /\ at = "recv" /\ errors < MAX_ERRORS
  /\ errors' = errors + 1
  /\ \/ UNCHANGED sock
     \/ sock' = [sock EXCEPT !.queue = <<>>]
  /\ Returned("ENOBUFS")
  /\ UNCHANGED <<network, clock, text, snap, devs>>

ApplyStep == \/ Find \/ FindTimesOut \/ FindFails \/ ApplyDone \/ LeaseRanOut
             \/ Send \/ SendFails \/ Receive \/ ReceiveFails

NetNext == Tick \/ Forward \/ Load(text) \/ ApplyStep \/ \E p \in Nics : DriverCreates(p)

\* kmorphd runs netsnap_apply() to its end.
NetSpec == NetInit /\ [][NetNext]_netVars /\ WF_netVars(ApplyStep)
-----------------------------------------------------------------------------
(* Properties.                                                             *)

\* test_netsnap.c "a_snapshot_survives_formatting", netsnap_collect(): whatever
\* is collected and fits the text is read back as it was.
SnapshotReadBack ==
  [][text' # text /\ text' # Malformed => netsnap_parse(text') = netsnap_collect(network)]_netVars

OneInterfaceEach ==
  \A k, m \in 1..Len(network.ifs) :
    network.ifs[k].pci = network.ifs[m].pci => k = m \/ network.ifs[k].pci \in {None} \cup SKIP

\* The same for machines with one interface on each PCI function.
FunctionsReadBack ==
  [][text' # text /\ text' # Malformed /\ OneInterfaceEach =>
       netsnap_parse(text') = netsnap_collect(network)]_netVars

\* netsnap_apply() "marking in restored those that came up": a link counts as
\* restored only if it is up, whatever became of earlier requests' answers.
RestoredIsUp ==
  \A k \in 1..Len(restored) : restored[k] => devs[snap[k].pci].up

\* restore_addr(): an address goes to the function that had it, is never given
\* back after its lease ran out, never for longer than the lease, and is not
\* preferred for longer than it is valid.
LeaseKept ==
  [][\A p \in DOMAIN devs : \A a \in devs'[p].addrs \ devs[p].addrs :
       /\ a.valid # 0 => a.valid > clock /\ a.preferred # 0 /\ a.preferred <= a.valid
       /\ \E k \in 1..Len(snap) : snap[k].pci = p /\
            \E m \in 1..Len(snap[k].addrs) :
              snap[k].addrs[m].net = a.net /\ snap[k].addrs[m].valid = a.valid]_netVars

\* restore_routes() "A gateway is reachable only once the routes to its subnet
\* are in": when nothing fails no route is lost to the order of the dump.
RoutesBack ==
  at = "done" /\ errors = 0 =>
    \A k \in 1..Len(restored) : restored[k] =>
      \A m \in 1..Len(snap[k].routes) :
        LET r == snap[k].routes[m]
            lasting == {snap[k].addrs[n].net : n \in {n \in 1..Len(snap[k].addrs) :
                                                        snap[k].addrs[n].valid = 0}}
            direct == {snap[k].routes[n].dst : n \in {n \in 1..Len(snap[k].routes) :
                                                        snap[k].routes[n].gw = None}}
        IN  r.gw \in {None} \cup lasting \cup direct => r \in devs[snap[k].pci].routes

\* netsnap.h "Puts each link's name ... back": an interface restored without an
\* error of the machine has the name it had.
NamesBack ==
  at = "done" /\ errors = 0 =>
    \A k \in 1..Len(restored) : restored[k] => devs[snap[k].pci].name = snap[k].name

\* ops_adopt(): the memory is adopted only after netsnap_apply(), which ends
\* whatever the kernel and the drivers do.
ApplyEnds == at = "find" ~> at = "done"
=============================================================================
