------------------------------ MODULE SecnConfig ------------------------------
(***************************************************************************)
(* The network settings of the box.  Its pages edit the uci package secn:  *)
(* "Save" stages what was chosen; "Save & Apply" also commits it, and the  *)
(* page it answers with asks in turn (XHR) for a run of luci-reload, which *)
(* may never happen.  config_secn, run by luci-reload under its lock,      *)
(* derives from secn what the packages network and wireless say, writes    *)
(* options of secn back, and commits the packages one after the other,     *)
(* whoever has staged what.  Then the network is reloaded.  uci keeps what *)
(* is staged in RAM: a power cut loses it, and everything that runs.       *)
(***************************************************************************)
EXTENDS Naturals

CONSTANTS Browsers,   \* where the pages are open
          Choices,    \* what is chosen for the port and the way to get an address
          MaxWaiting  \* bound: runs of luci-reload that wait for the lock

Ports == {"Disable", "Ethernet", "Mesh", "WiFi", "USB-Modem"}
IpModes == {"Static", "DHCP", "PPPoE"}

\* A mode with no choice of the way to get an address has the option removed, which
\* config_secn takes for PPPoE.
Offered == {c \in [port : Ports, ip : IpModes] :
               c.port \in {"Disable", "USB-Modem"} => c.ip = "PPPoE"}

ASSUME SecnAssumption == MaxWaiting \in Nat /\ Choices \subseteq Offered

Secn == [port : Ports, ip : IpModes, ap : BOOLEAN, mesh : BOOLEAN]
Network == [wan : {"", "eth1", "bat0 eth1", "wlan0-2", "ppp0"},
            bridge : BOOLEAN,
            proto : {"static", "dhcp", "pppoe", "3g"}]
Wireless == [ap : BOOLEAN, mesh : BOOLEAN, sta : BOOLEAN]  \* networks that are not disabled
Packages == [secn : Secn, network : Network, wireless : Wireless]

VARIABLES
    file,     \* the packages as committed
    view,     \* the packages as uci get shows them, with what is staged
    page,     \* what the request of each browser has still to do
    waiting,  \* runs of luci-reload that wait for the lock
    pc,       \* where config_secn is
    read,     \* the options it has read, in shell variables; as shipped without a run
    live,     \* the network and the wireless settings in use
    unread,   \* (history) has secn been changed by a page since the last run began?
    cut       \* (history) has the power gone off during a run, and no run ended since?

vars == <<file, view, page, waiting, pc, read, live, unread, cut>>

TypeOK ==
    /\ file \in Packages
    /\ view \in Packages
    /\ page \in [Browsers -> {"done", "commit", "chain", "network", "wireless", "xhr"}]
    /\ waiting \in 0 .. MaxWaiting
    /\ pc \in {"idle", "wan", "map", "network", "wireless", "secn", "reload"}
    /\ read \in Secn
    /\ live \in [network : Network, wireless : Wireless]
    /\ unread \in BOOLEAN /\ cut \in BOOLEAN

\* The configuration the box is shipped with.
Shipped ==
    [secn |-> [port |-> "Ethernet", ip |-> "DHCP", ap |-> TRUE, mesh |-> FALSE],
     network |-> [wan |-> "eth1", bridge |-> FALSE, proto |-> "dhcp"],
     wireless |-> [ap |-> TRUE, mesh |-> FALSE, sta |-> FALSE]]

Init ==
    /\ file = Shipped
    /\ view = Shipped
    /\ page = [b \in Browsers |-> "done"]
    /\ waiting = 0
    /\ pc = "idle"
    /\ read = Shipped.secn
    /\ live = [network |-> Shipped.network, wireless |-> Shipped.wireless]
    /\ unread = FALSE /\ cut = FALSE

-----------------------------------------------------------------------------
(* What config_secn derives *)

WanOf == [p \in Ports |->
    CASE p = "Disable" -> ""           [] p = "Ethernet" -> "eth1"
      [] p = "Mesh" -> "bat0 eth1"     [] p = "WiFi" -> "wlan0-2"
      [] p = "USB-Modem" -> "ppp0"]

\* Wrong variant: the two ways with a branch of their own, and no other.
ProtoOfTwo == [i \in IpModes |->
    CASE i = "Static" -> "static" [] i = "DHCP" -> "dhcp" [] OTHER -> ""]

ProtoOf == [i \in IpModes |->
    CASE i = "Static" -> "static" [] i = "DHCP" -> "dhcp" [] i = "PPPoE" -> "pppoe"]

\* The branches on WANPORT, the one on ETHWANMODE, and after it the modem's.
NetworkFor(s) ==
    [wan |-> WanOf[s.port],
     bridge |-> s.port = "Mesh",
     proto |-> IF s.port = "USB-Modem" THEN "3g" ELSE ProtoOf[s.ip]]

\* MESH_ENABLE after the branches, and secn.mesh.mesh_enable with it
MeshFor(s) == s.port = "Mesh" \/ (s.mesh /\ s.port # "WiFi")

\* secn.accesspoint.ap_disable after the branches
ApFor(s) == s.ap /\ s.port # "WiFi"

\* Wrong variant: only the WiFi branch says it.
StaForWiFi(s, before) == s.port = "WiFi" \/ before

\* The modem's branch is the only one that does not say whether the box is a station.
StaFor(s, before) == IF s.port = "USB-Modem" THEN before ELSE s.port = "WiFi"

-----------------------------------------------------------------------------
(* Pages *)

\* Map.parse stages what the page has changed. "Save" ends there.
Save(b, new, next) ==
    /\ page[b] = "done"
    /\ view' = [view EXCEPT !.secn = new]
    /\ unread' = (unread \/ new # view.secn)
    /\ page' = [page EXCEPT ![b] = next]
    /\ UNCHANGED <<file, waiting, pc, read, live, cut>>

\* Internet Access, Access Point and Mesh have a page each.
SavePage(b) ==
    \/ \E next \in {"done", "commit"} :
          \/ \E c \in Choices : Save(b, [view.secn EXCEPT !.port = c.port, !.ip = c.ip], next)
          \/ \E on \in BOOLEAN : Save(b, [view.secn EXCEPT !.ap = on], next)
    \/ \E next \in {"done", "chain"}, on \in BOOLEAN :
          Save(b, [view.secn EXCEPT !.mesh = on], next)

\* "Save & Apply" commits secn, with what anybody else has staged there.
PageCommitsSecn(b) ==
    /\ page[b] \in {"commit", "chain"}
    /\ file' = [file EXCEPT !.secn = view.secn]
    /\ page' = [page EXCEPT ![b] = IF @ = "chain" THEN "network" ELSE "xhr"]
    /\ UNCHANGED <<view, waiting, pc, read, live, unread, cut>>

\* The map of the mesh page is chained to network and wireless, which are next.
PageCommitsNetwork(b) ==
    /\ page[b] = "network"
    /\ file' = [file EXCEPT !.network = view.network]
    /\ page' = [page EXCEPT ![b] = "wireless"]
    /\ UNCHANGED <<view, waiting, pc, read, live, unread, cut>>
PageCommitsWireless(b) ==
    /\ page[b] = "wireless"
    /\ file' = [file EXCEPT !.wireless = view.wireless]
    /\ page' = [page EXCEPT ![b] = "xhr"]
    /\ UNCHANGED <<view, waiting, pc, read, live, unread, cut>>

\* The answer's script has servicectl fork luci-reload, unless the page is left before
\* or the request is lost.
Trigger(b) ==
    /\ page[b] = "xhr"
    /\ page' = [page EXCEPT ![b] = "done"]
    /\ waiting' \in {waiting, waiting + 1} \intersect 0 .. MaxWaiting
    /\ UNCHANGED <<file, view, pc, read, live, unread, cut>>

Page(b) == SavePage(b) \/ PageCommitsSecn(b) \/ PageCommitsNetwork(b)
           \/ PageCommitsWireless(b) \/ Trigger(b)

-----------------------------------------------------------------------------
(* luci-reload and config_secn *)

\* The access point's and the mesh's options are read, the former is staged at once.
ReadAccessPoint ==
    /\ pc = "idle" /\ waiting > 0
    /\ waiting' = waiting - 1
    /\ read' = [read EXCEPT !.ap = view.secn.ap, !.mesh = view.secn.mesh]
    /\ view' = [view EXCEPT !.wireless.ap = view.secn.ap]
    /\ pc' = "wan"
    /\ unread' = FALSE
    /\ UNCHANGED <<file, page, live, cut>>

ReadWan ==
    /\ pc = "wan"
    /\ read' = [read EXCEPT !.port = view.secn.port, !.ip = view.secn.ip]
    /\ pc' = "map"
    /\ UNCHANGED <<file, view, page, waiting, live, unread, cut>>

\* Wrong variant: the mode decides what is derived, and not what secn says.
MapWanOnly ==
    /\ pc = "map"
    /\ view' = [view EXCEPT
                !.network = NetworkFor(read),
                !.wireless = [ap |-> ApFor(read), mesh |-> MeshFor(read),
                              sta |-> StaFor(read, view.wireless.sta)]]
    /\ pc' = "network"
    /\ UNCHANGED <<file, page, waiting, read, live, unread, cut>>

\* The branches on the mode, with the options they write back.
MapWan ==
    /\ pc = "map"
    /\ view' = [secn |-> [view.secn EXCEPT
                    !.ap = IF read.port = "WiFi" THEN FALSE ELSE @,
                    !.mesh = IF read.port \in {"WiFi", "Mesh"} THEN MeshFor(read) ELSE @],
                network |-> NetworkFor(read),
                wireless |-> [ap |-> ApFor(read), mesh |-> MeshFor(read),
                              sta |-> StaFor(read, view.wireless.sta)]]
    /\ pc' = "network"
    /\ UNCHANGED <<file, page, waiting, read, live, unread, cut>>

CommitNetwork ==
    /\ pc = "network"
    /\ file' = [file EXCEPT !.network = view.network]
    /\ pc' = "wireless"
    /\ UNCHANGED <<view, page, waiting, read, live, unread, cut>>

CommitWireless ==
    /\ pc = "wireless"
    /\ file' = [file EXCEPT !.wireless = view.wireless]
    /\ pc' = "secn"
    /\ UNCHANGED <<view, page, waiting, read, live, unread, cut>>

CommitSecn ==
    /\ pc = "secn"
    /\ file' = [file EXCEPT !.secn = view.secn]
    /\ pc' = "reload"
    /\ UNCHANGED <<view, page, waiting, read, live, unread, cut>>

\* luci-reload goes on with the package network, which secn affects, and gives the lock back.
Reload ==
    /\ pc = "reload"
    /\ live' = [network |-> file.network, wireless |-> file.wireless]
    /\ pc' = "idle"
    /\ cut' = FALSE
    /\ read' = Shipped.secn
    /\ UNCHANGED <<file, view, page, waiting, unread>>

\* The power goes off and on: what is staged is lost, and so is whoever waited or ran.
PowerCut ==
    /\ view' = file
    /\ page' = [b \in Browsers |-> "done"]
    /\ live' = [network |-> file.network, wireless |-> file.wireless]
    /\ waiting' = 0
    /\ pc' = "idle"
    /\ cut' = (cut \/ pc # "idle")
    /\ read' = Shipped.secn
    /\ UNCHANGED <<file, unread>>

Next ==
    \/ \E b \in Browsers : Page(b)
    \/ ReadAccessPoint \/ ReadWan \/ MapWan
    \/ CommitNetwork \/ CommitWireless \/ CommitSecn \/ Reload
    \/ PowerCut

Spec == Init /\ [][Next]_vars

-----------------------------------------------------------------------------
(* Properties *)

\* What network and wireless have to be for the options of secn.
Derived(s, n, w) ==
    /\ n.wan = WanOf[s.port]
    /\ n.bridge <=> s.port = "Mesh"
    /\ n.proto = IF s.port = "USB-Modem" THEN "3g" ELSE ProtoOf[s.ip]
    /\ w.ap = s.ap /\ w.mesh = s.mesh
    /\ s.port = "WiFi" => ~s.ap /\ ~s.mesh
    /\ s.port = "Mesh" => s.mesh
    /\ s.port # "USB-Modem" => (w.sta <=> s.port = "WiFi")

\* When a run has ended, and the power has not gone off in the middle of it, what is
\* committed and in use is derived from the settings saved before it began, whoever
\* committed them and whatever pages did meanwhile: unless a page has changed secn after
\* that, these are the settings of secn.
Settled ==
    pc = "idle" /\ ~unread /\ ~cut =>
        /\ Derived(file.secn, file.network, file.wireless)
        /\ live = [network |-> file.network, wireless |-> file.wireless]

\* The network and the wireless settings in use are of one mode, at any time, unless the
\* box has been switched off in the middle: the WAN is the station exactly if there is
\* one, but for a modem; and a WAN over the mesh has the mesh.
LiveAgrees ==
    ~cut => /\ live.network.wan # "ppp0" => (live.network.wan = "wlan0-2" <=> live.wireless.sta)
            /\ live.network.bridge => live.wireless.mesh
            /\ live.network.wan = "wlan0-2" => ~live.wireless.ap /\ ~live.wireless.mesh

\* Why: what a run has staged is derived from the options it has read,
Mapped == pc \in {"network", "wireless", "secn", "reload"}
Staged ==
    Mapped =>
        /\ view.network = NetworkFor(read)
        /\ view.wireless.ap = ApFor(read) /\ view.wireless.mesh = MeshFor(read)
        /\ read.port # "USB-Modem" => (view.wireless.sta <=> read.port = "WiFi")

\* is committed and then stays as it is,
Committed ==
    /\ pc # "network" => file.network = view.network
    /\ pc \in {"idle", "secn", "reload"} => file.wireless = view.wireless
    /\ pc \in {"idle", "reload"} /\ ~unread => file.secn = view.secn
    /\ pc = "idle" /\ ~cut => live = [network |-> file.network, wireless |-> file.wireless]

\* and belongs to what secn says, if no page has changed it since it was read.
Fresh ==
    ~unread =>
        /\ pc = "wan" => read.ap = view.secn.ap /\ read.mesh = view.secn.mesh
        /\ pc = "map" => read = view.secn
        /\ Mapped => /\ view.secn.port = read.port /\ view.secn.ip = read.ip
                     /\ view.secn.ap = ApFor(read) /\ view.secn.mesh = MeshFor(read)

InductiveInvariant == TypeOK /\ Staged /\ Committed /\ Fresh /\ Settled /\ LiveAgrees
=============================================================================
