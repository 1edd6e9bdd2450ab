--------------------------- MODULE SecnConfigProofs ---------------------------
(***************************************************************************)
(* Theorems about SecnConfig, for any browsers and number of waiting runs:  *)
(* saves that are not applied and requests that are lost included.         *)
(***************************************************************************)
EXTENDS SecnConfig, TLAPS

(* The settings and what is derived from them keep to their types.         *)
LEMMA DerivedTypes ==
    ASSUME NEW s \in Secn, NEW before \in BOOLEAN
    PROVE  /\ NetworkFor(s) \in Network
           /\ ApFor(s) \in BOOLEAN /\ MeshFor(s) \in BOOLEAN
           /\ StaFor(s, before) \in BOOLEAN
<1>1. WanOf[s.port] \in {"", "eth1", "bat0 eth1", "wlan0-2", "ppp0"}
  BY DEF Secn, WanOf, Ports
<1>2. ProtoOf[s.ip] \in {"static", "dhcp", "pppoe"}
  BY DEF Secn, ProtoOf, IpModes
<1> QED
  BY <1>1, <1>2 DEF NetworkFor, Network, Secn, ApFor, MeshFor, StaFor

LEMMA TypeInit == Init => TypeOK
<1>1. /\ Shipped.secn \in Secn
      /\ Shipped.network \in Network
      /\ Shipped.wireless \in Wireless
      /\ Shipped = [secn |-> Shipped.secn, network |-> Shipped.network,
                    wireless |-> Shipped.wireless]
  BY DEF Shipped, Secn, Network, Wireless, Ports, IpModes
<1>2. Shipped \in Packages
  BY <1>1 DEF Packages
<1> SUFFICES ASSUME Init PROVE TypeOK
  OBVIOUS
<1>3. file \in Packages /\ view \in Packages /\ read \in Secn
  BY <1>1, <1>2 DEF Init
<1>4. live \in [network : Network, wireless : Wireless]
  BY <1>1 DEF Init
<1>5. waiting \in 0 .. MaxWaiting
  BY SecnAssumption DEF Init
<1> QED
  BY <1>3, <1>4, <1>5 DEF Init, TypeOK

(* What a page stages are options of secn.                                 *)
LEMMA SavePageStages ==
    ASSUME TypeOK, NEW b \in Browsers, SavePage(b)
    PROVE  \E new \in Secn, next \in {"done", "commit", "chain"} : Save(b, new, next)
<1> DEFINE s == view.secn
<1>1. s \in Secn
  BY DEF TypeOK, Packages
<1>2. ASSUME NEW c \in Choices
      PROVE  [s EXCEPT !.port = c.port, !.ip = c.ip] \in Secn
  <2>1. c.port \in Ports /\ c.ip \in IpModes
    BY SecnAssumption DEF Offered
  <2> QED
    BY <1>1, <2>1 DEF Secn
<1>3. ASSUME NEW on \in BOOLEAN
      PROVE  [s EXCEPT !.ap = on] \in Secn /\ [s EXCEPT !.mesh = on] \in Secn
  BY <1>1 DEF Secn
<1> QED
  BY <1>2, <1>3 DEF SavePage

(* A page keeps the types.                                                 *)
LEMMA PageTypes ==
    ASSUME TypeOK, NEW b \in Browsers, Page(b)
    PROVE  TypeOK'
<1>1. CASE SavePage(b)
  <2> PICK new \in Secn, next \in {"done", "commit", "chain"} : Save(b, new, next)
    BY <1>1, SavePageStages
  <2>1. view' \in Packages /\ unread' \in BOOLEAN
    BY DEF Save, TypeOK, Packages
  <2> QED
    BY <2>1 DEF Save, TypeOK
<1>2. CASE PageCommitsSecn(b) \/ PageCommitsNetwork(b) \/ PageCommitsWireless(b)
  <2>1. file' \in Packages
    BY <1>2 DEF PageCommitsSecn, PageCommitsNetwork, PageCommitsWireless, TypeOK, Packages
  <2> QED
    BY <1>2, <2>1 DEF PageCommitsSecn, PageCommitsNetwork, PageCommitsWireless, TypeOK
<1>3. CASE Trigger(b)
  BY <1>3 DEF Trigger, TypeOK
<1> QED
  BY <1>1, <1>2, <1>3 DEF Page

LEMMA TypeStep == TypeOK /\ [Next]_vars => TypeOK'
<1> SUFFICES ASSUME TypeOK, [Next]_vars PROVE TypeOK'
  OBVIOUS
<1>1. ASSUME NEW b \in Browsers, Page(b) PROVE TypeOK'
  BY <1>1, PageTypes
<1>2. CASE ReadAccessPoint
  <2>1. waiting' \in 0 .. MaxWaiting
    BY <1>2, SecnAssumption DEF ReadAccessPoint, TypeOK
  <2>2. view' \in Packages /\ read' \in Secn
    BY <1>2 DEF ReadAccessPoint, TypeOK, Packages, Secn, Wireless
  <2> QED
    BY <1>2, <2>1, <2>2 DEF ReadAccessPoint, TypeOK
<1>3. CASE ReadWan
  BY <1>3 DEF ReadWan, TypeOK, Packages, Secn
<1>4. CASE MapWan
  <2>1. /\ NetworkFor(read) \in Network
        /\ ApFor(read) \in BOOLEAN /\ MeshFor(read) \in BOOLEAN
        /\ StaFor(read, view.wireless.sta) \in BOOLEAN
    BY DerivedTypes DEF TypeOK, Packages, Wireless
  <2>2. view'.secn \in Secn
    BY <1>4, <2>1 DEF MapWan, TypeOK, Packages, Secn
  <2>3. view'.network \in Network /\ view'.wireless \in Wireless
    BY <1>4, <2>1 DEF MapWan, Wireless
  <2>4. view' \in Packages
    BY <1>4, <2>2, <2>3 DEF MapWan, Packages
  <2> QED
    BY <1>4, <2>4 DEF MapWan, TypeOK
<1>5. CASE CommitNetwork
  BY <1>5 DEF CommitNetwork, TypeOK, Packages
<1>6. CASE CommitWireless
  BY <1>6 DEF CommitWireless, TypeOK, Packages
<1>7. CASE CommitSecn
  BY <1>7 DEF CommitSecn, TypeOK, Packages
<1>0. Shipped.secn \in Secn
  BY DEF Shipped, Secn, Ports, IpModes
<1>8. CASE Reload
  BY <1>0, <1>8 DEF Reload, TypeOK, Packages
<1>9. CASE PowerCut
  <2>1. page' \in [Browsers -> {"done", "commit", "chain", "network", "wireless", "xhr"}]
    BY <1>9 DEF PowerCut
  <2> QED
    BY <1>0, <1>9, <2>1, SecnAssumption DEF PowerCut, TypeOK, Packages
<1>10. CASE UNCHANGED vars
  BY <1>10 DEF vars, TypeOK
<1> QED
  BY <1>1, <1>2, <1>3, <1>4, <1>5, <1>6, <1>7, <1>8, <1>9, <1>10 DEF Next

(* TypeOK is an invariant: settings, derived packages and staged ones keep *)
(* to the values their options have.                                       *)
THEOREM TypeCorrect == Spec => []TypeOK
BY TypeInit, TypeStep, PTL DEF Spec

-----------------------------------------------------------------------------
LEMMA InvInit == Init => InductiveInvariant
<1> SUFFICES ASSUME Init PROVE InductiveInvariant
  OBVIOUS
<1>1. Derived(file.secn, file.network, file.wireless)
  BY DEF Init, Shipped, Derived, WanOf, ProtoOf, Ports, IpModes
<1>2. LiveAgrees
  BY DEF Init, Shipped, LiveAgrees
<1> QED
  BY <1>1, <1>2, TypeInit
  DEF Init, InductiveInvariant, Staged, Committed, Fresh, Settled, Mapped

(* No two modes have one interface for the WAN.                            *)
LEMMA WanTellsPort ==
    ASSUME NEW s \in Secn
    PROVE  /\ WanOf[s.port] = "wlan0-2" <=> s.port = "WiFi"
           /\ WanOf[s.port] = "ppp0" <=> s.port = "USB-Modem"
BY DEF Secn, WanOf, Ports

(* Packages that are derived from settings are of one mode.                *)
LEMMA DerivedAgree ==
    ASSUME NEW s \in Secn, NEW n, NEW w, Derived(s, n, w)
    PROVE  /\ n.wan # "ppp0" => (n.wan = "wlan0-2" <=> w.sta)
           /\ n.bridge => w.mesh
           /\ n.wan = "wlan0-2" => ~w.ap /\ ~w.mesh
BY WanTellsPort DEF Derived

(* So are those of a run that has been committed, whatever saved since.    *)
LEMMA StagedAgree ==
    ASSUME TypeOK, Staged, Committed, pc = "reload"
    PROVE  LET n == file.network  w == file.wireless IN
           /\ n.wan # "ppp0" => (n.wan = "wlan0-2" <=> w.sta)
           /\ n.bridge => w.mesh
           /\ n.wan = "wlan0-2" => ~w.ap /\ ~w.mesh
<1>1. read \in Secn
  BY DEF TypeOK
<1>2. /\ file.network = NetworkFor(read)
      /\ file.wireless.ap = ApFor(read) /\ file.wireless.mesh = MeshFor(read)
      /\ read.port # "USB-Modem" => (file.wireless.sta <=> read.port = "WiFi")
  BY DEF Staged, Committed, Mapped
<1>3. file.network.wan = WanOf[read.port]
  BY <1>2 DEF NetworkFor
<1>4. file.network.bridge <=> read.port = "Mesh"
  <2>1. NetworkFor(read).bridge = (read.port = "Mesh")
    BY DEF NetworkFor
  <2> QED
    BY <1>2, <2>1, Zenon
<1>5. /\ read.port = "Mesh" => file.wireless.mesh
      /\ read.port = "WiFi" => ~file.wireless.ap /\ ~file.wireless.mesh
  BY <1>2 DEF ApFor, MeshFor
<1> QED
  BY <1>1, <1>2, <1>3, <1>4, <1>5, WanTellsPort

(* And they are derived from the settings if nothing has been saved since. *)
LEMMA ReloadSettles ==
    ASSUME TypeOK, Staged, Committed, Fresh, pc = "reload", ~unread
    PROVE  Derived(file.secn, file.network, file.wireless)
<1>1. /\ file.network = NetworkFor(read)
      /\ file.wireless.ap = ApFor(read) /\ file.wireless.mesh = MeshFor(read)
      /\ read.port # "USB-Modem" => (file.wireless.sta <=> read.port = "WiFi")
  BY DEF Staged, Committed, Mapped
<1>2. /\ file.secn.port = read.port /\ file.secn.ip = read.ip
      /\ file.secn.ap = ApFor(read) /\ file.secn.mesh = MeshFor(read)
  BY DEF Fresh, Committed, Mapped
<1>3. /\ file.network.wan = WanOf[read.port]
      /\ file.network.proto = IF read.port = "USB-Modem" THEN "3g" ELSE ProtoOf[read.ip]
  BY <1>1 DEF NetworkFor
<1>4. file.network.bridge <=> read.port = "Mesh"
  <2>1. NetworkFor(read).bridge = (read.port = "Mesh")
    BY DEF NetworkFor
  <2> QED
    BY <1>1, <2>1, Zenon
<1>5. /\ read.port = "WiFi" => ~file.secn.ap /\ ~file.secn.mesh
      /\ read.port = "Mesh" => file.secn.mesh
  BY <1>2 DEF ApFor, MeshFor
<1> QED
  BY <1>1, <1>2, <1>3, <1>4, <1>5 DEF Derived

LEMMA InvStep == InductiveInvariant /\ [Next]_vars => InductiveInvariant'
<1> SUFFICES ASSUME InductiveInvariant, [Next]_vars PROVE InductiveInvariant'
  OBVIOUS
<1> USE DEF InductiveInvariant
<1>0. TypeOK'
  BY TypeStep
<1>1. ASSUME NEW b \in Browsers, Page(b) PROVE InductiveInvariant'
  <2>1. CASE SavePage(b)
    <3>1. PICK new \in Secn, next \in {"done", "commit", "chain"} : Save(b, new, next)
      BY <2>1, SavePageStages
    <3>2. CASE unread'
      <4>1. Staged' /\ Committed'
        BY <3>1, <3>2 DEF Save, Staged, Committed, Mapped, TypeOK, Packages
      <4>2. LiveAgrees'
        BY <3>1 DEF Save, LiveAgrees
      <4> QED
        BY <1>0, <3>2, <4>1, <4>2 DEF Fresh, Settled
    <3>3. CASE ~unread'
      <4>1. view' = view /\ unread' = unread
        BY <3>1, <3>3 DEF Save, TypeOK, Packages
      <4> QED
        BY <1>0, <3>1, <4>1
        DEF Save, Staged, Committed, Fresh, Settled, LiveAgrees, Mapped
    <3> QED
      BY <3>2, <3>3
  <2>2. CASE PageCommitsSecn(b)
    <3>1. /\ file' = [file EXCEPT !.secn = view.secn]
          /\ UNCHANGED <<view, waiting, pc, read, live, unread, cut>>
      BY <2>2 DEF PageCommitsSecn
    <3>2. file'.secn = view.secn /\ file'.network = file.network /\ file'.wireless = file.wireless
      BY <3>1 DEF TypeOK, Packages
    <3> QED
      BY <1>0, <3>1, <3>2 DEF Staged, Committed, Fresh, Settled, LiveAgrees, Mapped
  <2>3. CASE PageCommitsNetwork(b)
    <3>1. /\ file' = [file EXCEPT !.network = view.network]
          /\ UNCHANGED <<view, waiting, pc, read, live, unread, cut>>
      BY <2>3 DEF PageCommitsNetwork
    <3>2. file'.secn = file.secn /\ file'.network = view.network /\ file'.wireless = file.wireless
      BY <3>1 DEF TypeOK, Packages
    <3> QED
      BY <1>0, <3>1, <3>2 DEF Staged, Committed, Fresh, Settled, LiveAgrees, Mapped
  <2>4. CASE PageCommitsWireless(b)
    <3>1. /\ file' = [file EXCEPT !.wireless = view.wireless]
          /\ UNCHANGED <<view, waiting, pc, read, live, unread, cut>>
      BY <2>4 DEF PageCommitsWireless
    <3>2. file'.secn = file.secn /\ file'.network = file.network /\ file'.wireless = view.wireless
      BY <3>1 DEF TypeOK, Packages
    <3> QED
      BY <1>0, <3>1, <3>2 DEF Staged, Committed, Fresh, Settled, LiveAgrees, Mapped
  <2>5. CASE Trigger(b)
    BY <1>0, <2>5 DEF Trigger, Staged, Committed, Fresh, Settled, LiveAgrees, Mapped
  <2> QED
    BY <1>1, <2>1, <2>2, <2>3, <2>4, <2>5 DEF Page
<1>2. CASE ReadAccessPoint
  <2>1. Fresh' /\ Staged' /\ Settled'
    BY <1>2 DEF ReadAccessPoint, Fresh, Staged, Settled, Mapped, TypeOK, Packages, Secn, Wireless
  <2>2. Committed' /\ LiveAgrees'
    BY <1>2 DEF ReadAccessPoint, Committed, LiveAgrees, TypeOK, Packages
  <2> QED
    BY <1>0, <2>1, <2>2
<1>3. CASE ReadWan
  <2>1. Staged' /\ Committed' /\ Settled' /\ LiveAgrees'
    BY <1>3 DEF ReadWan, Staged, Committed, Settled, LiveAgrees, Mapped
  <2>2. Fresh'
    <3>1. /\ pc = "wan" /\ pc' = "map" /\ view' = view /\ unread' = unread
          /\ read' = [read EXCEPT !.port = view.secn.port, !.ip = view.secn.ip]
      BY <1>3 DEF ReadWan
    <3>2. read \in Secn /\ view.secn \in Secn
      BY DEF TypeOK, Packages
    <3>3. ~unread => read.ap = view.secn.ap /\ read.mesh = view.secn.mesh
      BY <3>1 DEF Fresh
    <3>4. ~unread => read' = view.secn
      BY <3>1, <3>2, <3>3 DEF Secn
    <3> QED
      BY <3>1, <3>4 DEF Fresh, Mapped
  <2> QED
    BY <1>0, <2>1, <2>2
<1>4. CASE MapWan
  <2>1. Staged'
    BY <1>4 DEF MapWan, Staged, StaFor, TypeOK
  <2>2. Committed' /\ Settled' /\ LiveAgrees'
    BY <1>4 DEF MapWan, Committed, Settled, LiveAgrees
  <2>3. Fresh'
    BY <1>4 DEF MapWan, Fresh, Mapped, ApFor, MeshFor, TypeOK, Packages, Secn
  <2> QED
    BY <1>0, <2>1, <2>2, <2>3
<1>5. CASE CommitNetwork
  BY <1>0, <1>5 DEF CommitNetwork, Staged, Committed, Fresh, Settled, LiveAgrees, Mapped,
                    TypeOK, Packages
<1>6. CASE CommitWireless
  BY <1>0, <1>6 DEF CommitWireless, Staged, Committed, Fresh, Settled, LiveAgrees, Mapped,
                    TypeOK, Packages
<1>7. CASE CommitSecn
  BY <1>0, <1>7 DEF CommitSecn, Staged, Committed, Fresh, Settled, LiveAgrees, Mapped,
                    TypeOK, Packages
<1>8. CASE Reload
  <2>1. Staged' /\ Committed' /\ Fresh'
    BY <1>8 DEF Reload, Staged, Committed, Fresh, Mapped
  <2>2. Settled'
    BY <1>8, ReloadSettles DEF Reload, Settled
  <2>3. LiveAgrees'
    BY <1>8, StagedAgree DEF Reload, LiveAgrees
  <2> QED
    BY <1>0, <2>1, <2>2, <2>3
<1>9. CASE PowerCut
  <2>1. Staged' /\ Committed' /\ Fresh'
    BY <1>9 DEF PowerCut, Staged, Committed, Fresh, Mapped
  <2>2. ~cut' => ~cut /\ pc = "idle"
    BY <1>9 DEF PowerCut
  <2>3. Settled'
    BY <1>9, <2>2 DEF PowerCut, Settled
  <2>5. LiveAgrees'
    BY <1>9, <2>2 DEF PowerCut, LiveAgrees, Committed
  <2> QED
    BY <1>0, <2>1, <2>3, <2>5
<1>10. CASE UNCHANGED vars
  BY <1>0, <1>10 DEF vars, Staged, Committed, Fresh, Settled, LiveAgrees, Mapped
<1> QED
  BY <1>1, <1>2, <1>3, <1>4, <1>5, <1>6, <1>7, <1>8, <1>9, <1>10 DEF Next

THEOREM InductiveInvariantHolds == Spec => []InductiveInvariant
BY InvInit, InvStep, PTL DEF Spec

(* Whoever saves, commits or loses a request in the middle, after a run    *)
(* what is committed and in use is derived from the settings saved before  *)
(* it.                                                                     *)
THEOREM RunsSettleWhatWasSaved == Spec => []Settled
<1>1. InductiveInvariant => Settled
  BY DEF InductiveInvariant
<1> QED
  BY <1>1, InductiveInvariantHolds, PTL

(* Network and wireless in use are of one mode, but after a power cut in   *)
(* the middle.                                                             *)
THEOREM LiveIsOfOneMode == Spec => []LiveAgrees
<1>1. InductiveInvariant => LiveAgrees
  BY DEF InductiveInvariant
<1> QED
  BY <1>1, InductiveInvariantHolds, PTL
=============================================================================
