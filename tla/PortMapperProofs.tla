-------------------------- MODULE PortMapperProofs --------------------------
(***************************************************************************)
(* Proofs about PortMapper, for any ports, size of the tables and routers. *)
(***************************************************************************)
EXTENDS PortMapper, WellFoundedInduction, TLAPS

-----------------------------------------------------------------------------
(* The invariant. *)

\* The event loop and the thread agree on whether there is one.
ThreadInv ==
  /\ main \in {"idle", "removing", "clearing", "hung"} /\ ~g_running => thread = "none"
  /\ main = "stopping" => ~g_running /\ (g_stop => thread = "none")
  /\ g_mutex = "thread" => thread \in {"toUnmap", "toMap"}
  /\ thread \in {"toUnmap", "toMap"} => at <= MAX_MAPS

\* An entry that is mapped is idle, or a request to unmap it was cut off.
EntryOK(e) == /\ e.upnpMapped => e.upnpState \in {"IDLE", "UNMAP"}
              /\ e.upnpState = "UNMAP" => ~e.enabled
\* Only NAT-PMP takes the port of an entry that UPnP has still to map.
NotToMap(e) == e.port = 0 => ~e.enabled /\ e.upnpState # "MAP"
\* Without UPnP no entry gets as far as a mapping.
NoUpnp(e) == /\ ~e.upnpMapped /\ e.upnpState \notin {"MAP", "UNMAP"}
             /\ e.enabled => e.upnpState \in {"DISCOVER", "ERR"}
GoodEntry(e) ==
  /\ EntryOK(e)
  /\ "NATPMP" \notin router => NotToMap(e)
  /\ "UPNP" \notin router => NoUpnp(e)
EntriesInv == \A i \in Slots : GoodEntry(g_maps[i]) /\ GoodEntry(g_unmaps[i])

Knows(e, p) == e.port = p /\ e.upnpMapped
Known(p) == \E i \in Slots : Knows(g_maps[i], p) \/ Knows(g_unmaps[i], p)
LeasesInv ==
  /\ "NATPMP" \notin router => 0 \notin leases /\ \A p \in leases \ unheard : Known(p)
  /\ "UPNP" \notin router => leases = {}

MapperInv == TypeOK /\ ThreadInv /\ EntriesInv /\ LeasesInv

-----------------------------------------------------------------------------
(* Visits. *)

\* The outcomes of a visit, and the parts of a pulse.
Visits == [m : Entries, l : SUBSET (Ports \cup {0}), u : SUBSET (Ports \cup {0}),
           can : BOOLEAN]

\* What NAT-PMP keeps of x.
NatpmpKeeps(x, y) ==
  /\ y \in Visits /\ y.l = x.l /\ y.u = x.u
  /\ y.m.enabled = x.m.enabled /\ y.m.upnpState = x.m.upnpState /\ y.m.upnpMapped = x.m.upnpMapped
  /\ y.m.port = x.m.port \/ "NATPMP" \in router
  /\ x.m = Empty => y.m = Empty

LEMMA KeepsSame == \A x \in Visits : NatpmpKeeps(x, x)
BY DEF NatpmpKeeps

LEMMA KeepsTwice ==
  \A x, y, z : NatpmpKeeps(x, y) /\ NatpmpKeeps(y, z) => NatpmpKeeps(x, z)
BY DEF NatpmpKeeps

LEMMA StateKeeps ==
  ASSUME NEW x \in Visits, NEW s \in PmpStates, x.m # Empty
  PROVE  NatpmpKeeps(x, State(x, s)) /\ NatpmpKeeps(x, [State(x, s) EXCEPT !.can = FALSE])
BY DEF NatpmpKeeps, Visits, State, Entries

LEMMA EmptyType == Empty \in Entries
BY DEF Empty, Entries, UpnpStates, PmpStates

LEMMA SendKeeps ==
  ASSUME NEW x \in Visits, x.m # Empty, NEW s \in PmpStates, NEW y \in Send(x, s)
  PROVE  NatpmpKeeps(x, y)
BY StateKeeps DEF Send, PmpStates

LEMMA DiscoverKeeps ==
  ASSUME NEW x \in Visits, NEW y \in NatpmpDiscover(x)
  PROVE  NatpmpKeeps(x, y)
<1>1. CASE x.m.enabled /\ x.m.natpmpState = "DISCOVER"
  <2>1. x.m # Empty
    BY <1>1 DEF Empty
  <2> QED BY <1>1, <2>1, SendKeeps DEF NatpmpDiscover, PmpStates
<1>2. CASE ~(x.m.enabled /\ x.m.natpmpState = "DISCOVER")
  BY <1>2, KeepsSame DEF NatpmpDiscover, Same
<1> QED BY <1>1, <1>2

LEMMA RecvPubKeeps ==
  ASSUME NEW x \in Visits, NEW y \in NatpmpRecvPub(x)
  PROVE  NatpmpKeeps(x, y)
<1>1. CASE x.m.natpmpState = "RECV_PUB" /\ x.can
  <2>1. x.m # Empty
    BY <1>1 DEF Empty
  <2>2. y \in {x, State(x, "ERR"), State(x, "IDLE")}
    BY <1>1 DEF NatpmpRecvPub, Reply
  <2> QED BY <2>1, <2>2, StateKeeps, KeepsSame DEF PmpStates
<1>2. CASE ~(x.m.natpmpState = "RECV_PUB" /\ x.can)
  BY <1>2, KeepsSame DEF NatpmpRecvPub, Same
<1> QED BY <1>1, <1>2

LEMMA SendUnmapKeeps ==
  ASSUME NEW x \in Visits, NEW z \in NatpmpSendUnmap(x)
  PROVE  NatpmpKeeps(x, z)
<1> DEFINE unmap == x.m.natpmpState \in {"IDLE", "ERR"} /\ x.m.natpmpMapped /\ ~x.m.enabled
           y == IF unmap THEN State(x, "SEND_UNMAP") ELSE x
<1>1. NatpmpKeeps(x, y) /\ y \in Visits
  <2>1. CASE unmap
    <3>1. x.m # Empty
      BY <2>1 DEF Empty
    <3> QED BY <2>1, <3>1, StateKeeps DEF PmpStates, NatpmpKeeps
  <2>2. CASE ~unmap
    BY <2>2, KeepsSame
  <2> QED BY <2>1, <2>2
<1>2. z \in IF y.m.natpmpState = "SEND_UNMAP" /\ y.can THEN Send(y, "RECV_UNMAP") ELSE Same(y)
  BY DEF NatpmpSendUnmap
<1> HIDE DEF y
<1>3. CASE y.m.natpmpState = "SEND_UNMAP" /\ y.can
  <2>1. y.m # Empty
    BY <1>3 DEF Empty
  <2> QED BY <1>1, <1>2, <1>3, <2>1, SendKeeps, KeepsTwice DEF PmpStates
<1>4. CASE ~(y.m.natpmpState = "SEND_UNMAP" /\ y.can)
  BY <1>1, <1>2, <1>4 DEF Same
<1> QED BY <1>3, <1>4

LEMMA RecvUnmapKeeps ==
  ASSUME NEW x \in Visits, NEW y \in NatpmpRecvUnmap(x)
  PROVE  NatpmpKeeps(x, y)
<1>1. CASE x.m.natpmpState = "RECV_UNMAP"
  <2> DEFINE z == [State(x, "IDLE") EXCEPT !.m.port = 0, !.m.natpmpMapped = FALSE]
  <2>1. x.m # Empty
    BY <1>1 DEF Empty
  <2>2. y \in {x, State(x, "ERR")} \/ ("NATPMP" \in router /\ y = z)
    BY <1>1 DEF NatpmpRecvUnmap, Reply
  <2>3. "NATPMP" \in router => NatpmpKeeps(x, z)
    BY <2>1 DEF NatpmpKeeps, Visits, State, Entries, PmpStates
  <2> QED BY <2>1, <2>2, <2>3, StateKeeps, KeepsSame DEF PmpStates
<1>2. CASE x.m.natpmpState # "RECV_UNMAP"
  BY <1>2, KeepsSame DEF NatpmpRecvUnmap, Same
<1> QED BY <1>1, <1>2

LEMMA SendMapKeeps ==
  ASSUME NEW x \in Visits, NEW z \in NatpmpSendMap(x)
  PROVE  NatpmpKeeps(x, z)
<1> DEFINE due == x.m.natpmpState = "IDLE" /\ (x.m.natpmpMapped \/ x.m.enabled)
<1>1. PICK y \in {x, State(x, "SEND_MAP")} :
        /\ y # x => due
        /\ z \in IF y.m.natpmpState = "SEND_MAP" /\ y.can THEN Send(y, "RECV_MAP") ELSE {y}
  BY DEF NatpmpSendMap
<1>2. NatpmpKeeps(x, y) /\ y \in Visits
  <2>1. CASE due
    <3>1. x.m # Empty
      BY <2>1 DEF Empty
    <3>2. NatpmpKeeps(x, State(x, "SEND_MAP"))
      BY <3>1, StateKeeps DEF PmpStates
    <3>3. NatpmpKeeps(x, y)
      BY <3>2, KeepsSame
    <3> QED BY <3>3 DEF NatpmpKeeps
  <2>2. CASE ~due
    BY <1>1, <2>2, KeepsSame
  <2> QED BY <2>1, <2>2
<1>3. CASE y.m.natpmpState = "SEND_MAP" /\ y.can
  <2>1. y.m # Empty
    BY <1>3 DEF Empty
  <2> QED BY <1>1, <1>2, <1>3, <2>1, SendKeeps, KeepsTwice DEF PmpStates
<1>4. CASE ~(y.m.natpmpState = "SEND_MAP" /\ y.can)
  BY <1>1, <1>2, <1>4
<1> QED BY <1>3, <1>4

LEMMA RecvMapKeeps ==
  ASSUME NEW x \in Visits, NEW y \in NatpmpRecvMap(x)
  PROVE  NatpmpKeeps(x, y)
<1>1. CASE x.m.natpmpState = "RECV_MAP"
  <2> DEFINE z == [State(x, "IDLE") EXCEPT !.m.natpmpMapped = TRUE]
  <2>1. x.m # Empty
    BY <1>1 DEF Empty
  <2>2. y \in {x, State(x, "ERR")} \/ y = z
    BY <1>1 DEF NatpmpRecvMap, Reply
  <2>3. NatpmpKeeps(x, z)
    BY <2>1 DEF NatpmpKeeps, Visits, State, Entries, PmpStates
  <2> QED BY <2>1, <2>2, <2>3, StateKeeps, KeepsSame DEF PmpStates
<1>2. CASE x.m.natpmpState # "RECV_MAP"
  BY <1>2, KeepsSame DEF NatpmpRecvMap, Same
<1> QED BY <1>1, <1>2

LEMMA NatpmpPulseKeeps ==
  ASSUME NEW x \in Visits, NEW y \in natpmpPulse(x)
  PROVE  NatpmpKeeps(x, y)
<1>1. PICK a \in NatpmpDiscover(x) : \E b \in NatpmpRecvPub(a) : \E c \in NatpmpSendUnmap(b) :
        \E d \in NatpmpRecvUnmap(c) : \E e \in NatpmpSendMap(d) : y \in NatpmpRecvMap(e)
  BY DEF natpmpPulse, Then
<1>2. PICK b \in NatpmpRecvPub(a) : \E c \in NatpmpSendUnmap(b) :
        \E d \in NatpmpRecvUnmap(c) : \E e \in NatpmpSendMap(d) : y \in NatpmpRecvMap(e)
  BY <1>1
<1>3. PICK c \in NatpmpSendUnmap(b) :
        \E d \in NatpmpRecvUnmap(c) : \E e \in NatpmpSendMap(d) : y \in NatpmpRecvMap(e)
  BY <1>2
<1>4. PICK d \in NatpmpRecvUnmap(c) : \E e \in NatpmpSendMap(d) : y \in NatpmpRecvMap(e)
  BY <1>3
<1>5. PICK e \in NatpmpSendMap(d) : y \in NatpmpRecvMap(e)
  BY <1>4
<1>6. a \in Visits /\ NatpmpKeeps(x, a)
  BY DiscoverKeeps DEF NatpmpKeeps
<1>7. b \in Visits /\ NatpmpKeeps(a, b)
  BY <1>6, RecvPubKeeps DEF NatpmpKeeps
<1>8. c \in Visits /\ NatpmpKeeps(b, c)
  BY <1>7, SendUnmapKeeps DEF NatpmpKeeps
<1>9. d \in Visits /\ NatpmpKeeps(c, d)
  BY <1>8, RecvUnmapKeeps DEF NatpmpKeeps
<1>10. e \in Visits /\ NatpmpKeeps(d, e)
  BY <1>9, SendMapKeeps DEF NatpmpKeeps
<1>11. NatpmpKeeps(e, y)
  BY <1>5, <1>10, RecvMapKeeps
<1> QED BY <1>6, <1>7, <1>8, <1>9, <1>10, <1>11, KeepsTwice

-----------------------------------------------------------------------------
(* What a visit to the entry e may come to: y. But for the ports that the  *)
(* router was not heard of, a lease is one that there was and that e knows *)
(* nothing of, or is known to the entry.                                   *)

Tracked(e, y) ==
  /\ 0 \notin y.l /\ NotToMap(y.m)
  /\ \A p \in y.l \ y.u : (p \in leases \ unheard /\ ~Knows(e, p)) \/ Knows(y.m, p)

Sound(e, y) ==
  /\ y \in Visits /\ EntryOK(y.m) /\ y.m.enabled = e.enabled
  /\ e = Empty => y.m = Empty
  /\ "NATPMP" \notin router => Tracked(e, y)
  /\ "UPNP" \notin router => NoUpnp(y.m) /\ y.l = {}

\* An entry that a visit may find, with the leases of that moment.
Visitable(e) ==
  /\ e \in Entries /\ GoodEntry(e) /\ leases \subseteq Ports \cup {0} /\ unheard \subseteq Ports \cup {0}
  /\ "NATPMP" \notin router => 0 \notin leases
  /\ "UPNP" \notin router => leases = {}

LEMMA AfterNatpmpSound ==
  ASSUME NEW e, Visitable(e), NEW y \in AfterNatpmp(e)
  PROVE  Sound(e, y)
<1>1. PICK x \in {[m |-> e, l |-> leases, u |-> unheard, can |-> c] : c \in BOOLEAN} : y \in natpmpPulse(x)
  BY DEF AfterNatpmp, Then
<1>2. x \in Visits /\ x.m = e /\ x.l = leases /\ x.u = unheard
  BY <1>1 DEF Visits, Visitable
<1>3. NatpmpKeeps(x, y)
  BY <1>1, <1>2, NatpmpPulseKeeps
<1>4. "NATPMP" \notin router => Tracked(e, y)
  BY <1>2, <1>3 DEF NatpmpKeeps, Visitable, GoodEntry, Tracked, NotToMap, Knows
<1>5. "UPNP" \notin router => NoUpnp(y.m) /\ y.l = {}
  BY <1>2, <1>3 DEF NatpmpKeeps, Visitable, GoodEntry, NoUpnp
<1> QED BY <1>2, <1>3, <1>4, <1>5 DEF NatpmpKeeps, Sound, Visitable, GoodEntry, EntryOK

LEMMA UpnpDiscoverSound ==
  ASSUME NEW e, NEW x, Sound(e, x), NEW y \in UpnpDiscover(x)
  PROVE  Sound(e, y)
<1>1. CASE x.m.enabled /\ x.m.upnpState = "DISCOVER"
  <2>1. PICK s \in {"ERR"} \cup (IF "UPNP" \in router THEN {"IDLE"} ELSE {}) :
          y = [x EXCEPT !.m.upnpState = s]
    BY <1>1 DEF UpnpDiscover
  <2>2. x \in Visits /\ x.m # Empty
    BY <1>1 DEF Empty, Sound
  <2>3. /\ y \in Visits /\ y.l = x.l /\ y.u = x.u /\ y.m.upnpState = s /\ y.m.port = x.m.port
        /\ y.m.enabled = x.m.enabled /\ y.m.upnpMapped = x.m.upnpMapped
    BY <2>1, <2>2 DEF Visits, Entries, UpnpStates
  <2>4. ~x.m.upnpMapped /\ s \in {"ERR", "IDLE"} /\ ("UPNP" \notin router => s = "ERR")
    BY <1>1, <2>1 DEF Sound, EntryOK
  <2>5. "NATPMP" \notin router => Tracked(e, y)
    BY <2>3, <2>4 DEF Sound, Tracked, NotToMap, Knows
  <2>6. "UPNP" \notin router => NoUpnp(y.m) /\ y.l = {}
    BY <2>3, <2>4 DEF Sound, NoUpnp
  <2> QED BY <2>2, <2>3, <2>4, <2>5, <2>6 DEF Sound, EntryOK
<1>2. CASE ~(x.m.enabled /\ x.m.upnpState = "DISCOVER")
  BY <1>2 DEF UpnpDiscover, Same
<1> QED BY <1>1, <1>2

\* What is to be shown of an outcome that differs in the fields of UPnP.
LEMMA UpnpSound ==
  ASSUME NEW e, NEW x, Sound(e, x), x.m # Empty, "UPNP" \in router,
         NEW y \in Visits, y.m.enabled = x.m.enabled, EntryOK(y.m),
         "NATPMP" \notin router =>
           /\ 0 \notin y.l /\ NotToMap(y.m)
           /\ \A p \in y.l \ y.u : Knows(y.m, p) \/ (p \in x.l \ x.u /\ ~Knows(x.m, p))
  PROVE  Sound(e, y)
<1>1. ASSUME "NATPMP" \notin router, NEW p \in y.l \ y.u
      PROVE  (p \in leases \ unheard /\ ~Knows(e, p)) \/ Knows(y.m, p)
  BY <1>1 DEF Sound, Tracked
<1> QED BY <1>1 DEF Sound, Tracked

LEMMA UpnpPortCheckSound ==
  ASSUME NEW e, NEW x, Sound(e, x), NEW y \in UpnpPortCheck(x)
  PROVE  Sound(e, y)
<1>1. CASE x.m.enabled /\ x.m.upnpMapped
  <2> DEFINE b == x.m.port \in x.l
  <2>1. \/ y = Heard([x EXCEPT !.m.upnpMapped = b], x.m.port)
        \/ y = Unheard([x EXCEPT !.m.upnpMapped = FALSE], x.m.port)
    BY <1>1, Zenon DEF UpnpPortCheck
  <2>2. /\ x \in Visits /\ x.m # Empty /\ "UPNP" \in router /\ EntryOK(x.m) /\ b \in BOOLEAN
        /\ x.m.port \in Ports \cup {0}
    BY <1>1 DEF Empty, Sound, NoUpnp, Visits, Entries
  <2>3. CASE y = Heard([x EXCEPT !.m.upnpMapped = b], x.m.port)
    <3>1. /\ y \in Visits /\ y.l = x.l /\ y.u = x.u \ {x.m.port} /\ y.m.port = x.m.port
          /\ y.m.upnpState = x.m.upnpState /\ y.m.enabled = x.m.enabled /\ y.m.upnpMapped = b
      <4> HIDE DEF b
      <4> QED BY <2>2, <2>3 DEF Visits, Entries, Heard
    <3>2. EntryOK(y.m)
      BY <1>1, <2>2, <3>1 DEF Sound, EntryOK
    <3>3. ASSUME "NATPMP" \notin router
          PROVE  /\ 0 \notin y.l /\ NotToMap(y.m)
                 /\ \A p \in y.l \ y.u : Knows(y.m, p) \/ (p \in x.l \ x.u /\ ~Knows(x.m, p))
      BY <1>1, <2>2, <3>1, <3>3 DEF Sound, Tracked, NotToMap, Knows
    <3> QED BY <1>1, <2>2, <3>1, <3>2, <3>3, UpnpSound
  <2>4. CASE y = Unheard([x EXCEPT !.m.upnpMapped = FALSE], x.m.port)
    <3>1. /\ y \in Visits /\ y.l = x.l /\ y.u = x.u \cup {x.m.port} /\ y.m.port = x.m.port
          /\ y.m.upnpState = x.m.upnpState /\ y.m.enabled = x.m.enabled /\ y.m.upnpMapped = FALSE
      BY <2>2, <2>4 DEF Visits, Entries, Unheard
    <3>2. EntryOK(y.m)
      BY <1>1, <2>2, <3>1 DEF Sound, EntryOK
    <3>3. ASSUME "NATPMP" \notin router
          PROVE  /\ 0 \notin y.l /\ NotToMap(y.m)
                 /\ \A p \in y.l \ y.u : Knows(y.m, p) \/ (p \in x.l \ x.u /\ ~Knows(x.m, p))
      BY <1>1, <2>2, <3>1, <3>3 DEF Sound, Tracked, NotToMap, Knows
    <3> QED BY <1>1, <2>2, <3>1, <3>2, <3>3, UpnpSound
  <2> QED BY <2>1, <2>3, <2>4
<1>2. CASE ~(x.m.enabled /\ x.m.upnpMapped)
  BY <1>2 DEF UpnpPortCheck, Same
<1> QED BY <1>1, <1>2

LEMMA UpnpUnmapSound ==
  ASSUME NEW e, NEW x, Sound(e, x), NEW y \in UpnpUnmap(x)
  PROVE  Sound(e, y)
<1>1. CASE ToUnmap(x)
  <2>1. \/ y = Heard([Forget(x) EXCEPT !.l = x.l \ {x.m.port}], x.m.port)
        \/ \E l \in {x.l, x.l \ {x.m.port}} : y = Unheard([Forget(x) EXCEPT !.l = l], x.m.port)
    BY <1>1 DEF UpnpUnmap
  <2>2. /\ x \in Visits /\ x.m # Empty /\ ~x.m.enabled /\ "UPNP" \in router
        /\ x.m.port \in Ports \cup {0}
    BY <1>1 DEF Empty, Sound, ToUnmap, EntryOK, NoUpnp, Visits, Entries
  <2>3. CASE y = Heard([Forget(x) EXCEPT !.l = x.l \ {x.m.port}], x.m.port)
    <3>1. /\ y \in Visits /\ y.l = x.l \ {x.m.port} /\ y.u = x.u \ {x.m.port} /\ y.m.port = 0
          /\ y.m.upnpState = "IDLE" /\ y.m.enabled = x.m.enabled /\ y.m.upnpMapped = FALSE
      BY <2>2, <2>3 DEF Visits, Entries, UpnpStates, Heard, Forget
    <3>2. EntryOK(y.m)
      BY <2>2, <3>1 DEF Sound, EntryOK
    <3>3. ASSUME "NATPMP" \notin router
          PROVE  /\ 0 \notin y.l /\ NotToMap(y.m)
                 /\ \A p \in y.l \ y.u : Knows(y.m, p) \/ (p \in x.l \ x.u /\ ~Knows(x.m, p))
      BY <2>2, <3>1, <3>3 DEF Sound, Tracked, NotToMap, Knows
    <3> QED BY <2>2, <3>1, <3>2, <3>3, UpnpSound
  <2>4. ASSUME NEW l \in {x.l, x.l \ {x.m.port}}, y = Unheard([Forget(x) EXCEPT !.l = l], x.m.port)
        PROVE  Sound(e, y)
    <3>1. /\ y \in Visits /\ y.l = l /\ y.u = x.u \cup {x.m.port} /\ y.m.port = 0
          /\ y.m.upnpState = "IDLE" /\ y.m.enabled = x.m.enabled /\ y.m.upnpMapped = FALSE
      BY <2>2, <2>4 DEF Visits, Entries, UpnpStates, Unheard, Forget
    <3>2. EntryOK(y.m)
      BY <2>2, <2>4, <3>1 DEF Sound, EntryOK
    <3>3. ASSUME "NATPMP" \notin router
          PROVE  /\ 0 \notin y.l /\ NotToMap(y.m)
                 /\ \A p \in y.l \ y.u : Knows(y.m, p) \/ (p \in x.l \ x.u /\ ~Knows(x.m, p))
      BY <2>2, <2>4, <3>1, <3>3 DEF Sound, Tracked, NotToMap, Knows
    <3> QED BY <2>2, <2>4, <3>1, <3>2, <3>3, UpnpSound
  <2> QED BY <2>1, <2>3, <2>4
<1>2. CASE ~ToUnmap(x)
  BY <1>2 DEF UpnpUnmap, Same
<1> QED BY <1>1, <1>2

LEMMA UpnpMapSound ==
  ASSUME NEW e, NEW x, Sound(e, x), NEW y \in UpnpMap(x)
  PROVE  Sound(e, y)
<1>1. CASE ToMap(x)
  <2> DEFINE with == x.l \cup {x.m.port}
             mapped == [x EXCEPT !.m.upnpState = "IDLE", !.m.upnpMapped = TRUE, !.l = with]
  <2>1. \/ y = Heard(mapped, x.m.port)
        \/ \E l \in {x.l, with} :
              y = Unheard([x EXCEPT !.m.upnpState = "ERR", !.l = l], x.m.port)
    BY <1>1 DEF UpnpMap
  <2>2. /\ x \in Visits /\ x.m # Empty /\ ~x.m.upnpMapped /\ "UPNP" \in router
        /\ x.m.port \in Ports \cup {0} /\ ("NATPMP" \notin router => x.m.port # 0)
    BY <1>1 DEF Empty, Sound, ToMap, EntryOK, NoUpnp, Tracked, NotToMap, Visits, Entries
  <2>3. CASE y = Heard(mapped, x.m.port)
    <3>1. /\ y \in Visits /\ y.l = with /\ y.u = x.u \ {x.m.port} /\ y.m.port = x.m.port
          /\ y.m.upnpState = "IDLE" /\ y.m.upnpMapped = TRUE /\ y.m.enabled = x.m.enabled
      BY <2>2, <2>3 DEF Visits, Entries, UpnpStates, Heard
    <3>2. EntryOK(y.m)
      BY <2>2, <3>1 DEF Sound, EntryOK
    <3>3. ASSUME "NATPMP" \notin router
          PROVE  /\ 0 \notin y.l /\ NotToMap(y.m)
                 /\ \A p \in y.l \ y.u : Knows(y.m, p) \/ (p \in x.l \ x.u /\ ~Knows(x.m, p))
      BY <2>2, <3>1, <3>3 DEF Sound, Tracked, NotToMap, Knows
    <3> QED BY <2>2, <3>1, <3>2, <3>3, UpnpSound
  <2>4. ASSUME NEW l \in {x.l, with},
               y = Unheard([x EXCEPT !.m.upnpState = "ERR", !.l = l], x.m.port)
        PROVE  Sound(e, y)
    <3>1. /\ y \in Visits /\ y.l = l /\ y.u = x.u \cup {x.m.port} /\ y.m.port = x.m.port
          /\ y.m.enabled = x.m.enabled /\ y.m.upnpState = "ERR"
          /\ y.m.upnpMapped = x.m.upnpMapped
      BY <2>2, <2>4 DEF Visits, Entries, UpnpStates, Unheard
    <3>2. EntryOK(y.m)
      BY <2>2, <2>4, <3>1 DEF Sound, EntryOK
    <3>3. ASSUME "NATPMP" \notin router
          PROVE  /\ 0 \notin y.l /\ NotToMap(y.m)
                 /\ \A p \in y.l \ y.u : Knows(y.m, p) \/ (p \in x.l \ x.u /\ ~Knows(x.m, p))
      BY <2>2, <2>4, <3>1, <3>3 DEF Sound, Tracked, NotToMap, Knows
    <3> QED BY <2>2, <2>4, <3>1, <3>2, <3>3, UpnpSound
  <2> QED BY <2>1, <2>3, <2>4
<1>2. CASE ~ToMap(x)
  BY <1>2 DEF UpnpMap, Same
<1> QED BY <1>1, <1>2

LEMMA AfterCheckSound ==
  ASSUME NEW e, Visitable(e), NEW y \in AfterCheck(e)
  PROVE  Sound(e, y)
<1>1. PICK a \in AfterNatpmp(e) : \E b \in UpnpDiscover(a) : y \in UpnpPortCheck(b)
  BY DEF AfterCheck, Then
<1> QED BY <1>1, AfterNatpmpSound, UpnpDiscoverSound, UpnpPortCheckSound

LEMMA PulseSound ==
  ASSUME NEW e, Visitable(e), NEW y \in Pulse(e)
  PROVE  Sound(e, y)
<1>1. PICK a \in AfterCheck(e) : \E b \in UpnpUnmap(a) : y \in UpnpMap(b)
  BY DEF Pulse, Then
<1> QED BY <1>1, AfterCheckSound, UpnpUnmapSound, UpnpMapSound

LEMMA CutOffSound ==
  ASSUME NEW e, Visitable(e), NEW y \in CutOff(e)
  PROVE  Sound(e, y)
<1>1. CASE y = [m |-> e, l |-> leases, u |-> unheard, can |-> FALSE]
  <2>1. y \in Visits /\ y.m = e /\ y.l = leases /\ y.u = unheard
    BY <1>1 DEF Visits, Visitable
  <2> QED BY <2>1 DEF Visitable, GoodEntry, Sound, Tracked
<1>2. CASE \/ y \in AfterNatpmp(e) \cup AfterCheck(e)
           \/ \E a \in AfterNatpmp(e) : y \in UpnpDiscover(a)
  BY <1>2, AfterNatpmpSound, UpnpDiscoverSound, AfterCheckSound
<1>3. ASSUME NEW x \in AfterCheck(e), y \in CutUnmap(x)
      PROVE  Sound(e, y)
  <2>0. PICK l \in {x.l, x.l \ {x.m.port}} : y = [x EXCEPT !.m.upnpState = "UNMAP", !.l = l]
    BY <1>3 DEF CutUnmap
  <2>1. ToUnmap(x)
    BY <1>3 DEF CutUnmap
  <2>2. Sound(e, x)
    BY AfterCheckSound
  <2>3. x \in Visits /\ x.m # Empty /\ ~x.m.enabled /\ "UPNP" \in router
    BY <2>1, <2>2 DEF Empty, Sound, ToUnmap, EntryOK, NoUpnp
  <2>4. /\ y \in Visits /\ y.l = l /\ y.u = x.u /\ y.m.upnpState = "UNMAP"
        /\ y.m.port = x.m.port /\ y.m.enabled = x.m.enabled /\ y.m.upnpMapped = x.m.upnpMapped
    BY <2>0, <2>3 DEF Visits, Entries, UpnpStates
  <2>5. EntryOK(y.m)
    BY <2>2, <2>3, <2>4 DEF Sound, EntryOK
  <2>6. ASSUME "NATPMP" \notin router
        PROVE  /\ 0 \notin y.l /\ NotToMap(y.m)
               /\ \A p \in y.l \ y.u : Knows(y.m, p) \/ (p \in x.l \ x.u /\ ~Knows(x.m, p))
    BY <2>2, <2>3, <2>4, <2>6 DEF Sound, Tracked, NotToMap, Knows
  <2> QED BY <2>2, <2>3, <2>4, <2>5, <2>6, UpnpSound
<1>4. ASSUME NEW x \in AfterCheck(e), y \in CutMap(x)
      PROVE  Sound(e, y)
  <2>0. PICK l \in {x.l, x.l \cup {x.m.port}} :
          y = Unheard([x EXCEPT !.m.upnpState = "MAP", !.l = l], x.m.port)
    BY <1>4 DEF CutMap
  <2>1. ToMap(x)
    BY <1>4 DEF CutMap
  <2>2. Sound(e, x)
    BY AfterCheckSound
  <2>3. /\ x \in Visits /\ x.m # Empty /\ ~x.m.upnpMapped /\ "UPNP" \in router
        /\ x.m.port \in Ports \cup {0} /\ ("NATPMP" \notin router => x.m.port # 0)
    BY <2>1, <2>2 DEF Empty, Sound, ToMap, EntryOK, NoUpnp, Tracked, NotToMap, Visits, Entries
  <2>4. /\ y \in Visits /\ y.l = l /\ y.u = x.u \cup {x.m.port} /\ y.m.upnpState = "MAP"
        /\ y.m.port = x.m.port /\ y.m.enabled = x.m.enabled /\ y.m.upnpMapped = x.m.upnpMapped
    BY <2>0, <2>3 DEF Visits, Entries, UpnpStates, Unheard
  <2>5. EntryOK(y.m)
    BY <2>2, <2>3, <2>4 DEF Sound, EntryOK
  <2>6. ASSUME "NATPMP" \notin router
        PROVE  /\ 0 \notin y.l /\ NotToMap(y.m)
               /\ \A p \in y.l \ y.u : Knows(y.m, p) \/ (p \in x.l \ x.u /\ ~Knows(x.m, p))
    BY <2>2, <2>3, <2>4, <2>6 DEF Sound, Tracked, NotToMap, Knows
  <2> QED BY <2>2, <2>3, <2>4, <2>5, <2>6, UpnpSound
<1>5. \/ y = [m |-> e, l |-> leases, u |-> unheard, can |-> FALSE]
      \/ y \in AfterNatpmp(e) \cup AfterCheck(e)
      \/ \E a \in AfterNatpmp(e) : y \in UpnpDiscover(a)
      \/ \E x \in AfterCheck(e) : y \in CutUnmap(x) \/ y \in CutMap(x)
  BY DEF CutOff, Then
<1> QED BY <1>1, <1>2, <1>3, <1>4, <1>5

-----------------------------------------------------------------------------
(* Types, and steps that leave some variables alone. *)

TableTypes ==
  /\ g_maps \in [Slots -> {e \in Entries : e.enabled \/ e = Empty}]
  /\ g_unmaps \in [Slots -> {e \in Entries : ~e.enabled}]
LeaseTypes ==
  /\ router \in Routers /\ faults \in 0 .. Faults
  /\ leases \subseteq Ports \cup {0} /\ unheard \subseteq Ports \cup {0}
ControlTypes ==
  /\ g_running \in BOOLEAN /\ g_stop \in BOOLEAN /\ g_mutex \in {"free", "thread", "lost"}
  /\ thread \in {"none", "created", "looping", "unmaps", "toUnmap", "maps", "toMap", "delay", "ending"}
  /\ at \in 1 .. MAX_MAPS + 1 /\ scan \in 1 .. MAX_MAPS + 1
  /\ main \in {"idle", "starting", "removing", "clearing", "stopping", "hung"}

LEMMA TypeParts ==
  /\ TypeOK <=> TableTypes /\ LeaseTypes /\ ControlTypes
  /\ TypeOK' <=> TableTypes' /\ LeaseTypes' /\ ControlTypes'
BY Zenon DEF TypeOK, TableTypes, LeaseTypes, ControlTypes

DataInv == TableTypes /\ LeaseTypes /\ EntriesInv /\ LeasesInv

LEMMA DataKept == DataInv /\ UNCHANGED tables /\ UNCHANGED world => DataInv'
<1> SUFFICES ASSUME DataInv, UNCHANGED tables, UNCHANGED world
             PROVE  DataInv'
  OBVIOUS
<1>1. /\ g_maps' = g_maps /\ g_unmaps' = g_unmaps /\ router' = router /\ leases' = leases
      /\ faults' = faults /\ unheard' = unheard
  BY DEF tables, world
<1> QED BY <1>1, Zenon DEF DataInv, TableTypes, LeaseTypes, EntriesInv, GoodEntry, LeasesInv, Known

LEMMA FirstIn == \A S \in SUBSET Slots : S # {} => First(S) \in S
<1> SUFFICES ASSUME NEW S \in SUBSET Slots, S # {}
             PROVE  First(S) \in S
  OBVIOUS
<1>1. S \subseteq Nat
  BY RoutersAssumption DEF Slots
<1>2. \E i \in S : \A j \in S : ~(<<j, i>> \in OpToRel(<, Nat))
  BY <1>1, NatLessThanWellFounded, WFMin
<1>3. PICK i \in S : \A j \in S : ~(<<j, i>> \in OpToRel(<, Nat))
  BY <1>2
<1>4. \A j \in S : i <= j
  <2> TAKE j \in S
  <2>1. <<j, i>> \in Nat \X Nat
    BY <1>1
  <2>2. j < i => <<j, i>> \in OpToRel(<, Nat)
    BY <2>1, Zenon DEF OpToRel
  <2>3. ~(j < i)
    BY <1>3, <2>2, Zenon
  <2> QED BY <1>1, <2>3
<1> QED BY <1>4 DEF First

-----------------------------------------------------------------------------
(* The tables and the leases, operation by operation. An entry is replaced *)
(* only if it is free, so that it knows of no lease, or by one that knows  *)
(* what it knew.                                                           *)

\* i of g_maps and k of g_unmaps are written: a and b are the new entries.
Written(i, a, k, b) ==
  /\ g_maps' = [g_maps EXCEPT ![i] = a]
  /\ g_unmaps' = [g_unmaps EXCEPT ![k] = b]

LEMMA WrittenData ==
  ASSUME DataInv, NEW i \in Slots, NEW k \in Slots, NEW a, NEW b, Written(i, a, k, b),
         a \in Entries, a.enabled \/ a = Empty, b \in Entries, ~b.enabled,
         GoodEntry(a), GoodEntry(b),
         router' = router, LeaseTypes',
         "UPNP" \notin router => leases' = {},
         "NATPMP" \notin router => 0 \notin leases',
         "NATPMP" \notin router => \A p \in leases' \ unheard' :
            \/ Knows(a, p) \/ Knows(b, p)
            \/ /\ p \in leases \ unheard
               /\ ~Knows(g_maps[i], p) /\ ~Knows(g_unmaps[k], p)
  PROVE  DataInv'
<1>1. /\ g_maps \in [Slots -> Entries] /\ g_unmaps \in [Slots -> Entries]
      /\ \A j \in Slots : g_maps'[j] = IF j = i THEN a ELSE g_maps[j]
      /\ \A j \in Slots : g_unmaps'[j] = IF j = k THEN b ELSE g_unmaps[j]
  BY DEF DataInv, TableTypes, Written
<1>2. TableTypes'
  BY DEF DataInv, TableTypes, Written
<1>3. EntriesInv'
  BY <1>1 DEF DataInv, EntriesInv, GoodEntry
<1>4. ASSUME "NATPMP" \notin router, NEW p \in leases' \ unheard'
      PROVE  Known(p)'
  <2>1. CASE Knows(a, p) \/ Knows(b, p)
    BY <1>1, <2>1 DEF Known, Knows
  <2>2. CASE p \in leases \ unheard /\ ~Knows(g_maps[i], p) /\ ~Knows(g_unmaps[k], p)
    <3>1. Known(p)
      BY <1>4, <2>2 DEF DataInv, LeasesInv
    <3>2. PICK j \in Slots : Knows(g_maps[j], p) \/ Knows(g_unmaps[j], p)
      BY <3>1 DEF Known
    <3>3. Knows(g_maps'[j], p) \/ Knows(g_unmaps'[j], p)
      BY <1>1, <2>2, <3>2
    <3> QED BY <3>3 DEF Known, Knows
  <2> QED BY <1>4, <2>1, <2>2
<1>5. LeasesInv'
  BY <1>4 DEF LeasesInv
<1> QED BY <1>2, <1>3, <1>5 DEF DataInv

LEMMA FreeIn ==
  DataInv => /\ Free(g_maps) # {} => First(Free(g_maps)) \in Free(g_maps)
             /\ Free(g_unmaps) # {} => First(Free(g_unmaps)) \in Free(g_unmaps)
BY FirstIn DEF Free

LEMMA Unwritten ==
  DataInv => \A i \in Slots :
    /\ [g_maps EXCEPT ![i] = g_maps[i]] = g_maps
    /\ [g_unmaps EXCEPT ![i] = g_unmaps[i]] = g_unmaps
    /\ g_maps[i] \in Entries /\ (g_maps[i].enabled \/ g_maps[i] = Empty) /\ GoodEntry(g_maps[i])
    /\ g_unmaps[i] \in Entries /\ ~g_unmaps[i].enabled /\ GoodEntry(g_unmaps[i])
BY DEF DataInv, TableTypes, EntriesInv

LEMMA AddItemData ==
  ASSUME DataInv, NEW p \in Ports, maps_add_item(p)
  PROVE  DataInv'
<1> DEFINE i == First(Free(g_maps))
<1>1. /\ i \in Slots /\ g_maps[i].port = 0 /\ g_maps' = [g_maps EXCEPT ![i] = NewEntry(p)]
      /\ g_unmaps' = g_unmaps
  BY FreeIn DEF maps_add_item, Free
<1> HIDE DEF i
<1>2. Written(i, NewEntry(p), i, g_unmaps[i])
  BY <1>1, Unwritten DEF Written
<1>3. NewEntry(p) \in Entries /\ NewEntry(p).enabled /\ GoodEntry(NewEntry(p))
  BY RoutersAssumption DEF NewEntry, Empty, Entries, UpnpStates, PmpStates, GoodEntry, EntryOK,
     NotToMap, NoUpnp
<1>4. router' = router /\ leases' = leases /\ unheard' = unheard /\ faults' = faults
  BY DEF maps_add_item, world
<1>5. \A q \in leases \ unheard : "NATPMP" \notin router =>
        Knows(g_unmaps[i], q) \/ (~Knows(g_maps[i], q) /\ ~Knows(g_unmaps[i], q))
  BY <1>1 DEF DataInv, LeasesInv, Knows
<1>6. g_unmaps[i] \in Entries /\ ~g_unmaps[i].enabled /\ GoodEntry(g_unmaps[i])
  BY <1>1, Unwritten
<1> QED BY <1>1, <1>2, <1>3, <1>4, <1>5, <1>6, WrittenData DEF DataInv, LeaseTypes, LeasesInv

LEMMA MoveData ==
  ASSUME DataInv, NEW i \in Slots, g_maps[i].enabled, Free(g_unmaps) # {}, Move(i),
         UNCHANGED world
  PROVE  DataInv'
<1> DEFINE k == First(Free(g_unmaps))
           e == g_maps[i]
           b == [e EXCEPT !.enabled = FALSE]
<1>1. k \in Slots /\ g_unmaps[k].port = 0 /\ Written(i, Empty, k, b)
  BY FreeIn DEF Move, Free, Written
<1>2. e \in Entries /\ GoodEntry(e) /\ e.enabled
  BY Unwritten
<1>3. /\ b \in Entries /\ ~b.enabled /\ b.port = e.port /\ b.upnpMapped = e.upnpMapped
      /\ b.upnpState = e.upnpState
  BY <1>2 DEF Entries
<1>4. GoodEntry(b)
  BY <1>2, <1>3 DEF GoodEntry, EntryOK, NotToMap, NoUpnp
<1>5. Empty \in Entries /\ GoodEntry(Empty)
  BY EmptyType DEF GoodEntry, EntryOK, NotToMap, NoUpnp, Empty
<1>6. router' = router /\ leases' = leases /\ unheard' = unheard /\ faults' = faults
  BY DEF world
<1>7. \A q \in leases \ unheard : "NATPMP" \notin router =>
        Knows(b, q) \/ (~Knows(g_maps[i], q) /\ ~Knows(g_unmaps[k], q))
  BY <1>1, <1>3 DEF DataInv, LeasesInv, Knows
<1> HIDE DEF k, e, b
<1> QED BY <1>1, <1>3, <1>4, <1>5, <1>6, <1>7, WrittenData DEF DataInv, LeaseTypes, LeasesInv

LEMMA RemoveItemData ==
  ASSUME DataInv, NEW p \in Ports, maps_remove_item(p)
  PROVE  DataInv'
<1>1. CASE Mapped(p) # {} /\ Move(First(Mapped(p)))
  <2>1. First(Mapped(p)) \in Mapped(p)
    BY <1>1, FirstIn DEF Mapped
  <2>2. First(Mapped(p)) \in Slots /\ g_maps[First(Mapped(p))].enabled
    BY <2>1 DEF Mapped
  <2> QED BY <1>1, <2>2, MoveData DEF maps_remove_item
<1>2. CASE /\ g_unmaps' = [g_unmaps EXCEPT ![First(Free(g_unmaps))] = [Empty EXCEPT !.port = p]]
           /\ UNCHANGED g_maps
  <2> DEFINE k == First(Free(g_unmaps))
             b == [Empty EXCEPT !.port = p]
  <2>1. k \in Slots /\ g_unmaps[k].port = 0 /\ g_unmaps' = [g_unmaps EXCEPT ![k] = b]
    BY <1>2, FreeIn DEF maps_remove_item, Free
  <2>2. b \in Entries /\ ~b.enabled /\ GoodEntry(b)
    BY RoutersAssumption DEF Empty, Entries, UpnpStates, PmpStates, GoodEntry, EntryOK,
       NotToMap, NoUpnp
  <2> HIDE DEF k, b
  <2>3. Written(k, g_maps[k], k, b)
    BY <1>2, <2>1, Unwritten DEF Written
  <2>4. router' = router /\ leases' = leases /\ unheard' = unheard /\ faults' = faults
    BY DEF maps_remove_item, world
  <2>5. \A q \in leases \ unheard : "NATPMP" \notin router =>
          Knows(g_maps[k], q) \/ (~Knows(g_maps[k], q) /\ ~Knows(g_unmaps[k], q))
    BY <2>1 DEF DataInv, LeasesInv, Knows
  <2>6. g_maps[k] \in Entries /\ (g_maps[k].enabled \/ g_maps[k] = Empty) /\ GoodEntry(g_maps[k])
    BY <2>1, Unwritten
  <2> QED BY <2>1, <2>2, <2>3, <2>4, <2>5, <2>6, WrittenData DEF DataInv, LeaseTypes, LeasesInv
<1> QED BY <1>1, <1>2 DEF maps_remove_item

LEMMA HereVisitable ==
  ASSUME DataInv, at \in Slots
  PROVE  Visitable(Here[at])
<1>1. Here[at] \in Entries /\ GoodEntry(Here[at])
  BY Unwritten DEF Here
<1> QED BY <1>1 DEF Visitable, DataInv, LeaseTypes, LeasesInv

\* The entry becomes m, which knows what y.m knows.
LEMMA VisitData ==
  ASSUME DataInv, at \in Slots, NEW y, Sound(Here[at], y),
         NEW m, m = y.m \/ (m = Empty /\ ~InMaps /\ ~y.m.upnpMapped), Visited(m),
         leases' = y.l, router' = router, faults' \in 0 .. Faults,
         unheard' = y.u \cap y.l
  PROVE  DataInv'
<1>1. /\ y \in Visits /\ EntryOK(y.m) /\ y.m.enabled = Here[at].enabled
      /\ Here[at] = Empty => y.m = Empty
      /\ "NATPMP" \notin router => Tracked(Here[at], y)
      /\ "UPNP" \notin router => NoUpnp(y.m) /\ y.l = {}
  BY DEF Sound
<1>2. Empty \in Entries /\ ~Empty.enabled /\ GoodEntry(Empty)
  BY EmptyType DEF GoodEntry, EntryOK, NotToMap, NoUpnp, Empty
<1>3. m \in Entries /\ GoodEntry(m)
  BY <1>1, <1>2 DEF Visits, GoodEntry, Tracked
<1>4. LeaseTypes'
  BY <1>1 DEF LeaseTypes, DataInv, Visits
<1>5. "UPNP" \notin router => leases' = {}
  BY <1>1
<1>6. "NATPMP" \notin router =>
        /\ 0 \notin leases'
        /\ \A p \in leases' \ unheard' :
             Knows(m, p) \/ (p \in leases \ unheard /\ ~Knows(Here[at], p))
  BY <1>1 DEF Tracked, Knows
<1>7. CASE InMaps
  <2>1. Here = g_maps /\ g_maps' = [g_maps EXCEPT ![at] = m] /\ g_unmaps' = g_unmaps
    BY <1>7 DEF Here, Visited
  <2>2. Written(at, m, at, g_unmaps[at])
    BY <2>1, Unwritten DEF Written
  <2>3. m.enabled \/ m = Empty
    BY <1>1, <1>7, <2>1, Unwritten
  <2>4. g_unmaps[at] \in Entries /\ ~g_unmaps[at].enabled /\ GoodEntry(g_unmaps[at])
    BY Unwritten
  <2>5. "NATPMP" \notin router => \A p \in leases' \ unheard' :
          \/ Knows(m, p) \/ Knows(g_unmaps[at], p)
          \/ /\ p \in leases \ unheard
             /\ ~Knows(g_maps[at], p) /\ ~Knows(g_unmaps[at], p)
    BY <1>6, <2>1
  <2> QED BY <1>3, <1>4, <1>5, <1>6, <2>2, <2>3, <2>4, <2>5, WrittenData
<1>8. CASE ~InMaps
  <2>1. Here = g_unmaps /\ g_unmaps' = [g_unmaps EXCEPT ![at] = m] /\ g_maps' = g_maps
    BY <1>8 DEF Here, Visited
  <2>2. Written(at, g_maps[at], at, m)
    BY <2>1, Unwritten DEF Written
  <2>3. ~m.enabled
    BY <1>1, <1>2, <2>1, Unwritten
  <2>4. /\ g_maps[at] \in Entries /\ (g_maps[at].enabled \/ g_maps[at] = Empty)
        /\ GoodEntry(g_maps[at])
    BY Unwritten
  <2>5. "NATPMP" \notin router => \A p \in leases' \ unheard' :
          \/ Knows(g_maps[at], p) \/ Knows(m, p)
          \/ /\ p \in leases \ unheard
             /\ ~Knows(g_maps[at], p) /\ ~Knows(g_unmaps[at], p)
    BY <1>6, <2>1
  <2> QED BY <1>3, <1>4, <1>5, <1>6, <2>2, <2>3, <2>4, <2>5, WrittenData
<1> QED BY <1>7, <1>8

LEMMA EndVisitData ==
  ASSUME DataInv, at \in Slots, EndVisit
  PROVE  DataInv'
<1>1. PICK y \in Pulse(Here[at]) :
        leases' = y.l /\ unheard' = y.u \cap y.l /\ Visited(IF InMaps \/ ~Unmapped(y.m) THEN y.m ELSE Empty)
  BY DEF EndVisit
<1>2. Sound(Here[at], y)
  BY HereVisitable, PulseSound
<1>3. Unmapped(y.m) => ~y.m.upnpMapped
  BY <1>2 DEF Sound, EntryOK, Unmapped, UpnpUnmapped
<1> DEFINE m == IF InMaps \/ ~Unmapped(y.m) THEN y.m ELSE Empty
<1>4. Visited(m) /\ (m = y.m \/ (m = Empty /\ ~InMaps /\ ~y.m.upnpMapped))
  BY <1>1, <1>3
<1> HIDE DEF m
<1>5. router' = router /\ faults' = faults /\ faults \in 0 .. Faults
  BY DEF EndVisit, DataInv, LeaseTypes
<1> QED BY <1>1, <1>2, <1>4, <1>5, VisitData

LEMMA CancelData ==
  ASSUME DataInv, g_mutex = "thread" => at \in Slots, CancelThread
  PROVE  DataInv'
<1>1. CASE UNCHANGED tables /\ UNCHANGED world
  BY <1>1, DataKept
<1>2. CASE /\ g_mutex = "thread" /\ faults < Faults /\ faults' = faults + 1 /\ UNCHANGED router
           /\ \E y \in CutOff(Here[at]) : Visited(y.m) /\ leases' = y.l /\ unheard' = y.u \cap y.l
  <2>1. PICK y \in CutOff(Here[at]) : Visited(y.m) /\ leases' = y.l /\ unheard' = y.u \cap y.l
    BY <1>2
  <2>2. Sound(Here[at], y)
    BY <1>2, HereVisitable, CutOffSound
  <2>3. router' = router /\ faults' \in 0 .. Faults
    BY <1>2, RoutersAssumption DEF DataInv, LeaseTypes
  <2> QED BY <1>2, <2>1, <2>2, <2>3, VisitData
<1> QED BY <1>1, <1>2 DEF CancelThread

LEMMA ResetData ==
  ASSUME DataInv, RouterReset
  PROVE  DataInv'
<1>1. /\ g_maps' = g_maps /\ g_unmaps' = g_unmaps /\ router' = router /\ leases' = {}
      /\ unheard' = {}
  BY DEF RouterReset, tables
<1>2. LeaseTypes'
  BY RoutersAssumption DEF RouterReset, DataInv, LeaseTypes
<1>3. TableTypes' /\ EntriesInv'
  BY <1>1, Zenon DEF DataInv, TableTypes, EntriesInv, GoodEntry
<1> QED BY <1>1, <1>2, <1>3 DEF DataInv, LeasesInv

LEMMA RemoveNextData ==
  ASSUME DataInv, scan \in 1 .. MAX_MAPS + 1, RemoveNext
  PROVE  DataInv'
<1>1. CASE UNCHANGED tables
  BY <1>1, DataKept DEF RemoveNext
<1>2. CASE scan <= MAX_MAPS /\ g_maps[scan].enabled /\ Free(g_unmaps) # {} /\ Move(scan)
  <2>1. scan \in Slots
    BY <1>2, RoutersAssumption DEF Slots
  <2> QED BY <1>2, <2>1, MoveData DEF RemoveNext
<1>3. scan <= MAX_MAPS \/ scan > MAX_MAPS
  BY RoutersAssumption
<1> QED BY <1>1, <1>2, <1>3 DEF RemoveNext

-----------------------------------------------------------------------------
(* The event loop and the thread. *)

ControlInv == ControlTypes /\ ThreadInv

LEMMA MapperParts ==
  /\ MapperInv <=> ControlInv /\ DataInv
  /\ MapperInv' <=> ControlInv' /\ DataInv'
BY TypeParts, Zenon DEF MapperInv, ControlInv, DataInv

LEMMA CommandsControl ==
  ASSUME ControlInv, Commands
  PROVE  ControlInv'
<1>1. ASSUME NEW p \in Ports, maps_add_item(p) \/ maps_remove_item(p)
      PROVE  ControlInv'
  BY <1>1 DEF maps_add_item, maps_remove_item, flags, ControlInv, ControlTypes, ThreadInv
<1>2. CASE RemoveAllMaps
  BY <1>2, RoutersAssumption DEF RemoveAllMaps, flags, ControlInv, ControlTypes, ThreadInv
<1>3. CASE StartThread
  BY <1>3, RoutersAssumption DEF StartThread, flags, ControlInv, ControlTypes, ThreadInv
<1>4. CASE StopThread
  BY <1>4 DEF StopThread, ControlInv, ControlTypes, ThreadInv
<1>5. CASE HangOnMutex
  BY <1>5 DEF HangOnMutex, flags, ControlInv, ControlTypes, ThreadInv
<1> QED BY <1>1, <1>2, <1>3, <1>4, <1>5 DEF Commands

LEMMA WaitsControl ==
  ASSUME ControlInv, Waits
  PROVE  ControlInv'
<1>1. CASE RemoveNext
  <2>1. scan' \in 1 .. MAX_MAPS + 1
    BY <1>1, RoutersAssumption DEF RemoveNext, ControlInv, ControlTypes
  <2> QED BY <1>1, <2>1 DEF RemoveNext, flags, ControlInv, ControlTypes, ThreadInv
<1>2. CASE ClearingEnds
  BY <1>2, RoutersAssumption DEF ClearingEnds, flags, ControlInv, ControlTypes, ThreadInv
<1>3. CASE ThreadStarted
  BY <1>3 DEF ThreadStarted, ControlInv, ControlTypes, ThreadInv
<1>4. CASE ThreadStopped
  BY <1>4 DEF ThreadStopped, ControlInv, ControlTypes, ThreadInv
<1>5. CASE CancelThread
  BY <1>5, RoutersAssumption DEF CancelThread, flags, ControlInv, ControlTypes, ThreadInv
<1> QED BY <1>1, <1>2, <1>3, <1>4, <1>5 DEF Waits

LEMMA ThreadControl ==
  ASSUME ControlInv, Thread
  PROVE  ControlInv'
<1>0. 1 \in 1 .. MAX_MAPS + 1
  BY RoutersAssumption
<1>1. CASE ThreadBegins
  BY <1>0, <1>1 DEF ThreadBegins, Lock, Go, ControlInv, ControlTypes, ThreadInv
<1>2. CASE Loop
  BY <1>0, <1>2 DEF Loop, Go, ControlInv, ControlTypes, ThreadInv
<1>3. CASE EndOfPass
  BY <1>0, <1>3 DEF EndOfPass, Go, ControlInv, ControlTypes, ThreadInv
<1>4. CASE DelayEnds
  BY <1>0, <1>4 DEF DelayEnds, Go, ControlInv, ControlTypes, ThreadInv
<1>5. CASE ThreadEnds
  BY <1>0, <1>5 DEF ThreadEnds, Lock, Go, ControlInv, ControlTypes, ThreadInv
<1>6. CASE Skip
  <2>1. at' \in 1 .. MAX_MAPS + 1
    BY <1>6, RoutersAssumption DEF Skip, ControlInv, ControlTypes
  <2> QED BY <1>6, <2>1 DEF Skip, flags, ControlInv, ControlTypes, ThreadInv
<1>7. CASE ChooseVisit
  BY <1>7 DEF ChooseVisit, Choose, flags, ControlInv, ControlTypes, ThreadInv
<1>8. CASE BeginVisit
  BY <1>8 DEF BeginVisit, Lock, flags, ControlInv, ControlTypes, ThreadInv
<1>9. CASE EndVisit
  <2>1. at' \in 1 .. MAX_MAPS + 1
    BY <1>9, RoutersAssumption DEF EndVisit, ControlInv, ControlTypes, ThreadInv
  <2> QED BY <1>9, <2>1 DEF EndVisit, flags, ControlInv, ControlTypes, ThreadInv
<1> QED BY <1>1, <1>2, <1>3, <1>4, <1>5, <1>6, <1>7, <1>8, <1>9 DEF Thread, Visit

LEMMA VisitInTable == ControlInv /\ g_mutex = "thread" => at \in Slots
BY RoutersAssumption DEF ControlInv, ControlTypes, ThreadInv, Slots

LEMMA InitInv == Init => MapperInv
<1> SUFFICES ASSUME Init
             PROVE  MapperInv
  OBVIOUS
<1>0. 1 \in 1 .. MAX_MAPS + 1
  BY RoutersAssumption
<1>1. ControlInv
  BY <1>0 DEF Init, ControlInv, ControlTypes, ThreadInv
<1>2. TableTypes /\ LeaseTypes
  BY EmptyType, RoutersAssumption DEF Init, TableTypes, LeaseTypes, Empty
<1>3. EntriesInv /\ LeasesInv
  BY DEF Init, EntriesInv, GoodEntry, EntryOK, NotToMap, NoUpnp, LeasesInv, Empty
<1> QED BY <1>1, <1>2, <1>3, MapperParts DEF DataInv

LEMMA NextInv == MapperInv /\ [Next]_vars => MapperInv'
<1> SUFFICES ASSUME ControlInv, DataInv, [Next]_vars
             PROVE  ControlInv' /\ DataInv'
  BY MapperParts
<1>1. CASE Commands
  <2>1. ControlInv'
    BY <1>1, CommandsControl
  <2>2. ASSUME NEW p \in Ports, maps_add_item(p) \/ maps_remove_item(p)
        PROVE  DataInv'
    BY <2>2, AddItemData, RemoveItemData
  <2>3. CASE RemoveAllMaps \/ StartThread \/ StopThread \/ HangOnMutex
    BY <2>1, <2>3, DataKept DEF RemoveAllMaps, StartThread, StopThread, HangOnMutex
  <2> QED BY <1>1, <2>1, <2>2, <2>3 DEF Commands
<1>2. CASE Waits
  <2>1. ControlInv'
    BY <1>2, WaitsControl
  <2>2. CASE RemoveNext
    BY <2>1, <2>2, RemoveNextData DEF ControlInv, ControlTypes
  <2>3. CASE CancelThread
    BY <2>1, <2>3, CancelData, VisitInTable
  <2>4. CASE ClearingEnds \/ ThreadStarted \/ ThreadStopped
    BY <2>1, <2>4, DataKept DEF ClearingEnds, ThreadStarted, ThreadStopped
  <2> QED BY <1>2, <2>1, <2>2, <2>3, <2>4 DEF Waits
<1>3. CASE Thread
  <2>1. ControlInv'
    BY <1>3, ThreadControl
  <2>2. CASE EndVisit
    <3>1. at \in Slots
      BY <2>2, VisitInTable DEF EndVisit
    <3> QED BY <2>1, <2>2, <3>1, EndVisitData
  <2>3. CASE ~EndVisit
    <3>1. UNCHANGED tables /\ UNCHANGED world
      BY <1>3, <2>3 DEF Thread, Visit, ThreadBegins, Loop, EndOfPass, DelayEnds, ThreadEnds, Go,
         Skip, ChooseVisit, Choose, BeginVisit
    <3> QED BY <2>1, <3>1, DataKept
  <2> QED BY <2>1, <2>2, <2>3
<1>4. CASE RouterReset
  BY <1>4, ResetData DEF RouterReset, flags, ControlInv, ControlTypes, ThreadInv
<1>5. CASE UNCHANGED vars
  <2>1. UNCHANGED tables /\ UNCHANGED world
    BY <1>5 DEF vars
  <2>2. ControlInv'
    BY <1>5 DEF vars, flags, ControlInv, ControlTypes, ThreadInv
  <2> QED BY <2>1, <2>2, DataKept
<1> QED BY <1>1, <1>2, <1>3, <1>4, <1>5 DEF Next

(* The invariant of the port mapper holds in every behaviour.              *)
LEMMA MapperInvariant == Spec => []MapperInv
BY InitInv, NextInv, PTL DEF Spec

(* Every variable of upnp_stubs.c keeps its type; in particular g_maps     *)
(* holds enabled entries only and g_unmaps none, whatever the thread and   *)
(* the event loop do to the tables in turn.                                *)
THEOREM MapperTypeCorrect == Spec => []TypeOK
<1>1. MapperInv => TypeOK
  BY DEF MapperInv
<1> QED BY <1>1, MapperInvariant, PTL

(* upnp_thread_start never creates a second thread: when the event loop    *)
(* finds g_running unset the last thread has ended or was cancelled.       *)
THEOREM OneThreadOnly == Spec => []OneThread
<1>1. MapperInv => OneThread
  BY DEF MapperInv, ThreadInv, OneThread
<1> QED BY <1>1, MapperInvariant, PTL

(* With a router that speaks one protocol, a port that it forwards for     *)
(* UPnP is in one of the tables as mapped, but for those whose last        *)
(* request was refused, went unanswered or was cut off by                  *)
(* upnp_thread_stop.                                                       *)
THEOREM LeasesStayKnown == Spec => []LeasesAreKnown
<1>1. MapperInv => LeasesAreKnown
  <2> SUFFICES ASSUME MapperInv, router # {"UPNP", "NATPMP"}, NEW p \in leases \ unheard
               PROVE  Known(p)
    BY DEF LeasesAreKnown, KnownLease, Known, Knows
  <2>1. router \subseteq {"UPNP", "NATPMP"}
    BY RoutersAssumption DEF MapperInv, TypeOK
  <2>2. "UPNP" \notin router \/ "NATPMP" \notin router
    BY <2>1
  <2> QED BY <2>2 DEF MapperInv, LeasesInv
<1> QED BY <1>1, MapperInvariant, PTL

\* Both tables are free: nothing is left to ask the router for.
TablesFree == Free(g_maps) = Slots /\ Free(g_unmaps) = Slots

(* remove_all_maps clears a router that speaks one protocol: once both     *)
(* tables are free it forwards nothing, but for the ports whose last       *)
(* request got no answer or was refused. (With both protocols this fails:  *)
(* RouterIsCleared.)                                                       *)
THEOREM OneProtocolIsCleared ==
  Spec => [](router # {"UPNP", "NATPMP"} /\ TablesFree => leases \subseteq unheard)
<1>1. MapperInv /\ LeasesAreKnown /\ router # {"UPNP", "NATPMP"} /\ TablesFree
        => leases \subseteq unheard
  <2> SUFFICES ASSUME MapperInv, LeasesAreKnown, router # {"UPNP", "NATPMP"}, TablesFree,
                      NEW p \in leases \ unheard
               PROVE  FALSE
    OBVIOUS
  <2>1. PICK i \in Slots : g_maps[i].port = p \/ g_unmaps[i].port = p
    BY DEF LeasesAreKnown, KnownLease
  <2>2. i \in Free(g_maps) /\ i \in Free(g_unmaps)
    BY DEF TablesFree
  <2>3. p = 0
    BY <2>1, <2>2 DEF Free
  <2>4. router \subseteq {"UPNP", "NATPMP"}
    BY RoutersAssumption DEF MapperInv, TypeOK
  <2>5. "NATPMP" \notin router \/ "UPNP" \notin router
    BY <2>4
  <2> QED BY <2>3, <2>5 DEF MapperInv, LeasesInv
<1> QED BY <1>1, MapperInvariant, LeasesStayKnown, PTL
=============================================================================
