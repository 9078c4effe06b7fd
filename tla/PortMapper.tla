----------------------------- MODULE PortMapper -----------------------------
(***************************************************************************)
(* Port forwarding (upnp_stubs.c): the tables g_maps and g_unmaps, the     *)
(* thread that asks the router for what they say, over UPnP and NAT-PMP,   *)
(* and the event loop, which changes the tables and starts and stops the   *)
(* thread.                                                                 *)
(*                                                                         *)
(* Two actors and the router. The thread picks one entry at a time without *)
(* a lock and visits it under g_mutex; the event loop sleeps while it      *)
(* waits for the thread to stop or to clear the router. A thread that is   *)
(* cancelled stops in the call of the library that it waits in, in the     *)
(* middle of a request. A port is both intPort and extPort of an entry, as *)
(* in driverMain.ml. Clocks are left out: any entry may be due, a command  *)
(* too early, a lease up for renewal. The router may refuse any request,   *)
(* and the answer to any may be lost.                                      *)
(***************************************************************************)
EXTENDS Naturals, Sequences

CONSTANTS
  Ports,
  MAX_MAPS,
  Routers,      \* sets of protocols a router may speak
  Faults        \* bound: how often the router forgets everything or the
                \* thread is cancelled in the middle of a visit

ASSUME RoutersAssumption ==
  /\ MAX_MAPS \in Nat \ {0} /\ Faults \in Nat
  /\ Routers \subseteq SUBSET {"UPNP", "NATPMP"}
  /\ 0 \notin Ports      \* extPort is 0 in a free entry

VARIABLES
  g_maps, g_unmaps,     \* tables of entries
  g_running, g_stop,
  g_mutex,              \* "free", "thread", or "lost": its owner was cancelled
  thread, at,           \* where the thread is, and at which entry
  main, scan,           \* where the event loop is; the entry remove_all_maps is at
  router, leases,       \* what the router speaks; the ports it forwards for UPnP
  faults,
  unheard               \* history: the leases whose last request the router did
                        \* not answer with a success

tables == <<g_maps, g_unmaps>>
flags == <<g_running, g_stop>>
world == <<router, leases, faults, unheard>>
vars == <<tables, flags, g_mutex, thread, at, main, scan, world>>

Slots == 1 .. MAX_MAPS
\* MAP and UNMAP only outlive a pulse that was cut off.
UpnpStates == {"DISCOVER", "IDLE", "ERR", "MAP", "UNMAP"}
PmpStates == {"DISCOVER", "RECV_PUB", "IDLE", "ERR", "SEND_UNMAP", "RECV_UNMAP", "SEND_MAP",
              "RECV_MAP"}
Entries == [port : Ports \cup {0}, enabled : BOOLEAN,
            upnpState : UpnpStates, upnpMapped : BOOLEAN,
            natpmpState : PmpStates, natpmpMapped : BOOLEAN]

\* memset(..., 0, ...).
Empty == [port |-> 0, enabled |-> FALSE, upnpState |-> "IDLE", upnpMapped |-> FALSE,
          natpmpState |-> "IDLE", natpmpMapped |-> FALSE]
NewEntry(p) == [Empty EXCEPT !.port = p, !.enabled = TRUE, !.upnpState = "DISCOVER",
                             !.natpmpState = "DISCOVER"]

(* Every variable keeps its type; g_maps holds enabled entries only,       *)
(* g_unmaps none. The router may even be asked to forward port 0: NAT-PMP  *)
(* has taken back the port of an entry that UPnP still has to map.         *)
TypeOK ==
  /\ g_maps \in [Slots -> {e \in Entries : e.enabled \/ e = Empty}]
  /\ g_unmaps \in [Slots -> {e \in Entries : ~e.enabled}]
  /\ g_running \in BOOLEAN /\ g_stop \in BOOLEAN /\ g_mutex \in {"free", "thread", "lost"}
  /\ thread \in {"none", "created", "looping", "unmaps", "toUnmap", "maps", "toMap", "delay", "ending"}
  /\ at \in 1 .. MAX_MAPS + 1 /\ scan \in 1 .. MAX_MAPS + 1
  /\ main \in {"idle", "starting", "removing", "clearing", "stopping", "hung"}
  /\ router \in Routers /\ faults \in 0 .. Faults
  /\ leases \subseteq Ports \cup {0} /\ unheard \subseteq Ports \cup {0}

Init ==
  /\ g_maps = [i \in Slots |-> Empty] /\ g_unmaps = [i \in Slots |-> Empty]
  /\ g_running = FALSE /\ g_stop = FALSE /\ g_mutex = "free"
  /\ thread = "none" /\ at = 1 /\ main = "idle" /\ scan = 1
  /\ router \in Routers /\ leases = {} /\ faults = 0 /\ unheard = {}

-----------------------------------------------------------------------------
(* natpmpPulse and upnpPulse: the outcomes of a visit, each a record of    *)
(* the entry m, the leases l and the ports u that the router was not heard *)
(* of, and whether a command may be sent (canSendCommand). Each part of    *)
(* the function maps one to a set.                                         *)

Then(S, Part(_)) == UNION {Part(x) : x \in S}
Same(x) == {x}
State(x, s) == [x EXCEPT !.m.natpmpState = s]
Heard(x, p) == [x EXCEPT !.u = x.u \ {p}]
Unheard(x, p) == [x EXCEPT !.u = x.u \cup {p}]

\* The answer of the library: nothing yet, an error, or (if the router speaks
\* NAT-PMP) the result.
Reply(x, result) ==
  {x, State(x, "ERR")} \cup (IF "NATPMP" \in router THEN {result} ELSE {})
\* A request is sent, or is not; either way the next has to wait.
Send(x, s) == {[State(x, t) EXCEPT !.can = FALSE] : t \in {s, "ERR"}}

NatpmpDiscover(x) ==
  IF x.m.enabled /\ x.m.natpmpState = "DISCOVER" THEN Send(x, "RECV_PUB") ELSE Same(x)
NatpmpRecvPub(x) ==
  IF x.m.natpmpState = "RECV_PUB" /\ x.can THEN Reply(x, State(x, "IDLE")) ELSE Same(x)
NatpmpSendUnmap(x) ==
  LET unmap == x.m.natpmpState \in {"IDLE", "ERR"} /\ x.m.natpmpMapped /\ ~x.m.enabled
      y == IF unmap THEN State(x, "SEND_UNMAP") ELSE x IN
    IF y.m.natpmpState = "SEND_UNMAP" /\ y.can THEN Send(y, "RECV_UNMAP") ELSE Same(y)
NatpmpRecvUnmap(x) ==
  IF x.m.natpmpState = "RECV_UNMAP"
  THEN Reply(x, [State(x, "IDLE") EXCEPT !.m.port = 0, !.m.natpmpMapped = FALSE])
  ELSE Same(x)
NatpmpSendMap(x) ==
  LET due == x.m.natpmpState = "IDLE" /\ (x.m.natpmpMapped \/ x.m.enabled)
      now == IF ~due THEN {x} ELSE IF ~x.m.natpmpMapped THEN {State(x, "SEND_MAP")}
             ELSE {x, State(x, "SEND_MAP")} IN
    UNION {IF y.m.natpmpState = "SEND_MAP" /\ y.can THEN Send(y, "RECV_MAP") ELSE {y} : y \in now}
NatpmpRecvMap(x) ==
  IF x.m.natpmpState = "RECV_MAP"
  THEN Reply(x, [State(x, "IDLE") EXCEPT !.m.natpmpMapped = TRUE])
  ELSE Same(x)
natpmpPulse(x) ==
  Then(Then(Then(Then(Then(NatpmpDiscover(x), NatpmpRecvPub), NatpmpSendUnmap), NatpmpRecvUnmap),
            NatpmpSendMap), NatpmpRecvMap)

UpnpDiscover(x) ==
  IF x.m.enabled /\ x.m.upnpState = "DISCOVER"
  THEN {[x EXCEPT !.m.upnpState = s] : s \in {"ERR"} \cup (IF "UPNP" \in router THEN {"IDLE"} ELSE {})}
  ELSE Same(x)
\* Mutant: no check.
NoPortCheck(x) == Same(x)
\* doPortCheck is set for the entries of g_maps. No answer is taken for a no.
UpnpPortCheck(x) ==
  IF x.m.enabled /\ x.m.upnpMapped
  THEN {Heard([x EXCEPT !.m.upnpMapped = x.m.port \in x.l], x.m.port),
        Unheard([x EXCEPT !.m.upnpMapped = FALSE], x.m.port)}
  ELSE Same(x)

ToUnmap(x) == x.m.upnpState = "UNMAP" \/ (x.m.upnpState = "IDLE" /\ x.m.upnpMapped /\ ~x.m.enabled)
Forget(x) == [x EXCEPT !.m.upnpState = "IDLE", !.m.upnpMapped = FALSE, !.m.port = 0]
\* Mutant: the router is not told.
UpnpForget(x) == {IF ToUnmap(x) THEN Forget(x) ELSE x}
\* What UPNP_DeletePortMapping returns is not looked at.
UpnpUnmap(x) ==
  LET without == x.l \ {x.m.port} IN
    IF ToUnmap(x)
    THEN {Heard([Forget(x) EXCEPT !.l = without], x.m.port)}
           \cup {Unheard([Forget(x) EXCEPT !.l = l], x.m.port) : l \in {x.l, without}}
    ELSE Same(x)
\* UPNP_AddPortMapping is asked for a lease without an end. An error may be a
\* refusal, or the lease is granted and the answer lost.
ToMap(x) == x.m.upnpState = "MAP" \/ (x.m.upnpState = "IDLE" /\ x.m.enabled /\ ~x.m.upnpMapped)
UpnpMap(x) ==
  LET with == x.l \cup {x.m.port} IN
    IF ToMap(x)
    THEN {Heard([x EXCEPT !.m.upnpState = "IDLE", !.m.upnpMapped = TRUE, !.l = with], x.m.port)}
           \cup {Unheard([x EXCEPT !.m.upnpState = "ERR", !.l = l], x.m.port) : l \in {x.l, with}}
    ELSE Same(x)

AfterNatpmp(m) == Then({[m |-> m, l |-> leases, u |-> unheard, can |-> c] : c \in BOOLEAN},
                       natpmpPulse)
AfterCheck(m) == Then(Then(AfterNatpmp(m), UpnpDiscover), UpnpPortCheck)
Pulse(m) == Then(Then(AfterCheck(m), UpnpUnmap), UpnpMap)

\* A pulse that is cut off while it waits for an answer: the router may have
\* done what it was asked for.
CutUnmap(x) ==
  IF ToUnmap(x)
  THEN {[x EXCEPT !.m.upnpState = "UNMAP", !.l = l] : l \in {x.l, x.l \ {x.m.port}}} ELSE {}
CutMap(x) ==
  IF ToMap(x)
  THEN {Unheard([x EXCEPT !.m.upnpState = "MAP", !.l = l], x.m.port)
          : l \in {x.l, x.l \cup {x.m.port}}} ELSE {}
CutOff(m) ==
  {[m |-> m, l |-> leases, u |-> unheard, can |-> FALSE]} \cup AfterNatpmp(m)
    \cup Then(AfterNatpmp(m), UpnpDiscover) \cup AfterCheck(m)
    \cup Then(AfterCheck(m), CutUnmap) \cup Then(AfterCheck(m), CutMap)

\* getStatus is ML_PORT_UNMAPPED: the larger of two, and an error is the least.
NatpmpUnmapped(m) == m.natpmpState = "DISCOVER" \/ (m.natpmpState = "IDLE" /\ ~m.natpmpMapped)
UpnpUnmapped(m) == m.upnpState = "DISCOVER" \/ (m.upnpState = "IDLE" /\ ~m.upnpMapped)
Unmapped(m) == \/ NatpmpUnmapped(m) /\ (UpnpUnmapped(m) \/ m.upnpState = "ERR")
               \/ UpnpUnmapped(m) /\ m.natpmpState = "ERR"

-----------------------------------------------------------------------------
(* The event loop. *)

Lock == g_mutex = "free"
Free(table) == {i \in Slots : table[i].port = 0}
First(S) == CHOOSE i \in S : \A j \in S : i <= j
Mapped(p) == {i \in Slots : g_maps[i].enabled /\ g_maps[i].port = p}
Unmapping(p) == {i \in Slots : g_unmaps[i].port = p}

\* From g_maps to g_unmaps.
Move(i) ==
  /\ g_unmaps' = [g_unmaps EXCEPT ![First(Free(g_unmaps))] = [g_maps[i] EXCEPT !.enabled = FALSE]]
  /\ g_maps' = [g_maps EXCEPT ![i] = Empty]

maps_add_item(p) ==
  /\ main = "idle" /\ Lock
  /\ Mapped(p) = {} /\ Free(g_maps) # {}
  /\ g_maps' = [g_maps EXCEPT ![First(Free(g_maps))] = NewEntry(p)]
  /\ UNCHANGED <<g_unmaps, flags, g_mutex, thread, at, main, scan, world>>

maps_remove_item(p) ==
  /\ main = "idle" /\ Lock /\ Free(g_unmaps) # {}
  /\ \/ Mapped(p) # {} /\ Move(First(Mapped(p)))
     \/ /\ Mapped(p) = {} /\ Unmapping(p) = {}
        /\ g_unmaps' = [g_unmaps EXCEPT ![First(Free(g_unmaps))] = [Empty EXCEPT !.port = p]]
        /\ UNCHANGED g_maps
  /\ UNCHANGED <<flags, g_mutex, thread, at, main, scan, world>>

\* remove_all_maps: entry by entry, unless its port is in g_unmaps already or
\* that is full; then some seconds of sleep, at most until g_unmaps is empty.
RemoveAllMaps ==
  /\ main = "idle" /\ main' = "removing" /\ scan' = 1
  /\ UNCHANGED <<tables, flags, g_mutex, thread, at, world>>
RemoveNext ==
  /\ main = "removing"
  /\ IF scan > MAX_MAPS
     THEN main' = "clearing" /\ UNCHANGED <<tables, scan>>
     ELSE /\ scan' = scan + 1 /\ UNCHANGED main
          /\ IF /\ g_maps[scan].enabled /\ Unmapping(g_maps[scan].port) = {}
                /\ Free(g_unmaps) # {}
             THEN Lock /\ Move(scan) ELSE UNCHANGED tables
  /\ UNCHANGED <<flags, g_mutex, thread, at, world>>
ClearingEnds ==
  /\ main = "clearing" /\ main' = "idle" /\ scan' = 1
  /\ UNCHANGED <<tables, flags, g_mutex, thread, at, world>>

\* The table the thread is in, and its entry after a visit.
InMaps == thread \in {"maps", "toMap"}
Here == IF InMaps THEN g_maps ELSE g_unmaps
Visited(m) == IF InMaps THEN g_maps' = [g_maps EXCEPT ![at] = m] /\ UNCHANGED g_unmaps
              ELSE g_unmaps' = [g_unmaps EXCEPT ![at] = m] /\ UNCHANGED g_maps

\* upnp_thread_start: the thread may run before g_running is set.
StartThread ==
  /\ main = "idle" /\ ~g_running
  /\ g_mutex' = "free" /\ thread' = "created" /\ at' = 1
  /\ main' = "starting"
  /\ UNCHANGED <<tables, flags, scan, world>>
ThreadStarted ==
  /\ main = "starting" /\ Lock
  /\ g_running' = TRUE /\ g_stop' = FALSE
  /\ main' = "idle"
  /\ UNCHANGED <<tables, g_mutex, thread, at, scan, world>>

\* upnp_thread_stop: until the thread has stopped, or too long.
StopThread ==
  /\ main = "idle" /\ Lock
  /\ g_running' = FALSE /\ g_stop' = FALSE
  /\ main' = "stopping"
  /\ UNCHANGED <<tables, g_mutex, thread, at, scan, world>>
ThreadStopped ==
  /\ main = "stopping" /\ g_stop /\ Lock
  /\ g_stop' = FALSE /\ main' = "idle"
  /\ UNCHANGED <<tables, g_running, g_mutex, thread, at, scan, world>>
\* Mutant: the thread is left alone.
GiveUp ==
  /\ main = "stopping" /\ ~g_stop
  /\ main' = "idle"
  /\ UNCHANGED <<tables, flags, g_mutex, thread, at, scan, world>>
\* pthread_cancel acts at the next call that may block. The thread has ended,
\* or it is in such a call: nothing else takes it as long as it was waited for.
CancelThread ==
  /\ main = "stopping" /\ main' = "idle"
  /\ \/ thread = "none" /\ UNCHANGED <<tables, g_mutex, thread, at, world>>
     \/ /\ g_mutex = "thread" /\ faults < Faults /\ faults' = faults + 1
        /\ thread' = "none" /\ at' = 1 /\ g_mutex' = "lost"
        /\ \E x \in CutOff(Here[at]) : Visited(x.m) /\ leases' = x.l /\ unheard' = x.u \cap x.l
        /\ UNCHANGED router
  /\ UNCHANGED <<flags, scan>>

\* The thread was cancelled while it held g_mutex: whoever locks it next, to
\* add, remove or stop, never comes back.
HangOnMutex ==
  /\ main = "idle" /\ g_mutex = "lost"
  /\ main' = "hung"
  /\ UNCHANGED <<tables, flags, g_mutex, thread, at, scan, world>>

-----------------------------------------------------------------------------
(* upnpNatpmpThread. *)

Go(from, to) == /\ thread = from /\ thread' = to /\ at' = 1
                /\ UNCHANGED <<tables, g_running, g_mutex, main, scan, world>>

ThreadBegins == Lock /\ g_stop' = FALSE /\ Go("created", "looping")
Loop == Go("looping", IF g_running THEN "unmaps" ELSE "ending") /\ UNCHANGED g_stop
EndOfPass ==
  /\ at > MAX_MAPS \/ ~g_running
  /\ \/ Go("unmaps", "maps") \/ Go("maps", IF g_running THEN "delay" ELSE "ending")
  /\ UNCHANGED g_stop
\* After 30 seconds, or when the event loop unlocks g_delay_mutex.
DelayEnds == Go("delay", "looping") /\ UNCHANGED g_stop
ThreadEnds == Lock /\ g_stop' = TRUE /\ Go("ending", "none")

\* There is nothing to visit, or it is not due.
Skip == /\ thread \in {"unmaps", "maps"} /\ at <= MAX_MAPS /\ g_running
        /\ at' = at + 1
        /\ UNCHANGED <<tables, flags, g_mutex, thread, main, scan, world>>
\* The conditions are looked at before g_mutex is taken.
Choose(from, to) ==
  /\ thread = from /\ at <= MAX_MAPS /\ g_running
  /\ Here[at].port # 0 /\ Here[at].enabled = (from = "maps")
  /\ thread' = to
  /\ UNCHANGED <<tables, flags, g_mutex, at, main, scan, world>>
ChooseVisit == Choose("unmaps", "toUnmap") \/ Choose("maps", "toMap")
BeginVisit == /\ thread \in {"toUnmap", "toMap"} /\ Lock
              /\ g_mutex' = "thread"
              /\ UNCHANGED <<tables, flags, thread, at, main, scan, world>>
EndVisit ==
  /\ g_mutex = "thread"
  /\ \E x \in Pulse(Here[at]) :
       /\ leases' = x.l /\ unheard' = x.u \cap x.l
       /\ Visited(IF InMaps \/ ~Unmapped(x.m) THEN x.m ELSE Empty)
  /\ thread' = IF InMaps THEN "maps" ELSE "unmaps"
  /\ g_mutex' = "free" /\ at' = at + 1
  /\ UNCHANGED <<flags, main, scan, router, faults>>

-----------------------------------------------------------------------------
RouterReset ==
  /\ faults < Faults /\ leases # {}
  /\ faults' = faults + 1 /\ leases' = {} /\ unheard' = {}
  /\ UNCHANGED <<tables, flags, g_mutex, thread, at, main, scan, router>>

Waits == RemoveNext \/ ClearingEnds \/ ThreadStarted \/ ThreadStopped \/ CancelThread
Commands == \/ \E p \in Ports : maps_add_item(p) \/ maps_remove_item(p)
            \/ RemoveAllMaps \/ StartThread \/ StopThread \/ HangOnMutex
Visit == ChooseVisit \/ BeginVisit \/ EndVisit
Thread == ThreadBegins \/ Loop \/ EndOfPass \/ DelayEnds \/ ThreadEnds \/ Skip \/ Visit

Next == Commands \/ Waits \/ Thread \/ RouterReset
Spec == Init /\ [][Next]_vars

\* The event loop's waits end, the thread runs, and an entry that the thread
\* comes to again and again is due some time.
FairSpec == /\ Spec /\ WF_vars(Waits) /\ WF_vars(Thread)
            /\ \A i \in Slots : SF_vars(at = i /\ Choose("maps", "toMap"))

-----------------------------------------------------------------------------
(* Properties. *)

KnownLease(p) ==
  \E i \in Slots : \/ g_maps[i].port = p /\ g_maps[i].upnpMapped
                   \/ g_unmaps[i].port = p /\ g_unmaps[i].upnpMapped
(* A port that the router forwards for UPnP, for ever, is in one of the    *)
(* tables as mapped, so that remove_all_maps can still take it back, as    *)
(* long as the router answers: the pulses, moves between the tables and a  *)
(* cancelled thread never lose track of one (if the router speaks only one *)
(* of the protocols: see RouterIsCleared). The exception is a port whose   *)
(* last request was refused or went unanswered (upnp_stubs.c takes this    *)
(* for not mapped, see TakenBack) until a later one succeeds.              *)
LeasesAreKnown ==
  router # {"UPNP", "NATPMP"} => \A p \in leases \ unheard : KnownLease(p)

(* A port of g_unmaps is forgotten only when the router has taken it back. *)
(* This fails: upnp_stubs.c:713 does not look at what                      *)
(* UPNP_DeletePortMapping returns, and nothing asks the router again.      *)
TakenBack ==
  [][\A i \in Slots : g_unmaps[i].upnpMapped /\ ~g_unmaps'[i].upnpMapped
       => g_unmaps[i].port \notin leases']_vars

(* upnp_thread_start creates a thread only when there is none: one that    *)
(* was told to stop has ended or was cancelled.                            *)
OneThread == main = "idle" /\ ~g_running => thread = "none"

Forgotten(i) == /\ g_maps[i].upnpMapped /\ g_maps[i].port \notin leases
(* A port that is MAPPED in g_maps but that the router has forgotten (it   *)
(* was restarted, or an older entry of the port was unmapped later) is     *)
(* found out and mapped again, as long as the thread runs.                 *)
ForgottenIsNoticed == \A i \in Slots : Forgotten(i) ~> (~Forgotten(i) \/ thread = "none")

(* "stop all maps in g_maps, call before mldonkey exit to clear router":   *)
(* when remove_all_maps comes back with both tables empty the router       *)
(* forwards nothing, but for a port it was not heard of (LeasesAreKnown).  *)
RouterIsCleared ==
  [][main = "clearing" /\ main' = "idle" /\ Free(g_maps) = Slots /\ Free(g_unmaps) = Slots
       => leases \subseteq unheard]_vars
=============================================================================
