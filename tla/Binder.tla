------------------------------- MODULE Binder -------------------------------
(***************************************************************************)
(* Where the daemon can be reached: Binder of                              *)
(* src/internal/daemon/listen.go with TailnetIP of bind.go.                *)
(*                                                                         *)
(* Loopback is bound once, when the daemon starts, and has to be.  The     *)
(* tailnet address is watched: interfaces come and go and ports are taken  *)
(* and given up between any two steps of the loop that follows them.  An   *)
(* up utun interface with an address in 100/8 is taken to be Tailscale's,  *)
(* as the code takes it; other interfaces may have such an address too.    *)
(***************************************************************************)
EXTENDS Naturals, FiniteSets

CONSTANTS
    TailAddrs,  \* addresses Tailscale may give this machine
    LanAddrs,   \* addresses in 100/8 that a carrier may give it
    Ports       \* the ports served

None == "none"
Loopback == "127.0.0.1"

ASSUME AddressesDiffer ==
    /\ TailAddrs \intersect LanAddrs = {}
    /\ {None, Loopback} \intersect (TailAddrs \union LanAddrs) = {}

VARIABLES
    utun,       \* the 100/8 addresses on tunnel interfaces that are up
    lan,        \* the 100/8 addresses on other interfaces
    busy,       \* the sockets other processes listen on
    at,         \* where the daemon is: "off", "start", "idle", "cli",
                \* "interfaces", "found" or "opening"
    localhost,  \* -localhost was given
    sockets,    \* the sockets this process listens on
    ip,         \* reconcile's ip
    tailnet,    \* Binder.tailnet: the listeners of the tailnet address
    bound       \* Binder.bound

network == <<utun, lan, busy>>
vars == <<network, at, localhost, sockets, ip, tailnet, bound>>

Addrs == TailAddrs \union LanAddrs
Sockets == (Addrs \union {Loopback}) \X Ports

TypeOK ==
    /\ utun \subseteq TailAddrs /\ lan \subseteq LanAddrs
    /\ busy \subseteq Sockets
    /\ at \in {"off", "start", "idle", "cli", "interfaces", "found", "opening"}
    /\ localhost \in BOOLEAN
    /\ sockets \subseteq Sockets
    /\ ip \in Addrs \union {None}
    /\ tailnet \subseteq Sockets
    /\ bound \in Addrs \union {None}

Init ==
    /\ utun = {} /\ lan = {} /\ busy = {}
    /\ at = "off"
    /\ localhost = FALSE
    /\ sockets = {}
    /\ ip = None /\ tailnet = {} /\ bound = None

-----------------------------------------------------------------------------
(* The machine.                                                            *)

assigned(addr) == addr \in utun \union lan \union {Loopback}

UnlessNetwork == UNCHANGED <<at, localhost, sockets, ip, tailnet, bound>>

\* Tailscale goes up, down or to another address; a tether comes and goes.
InterfacesChange ==
    /\ \E tail \in SUBSET TailAddrs, other \in SUBSET LanAddrs :
        /\ Cardinality(tail) <= 1
        /\ utun' = tail /\ lan' = other
        /\ <<tail, other>> # <<utun, lan>>
    /\ UNCHANGED busy /\ UnlessNetwork

\* Another process takes a socket, or gives it up.
PortChanges ==
    /\ \E s \in Sockets :
        \/ s \in busy /\ busy' = busy \ {s}
        \/ s \notin busy \union sockets /\ assigned(s[1]) /\ busy' = busy \union {s}
    /\ UNCHANGED <<utun, lan>> /\ UnlessNetwork

\* The process ends, or is told to: the kernel, or the servers' Shutdown,
\* closes what it had open.
Exit ==
    /\ at' = "off"
    /\ sockets' = {} /\ ip' = None /\ tailnet' = {} /\ bound' = None
    /\ UNCHANGED <<network, localhost>>

Stop == at # "off" /\ Exit

Launch ==
    /\ at = "off"
    /\ at' = "start"
    /\ localhost' \in BOOLEAN
    /\ UNCHANGED <<network, sockets, ip, tailnet, bound>>

-----------------------------------------------------------------------------
(* The binder.                                                             *)

CanListen(s) == assigned(s[1]) /\ s \notin busy \union sockets

\* Start listens on loopback, on every port, or the daemon does not start.
ListenLoopback ==
    /\ at = "start"
    /\ \E p \in Ports :
        /\ <<Loopback, p>> \notin sockets
        /\ \/ /\ CanListen(<<Loopback, p>>)
              /\ sockets' = sockets \union {<<Loopback, p>>}
              /\ at' = IF {Loopback} \X Ports \subseteq sockets' THEN "idle" ELSE at
              /\ UNCHANGED <<network, localhost, ip, tailnet, bound>>
           \/ ~CanListen(<<Loopback, p>>) /\ Exit

\* A check that trusts what it remembers.
HeldEver == bound # None

\* The address that is served is still there: nothing is asked.
Held == bound # None /\ assigned(bound)

\* A tick of the loop that finds nothing to trust. The lookup of -localhost
\* fails at once.
Tick ==
    /\ at = "idle"
    /\ ~Held
    /\ at' = IF localhost THEN "found" ELSE "cli"
    /\ ip' = None
    /\ UNCHANGED <<network, localhost, sockets, tailnet, bound>>

\* Tailscale is asked, and believed when the address it reports is here. It
\* also answers with prose, with the address it would have, or not in time.
AskTailscale ==
    /\ at = "cli"
    /\ \/ \E reported \in TailAddrs :
            /\ assigned(reported)
            /\ ip' = reported /\ at' = "found"
       \/ at' = "interfaces" /\ UNCHANGED ip
    /\ UNCHANGED <<network, localhost, sockets, tailnet, bound>>

\* Any interface with an address of the range.
AnyInterface == utun \union lan

\* The interfaces whose address is taken for the tailnet's.
Candidates == utun

Looked(addr) ==
    /\ at = "interfaces"
    /\ ip' = addr
    /\ at' = "found"
    /\ UNCHANGED <<network, localhost, sockets, tailnet, bound>>

\* An address of a candidate, the first found; or none, for want of one or
\* because the interfaces, or the addresses of one, could not be read.
FindAddress == \E addr \in Candidates : Looked(addr)
ReadInterfaces == FindAddress \/ Looked(None)

\* The listeners of an address that is no longer the one go first.
Reconcile ==
    /\ at = "found"
    /\ IF ip = bound
       THEN at' = "idle" /\ UNCHANGED <<sockets, tailnet, bound>>
       ELSE /\ sockets' = sockets \ tailnet
            /\ tailnet' = {} /\ bound' = None
            /\ at' = IF ip = None THEN "idle" ELSE "opening"
    /\ UNCHANGED <<network, localhost, ip>>

\* A failure that forgets the listeners it had opened.
Forgotten == sockets

\* What is left open when a port could not be listened on.
Undone == sockets \ tailnet

\* One port of the address, in any order. One that fails takes the ones
\* already open with it, and the next tick tries again; the last one makes
\* the address the bound one.
ListenTailnet ==
    /\ at = "opening"
    /\ \E p \in Ports :
        LET s == <<ip, p>> IN
        /\ s \notin tailnet
        /\ \/ /\ CanListen(s)
              /\ sockets' = sockets \union {s}
              /\ tailnet' = tailnet \union {s}
              /\ IF {ip} \X Ports \subseteq tailnet'
                 THEN bound' = ip /\ at' = "idle"
                 ELSE UNCHANGED <<bound, at>>
           \/ /\ ~CanListen(s)
              /\ sockets' = Undone
              /\ tailnet' = {}
              /\ at' = "idle"
              /\ UNCHANGED bound
    /\ UNCHANGED <<network, localhost, ip>>

-----------------------------------------------------------------------------
Watch == Tick \/ AskTailscale \/ ReadInterfaces \/ Reconcile \/ ListenTailnet

Next ==
    \/ InterfacesChange \/ PortChanges
    \/ Launch \/ Stop \/ ListenLoopback
    \/ Tick \/ AskTailscale \/ ReadInterfaces \/ Reconcile \/ ListenTailnet

\* The loop runs: a ticker every three seconds, and a lookup with a deadline.
\* Interfaces that are there do not stay unreadable.
Spec ==
    /\ Init /\ [][Next]_vars
    /\ WF_vars(ListenLoopback) /\ WF_vars(Watch) /\ SF_vars(FindAddress)

-----------------------------------------------------------------------------
(* Properties.                                                             *)

Outside == {s \in sockets : s[1] # Loopback}

\* The daemon answers on loopback and on a tailnet address, and on nothing
\* else that has an address of that range; with -localhost on nothing but
\* loopback (listen.go:16-25, bind.go:63-68).
OnlyTailnet == \A s \in Outside : s[1] \in TailAddrs /\ ~localhost

\* Between two rounds the binder serves every port of the address it says it
\* does, or holds no socket outside at all: one that failed half way leaves
\* nothing open (listen.go:136-145).
WholeOrNone ==
    at = "idle" =>
        /\ Outside = IF bound = None THEN {} ELSE {bound} \X Ports
        /\ {Loopback} \X Ports \subseteq sockets

Free(addr) == \A p \in Ports : <<addr, p>> \notin busy

\* Once the network keeps still the daemon follows it: an address that stays
\* is served on every port, whatever was served before, and one that is gone
\* is given up (listen.go:27-31, 97-151).
Settles ==
    /\ \A addr \in TailAddrs :
        <>[](utun = {addr} /\ Free(addr) /\ at \notin {"off", "start"} /\ ~localhost)
            => <>[](Outside = {addr} \X Ports)
    /\ <>[](utun = {}) => <>[](Outside = {})

=============================================================================
