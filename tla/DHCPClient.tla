----------------------------- MODULE DHCPClient -----------------------------
(* The DHCP client module for one interface: its states and three timers, the *)
(* replies of servers over a network that loses, delays, repeats and reorders *)
(* them, and the address the Internet module has on the interface.            *)
(*                                                                            *)
(* Times are ticks from now, Past once they lie behind.  A server is modelled *)
(* by its replies: it grants, offers or refuses when the client transmits, and *)
(* the reply may take up to RoundTrip ticks.  Each server has one address, so  *)
(* a server also names its address and the binding that came from it.         *)
EXTENDS Integers, FiniteSets

CONSTANTS Server,
          None,           \* no server, no address
          Other,          \* an address that is not from a server
          Lease,          \* address lease time servers grant
          RenewTimes,     \* OPTION_RENEWALTIME they may send
          RebindTimes,    \* OPTION_REBINDINGTIME they may send
          RoundTrip,      \* bound: a reply arrives within this time, or never
          StartDelay,     \* interfaces_random_delay: 1 .. StartDelay
          Retry,          \* first retry intervals: 1 .. Retry
          DiscoverTime,   \* discover_TOTAL_TIMEOUT
          OfferTime,      \* selecting_TIME_LIMIT_AFTER_FIRST_OFFER
          RequestTime,    \* request_TOTAL_TIMEOUT
          RebootTime,     \* initreboot_TOTAL_TIMEOUT
          QuietTime,      \* decline_QUIET_DELAY
          Minute          \* the least step of a retry that halves the time left

Past == -1
Inf == 1000   \* dhcp_infinite_lease
ASSUME TimesAssumption ==
  /\ {Lease, RoundTrip, StartDelay, Retry, DiscoverTime, OfferTime, RequestTime,
      RebootTime, QuietTime, Minute} \subseteq 1 .. Inf - 1
  /\ RenewTimes \cup RebindTimes \subseteq 1 .. Inf - 1
  /\ QuietTime + Minute < Inf
ASSUME NamesAssumption == None \notin Server /\ Other \notin Server \cup {None}

VARIABLES
  state,      \* dhcpstate_..., or "absent": no dhcp_interface for the interface
  t1, t2, kill_if,
  waited,     \* ticks since first_send, while a DHCPREQUEST is outstanding
  offer,      \* server whose message is in the offer buffer
  offered,    \* offer.op = BOOTREPLY: the buffer holds an answer to this DISCOVER
  binding,    \* the binding's server and address
  preferred,  \* preferred_ip
  blacklist,
  mode,       \* what to do if nobody offers: "retry", "private" or "block"
  ifAddr,     \* address on the interface, in the Internet module
  up,         \* the interface is up, with its frames claimed
  claimed,    \* whoami_claimed_frames: the last packet out brought it up
  replies,    \* replies under way that match the interface's transaction ID
  late,       \* the lease was granted on a request older than the one it is counted from
  leases,     \* time each server still reserves the address for this client
  userSet,    \* the user has set an address the client does not know, and DHCP has
              \* not been started since
  good        \* from now on the network is reliable and nobody interferes

timers == <<t1, t2, kill_if, waited>>
link == <<ifAddr, up, claimed>>
env == <<userSet, good, late>>
vars == <<state, timers, offer, offered, binding, preferred, blacklist, mode, link, replies,
          leases, env>>

Addr == Server \cup {Other}
Held == {"BOUND", "RENEWING", "REBINDING"}
Waiting == {"REQUESTING", "REBOOTING", "RENEWING", "REBINDING"}
State == Held \cup Waiting \cup {"absent", "INIT", "INITREBOOT", "SELECTING", "ABANDON"}
Time == Past .. Inf
Reply == [type : {"OFFER", "ACK", "NAK"}, srv : Server, ttl : 0 .. RoundTrip]

TypeOK ==
  /\ state \in State
  /\ t1 \in Time /\ t2 \in Time /\ kill_if \in Time
  /\ waited \in 0 .. Lease
  /\ offer \in Server \cup {None} /\ offered \in BOOLEAN
  /\ binding \in Server \cup {None} /\ preferred \in Addr \cup {None}
  /\ blacklist \subseteq Server
  /\ mode \in {"retry", "private", "block"}
  /\ ifAddr \in Addr \cup {None} /\ up \in BOOLEAN /\ claimed \in BOOLEAN
  /\ replies \subseteq Reply
  /\ leases \in [Server -> Past - RoundTrip .. Lease]
  /\ userSet \in BOOLEAN /\ good \in BOOLEAN /\ late \in BOOLEAN

Init ==
  /\ state = "absent"
  /\ t1 = Inf /\ t2 = Inf /\ kill_if = Inf /\ waited = 0
  /\ offer = None /\ offered = FALSE /\ binding = None /\ preferred = None
  /\ blacklist = {} /\ mode = "retry"
  /\ ifAddr = None /\ up = FALSE /\ claimed = FALSE
  /\ replies = {} /\ leases = [s \in Server |-> Past - RoundTrip]
  /\ userSet = FALSE /\ good = FALSE /\ late = FALSE

Earlier(a, b) == IF a < b THEN a ELSE b
Later(a, b) == IF a < b THEN b ELSE a
\* Mutant: the lease is counted from the arrival of the answer.
SinceSent_FromArrival(t) == t

\* Time t counted from first_send, seen from now.
SinceSent(t) == Later(t - waited, Past)

-----------------------------------------------------------------------------
\* Sending.

\* if_sdhcpreq: a packet that finds the interface down brings it up; with
\* st_RELEASE_FRAMES it goes down again afterwards.
PacketOut(release) ==
  /\ claimed' = ~up
  /\ up' = (up \/ ~release)
  /\ UNCHANGED ifAddr

\* Which of the possible answers are under way.  A server grants its address for
\* Lease at the moment it acknowledges.
Answered(kept, possible, expected) ==
  \E got \in IF good THEN {expected} ELSE SUBSET possible :
    /\ \A a, b \in got : a.srv = b.srv => a = b
    /\ replies' = kept \cup got
    /\ leases' = [s \in Server |->
                    IF \E a \in got : a.type = "ACK" /\ a.srv = s THEN Lease ELSE leases[s]]

Message(type, servers) == [type : {type}, srv : servers, ttl : {RoundTrip}]

\* Answers to a DHCPREQUEST for address a that reaches the given servers: its owner
\* may agree, any of them may refuse.
RequestAnswered(kept, a, servers) ==
  Answered(kept, Message("ACK", servers \cap {a}) \cup Message("NAK", servers),
           Message("ACK", servers \cap {a}))

\* dhcp_transmit in state st: the next t1, the answers, and the interface.  Retries
\* of the first three back off; the others halve the time from t1 to t2, by a minute
\* at least, and with no t2 come a good while later.  RENEWING is unicast to the
\* binding's server unless that fails.
BackOff == t1' \in 1 .. Retry
HalfWay(from, to) ==
  IF to = Inf THEN t1' \in {Minute, Inf}
  ELSE t1' = Later((from + to) \div 2, from + Minute)

Transmit(st, kept, from, end) ==
  CASE st = "SELECTING" ->
         /\ BackOff /\ PacketOut(FALSE)
         /\ Answered(kept, Message("OFFER", Server), Message("OFFER", Server))
    [] st = "REQUESTING" ->
         BackOff /\ PacketOut(FALSE) /\ RequestAnswered(kept, offer, {offer})
    [] st = "REBOOTING" ->
         BackOff /\ PacketOut(FALSE) /\ RequestAnswered(kept, preferred, Server)
    [] st = "RENEWING" ->
         /\ HalfWay(from, end)
         /\ \/ RequestAnswered(kept, binding, {binding}) /\ UNCHANGED link
            \/ ~good /\ RequestAnswered(kept, binding, Server) /\ PacketOut(FALSE)
    [] st = "REBINDING" ->
         HalfWay(from, end) /\ PacketOut(FALSE) /\ RequestAnswered(kept, binding, Server)
    [] st = "ABANDON" ->
         /\ HalfWay(from, end) /\ PacketOut(FALSE)
         /\ Answered(kept, Message("OFFER", Server), {})

\* dhcp_discover: a new transaction, so no reply under way will match.
Discover ==
  /\ state' = "SELECTING"
  /\ offered' = FALSE /\ binding' = None
  /\ t2' = DiscoverTime /\ kill_if' = Inf /\ waited' = 0
  /\ Transmit("SELECTING", {}, 0, DiscoverTime)
  /\ UNCHANGED <<offer, preferred, mode, env>>

\* dhcp_request.  Only a REBOOTING request has a transaction of its own: the others
\* keep the offer's, so replies to earlier requests still match.
Request(next, end) ==
  /\ state' = next
  /\ waited' = 0 /\ t2' = end
  /\ Transmit(next, IF next = "REBOOTING" THEN {} ELSE replies, 0, end)
  /\ UNCHANGED <<kill_if, binding, preferred, mode, env>>

\* dhcp_vote_notify_offer_accepted and dhcp_accept_offer
AcceptOffer ==
  /\ blacklist' = IF offer \in blacklist THEN {} ELSE blacklist
  /\ Request("REQUESTING", RequestTime)
  /\ UNCHANGED <<offer, offered>>

\* dhcp_decline, after the buffers have been set to theOffer.  The message goes out
\* in INIT, where t1 is moved on.
Decline(theOffer) ==
  /\ state' = "INIT"
  /\ blacklist' = blacklist \cup ({theOffer} \ {None})
  /\ preferred' = None /\ binding' = None
  /\ t2' = QuietTime /\ HalfWay(QuietTime, QuietTime) /\ waited' = 0
  /\ replies' = {}
  /\ UNCHANGED <<mode, leases, env>>

\* interfaces_forget
Forget ==
  /\ state' = "absent"
  /\ t1' = Inf /\ t2' = Inf /\ kill_if' = Inf /\ waited' = 0
  /\ offer' = None /\ offered' = FALSE /\ binding' = None /\ preferred' = None
  /\ blacklist' = {} /\ mode' = "retry"
  /\ replies' = {}
  /\ UNCHANGED leases

-----------------------------------------------------------------------------
\* Mutant: the address found is taken for the binding.
Create_AsBinding ==
  /\ state = "absent"
  /\ state' = IF ifAddr = None THEN "INIT" ELSE "INITREBOOT"
  /\ preferred' = ifAddr /\ binding' = ifAddr
  /\ t1' \in 1 .. StartDelay
  /\ mode' \in {"retry", "private", "block"}
  /\ userSet' = FALSE
  /\ UNCHANGED <<t2, kill_if, waited, offer, offered, blacklist, link, replies, leases,
                 good, late>>

\* Starting, from the Internet module's DynamicBootStart: interfaces_create.  An
\* interface that has an address asks for it again.
Create ==
  /\ state = "absent"
  /\ state' = IF ifAddr = None THEN "INIT" ELSE "INITREBOOT"
  /\ preferred' = ifAddr
  /\ t1' \in 1 .. StartDelay
  /\ mode' \in {"retry", "private", "block"}
  /\ userSet' = FALSE
  /\ UNCHANGED <<t2, kill_if, waited, offer, offered, binding, blacklist, link, replies,
                 leases, good, late>>

\* DHCP_Execute on an abandoned interface puts a private address on it, unless that
\* is known to be in use.
ExecuteAbandoned ==
  /\ state = "ABANDON"
  /\ ifAddr' \in {IF ifAddr = preferred THEN None ELSE ifAddr, Other}
  /\ Forget
  /\ UNCHANGED <<up, claimed, env>>

-----------------------------------------------------------------------------
\* The timers.  interfaces_timer_fired runs from a callback within a tick.

\* sockets_kill_interface and interfaces_terminate.  If the ioctls that bring the
\* interface down fail, the client gives up on it.  (The code leaves the binding, which
\* nothing reads before dhcp_discover clears it.)
Terminate ==
  /\ kill_if = Past
  /\ IF ifAddr = binding THEN ifAddr' = None /\ up' = FALSE ELSE UNCHANGED <<ifAddr, up>>
  /\ \/ /\ state' = "INIT"
        /\ t1' \in 1 .. StartDelay
        /\ t2' = Inf /\ kill_if' = Inf /\ waited' = 0
        /\ binding' = None
        /\ UNCHANGED <<offer, offered, preferred, blacklist, mode, replies, leases>>
     \/ ifAddr = binding /\ ~good /\ Forget
  /\ UNCHANGED <<claimed, env>>

\* interfaces_T2_triggered
T2Selecting ==
  /\ state = "SELECTING"
  /\ CASE offered -> AcceptOffer
       [] ~offered /\ mode = "retry" -> Discover /\ UNCHANGED blacklist
       [] ~offered /\ mode = "block" ->
            /\ state' = "ABANDON" /\ t2' = Inf
            /\ UNCHANGED <<t1, kill_if, waited, offer, offered, binding, preferred, blacklist,
                           mode, link, replies, leases, env>>
       [] ~offered /\ mode = "private" ->
            /\ ifAddr' \in {IF ifAddr = preferred THEN None ELSE ifAddr, Other}
            /\ Forget
            /\ UNCHANGED <<up, claimed, env>>
T2Held ==
  /\ state \in {"BOUND", "RENEWING"}
  /\ Request("REBINDING", kill_if)
  /\ UNCHANGED <<offer, offered, blacklist>>
\* Mutant: a reboot request goes on for ever.
T2Waiting_AsksAgain ==
  /\ state \notin {"SELECTING", "BOUND", "RENEWING"}
  /\ IF state = "REBOOTING"
     THEN Request("REBOOTING", RebootTime) /\ UNCHANGED <<offer, offered, blacklist>>
     ELSE Discover /\ blacklist' = blacklist \cup ({offer} \ {None})

T2Waiting ==
  /\ state \notin {"SELECTING", "BOUND", "RENEWING"}
  /\ blacklist' = blacklist \cup ({offer} \ {None})
  /\ Discover
T2 == kill_if # Past /\ t2 = Past /\ (T2Selecting \/ T2Held \/ T2Waiting)

\* interfaces_T1_triggered
T1Bound ==
  /\ state = "BOUND"
  /\ offer' = binding /\ offered' = TRUE
  /\ Request("RENEWING", t2)
  /\ UNCHANGED blacklist
T1Start ==
  \/ state = "INIT" /\ Discover /\ UNCHANGED blacklist
  \/ /\ state = "INITREBOOT"
     /\ Request("REBOOTING", RebootTime)
     /\ UNCHANGED <<offer, offered, blacklist>>
T1Selected == state = "SELECTING" /\ offered /\ AcceptOffer
T1Retry ==
  /\ state \notin {"BOUND", "INIT", "INITREBOOT"}
  /\ ~(state = "SELECTING" /\ offered)
  /\ Transmit(state, replies, t1, t2)
  /\ UNCHANGED <<state, t2, kill_if, waited, offer, offered, binding, preferred, blacklist,
                 mode, env>>
T1 ==
  /\ kill_if # Past /\ t2 # Past /\ t1 = Past
  /\ T1Bound \/ T1Start \/ T1Selected \/ T1Retry

CheckTimers == Terminate \/ T2 \/ T1

-----------------------------------------------------------------------------
\* A reply arrives.  The network may deliver it again.
Consumed(r) == replies' \in {replies \ {r}} \cup IF good THEN {} ELSE {replies}

Ignore(r) ==
  /\ Consumed(r)
  /\ UNCHANGED <<state, timers, offer, offered, binding, preferred, blacklist, mode, link,
                 leases, env>>

\* dhcp_vote: whatever else it compares, a server on the blacklist never displaces
\* one that is not, and the reverse always.
MayPrefer(s) == ~offered \/ s \notin blacklist \/ offer \in blacklist
MayReject(s) == offered /\ (s \in blacklist \/ offer \notin blacklist)

\* dhcp_offer.  Another module may claim the service call and so veto the offer.
DeliverOffer(r) ==
  /\ r.type = "OFFER"
  /\ \/ (state # "SELECTING" \/ MayReject(r.srv) \/ ~good) /\ Ignore(r)
     \/ /\ state = "SELECTING" /\ MayPrefer(r.srv)
        /\ offer' = r.srv /\ offered' = TRUE
        /\ t2' = Earlier(t2, OfferTime)
        /\ Consumed(r)
        /\ UNCHANGED <<state, t1, kill_if, waited, binding, preferred, blacklist, mode, link,
                       leases, env>>

\* dhcp_ack.  A lease that should be renewed already, or an address that the ARP
\* cache knows elsewhere, is declined; the address is put on the interface unless it
\* is the one the client believes is there.
DeliverAck(r) ==
  /\ r.type = "ACK"
  /\ \/ /\ \/ state = "REQUESTING" /\ r.srv # offer
           \/ state \notin Waiting
        /\ Ignore(r)
     \/ /\ state \in Waiting
        /\ state = "REQUESTING" => r.srv = offer
        /\ \E renew \in {t \in RenewTimes : good => t > RoundTrip}, rebind \in RebindTimes,
              clash \in {FALSE, ~good} :
             /\ kill_if' = SinceSent(Lease)
             /\ LET end == Earlier(SinceSent(rebind), kill_if')
                    next == Earlier(SinceSent(renew), end)
                IN IF next <= 0 \/ clash
                   THEN /\ Decline(r.srv)
                        /\ offer' = r.srv /\ offered' = TRUE
                        /\ PacketOut(TRUE)
                   ELSE /\ state' = "BOUND"
                        /\ t1' = next /\ t2' = end /\ waited' = 0
                        /\ binding' = r.srv /\ preferred' = r.srv
                        /\ ifAddr' = IF preferred = r.srv THEN ifAddr ELSE r.srv
                        /\ Consumed(r)
                        /\ late' = (state \in Held /\ r.ttl + waited < RoundTrip)
                        /\ UNCHANGED <<offer, offered, blacklist, mode, up, claimed, leases,
                                       userSet, good>>

\* dhcp_nak, in whatever state and from whatever server.
DeliverNak(r) ==
  /\ r.type = "NAK"
  /\ blacklist' = blacklist \cup
       (CASE state \in Held -> {binding} \ {None}
          [] state \in {"SELECTING", "REQUESTING"} /\ offered -> {offer}
          [] OTHER -> {})
  /\ state' = "INIT" /\ t1' = Past /\ waited' = 0
  /\ binding' = None
  /\ up' = (up /\ ~claimed)
  /\ Consumed(r)
  /\ UNCHANGED <<t2, kill_if, offer, offered, preferred, mode, ifAddr, claimed, leases, env>>

Deliver == \E r \in replies : DeliverOffer(r) \/ DeliverAck(r) \/ DeliverNak(r)

-----------------------------------------------------------------------------
\* The rest of the machine, until the network is good.

\* Mutant: any address will do while none is held.
AddressIsOurs_UnlessHeld(a) == state \in Held => a = binding

\* sockets_verify_address
AddressIsOurs(a) ==
  CASE state \in Held -> a = binding
    [] state = "ABANDON" -> TRUE
    [] OTHER -> a = preferred

\* InternetStatus_AddressChanged, from an interface to which the user gives an
\* address: this one (addr = Other), or another.
AddressChanged(addr) ==
  /\ ~good
  /\ ifAddr' = addr
  /\ userSet' = (addr = Other /\ preferred # Other /\ state # "ABANDON")
  /\ IF state = "absent" \/ AddressIsOurs(addr)
     THEN UNCHANGED <<state, timers, offer, offered, binding, preferred, blacklist, mode,
                      replies, leases>>
     ELSE Forget   \* after a DHCPRELEASE
  /\ up' = (up \/ addr = Other)
  /\ UNCHANGED <<claimed, good, late>>

\* InternetStatus_DuplicateIPAddress: another host uses the interface's address.
AddressClash ==
  /\ ~good
  /\ state # "absent" /\ ifAddr # None
  /\ Decline(offer)
  /\ ifAddr' = None /\ up' = FALSE /\ claimed' = ~up
  /\ UNCHANGED <<kill_if, offer, offered>>

NetworkIsGood ==
  /\ ~good
  /\ good' = TRUE
  /\ UNCHANGED <<state, timers, offer, offered, binding, preferred, blacklist, mode, link,
                 replies, leases, userSet, late>>

Elapse(t) == IF t = Inf THEN Inf ELSE Later(t - 1, Past)

\* No timer is left behind; a good network delivers in time.
Tick ==
  /\ t1 # Past /\ t2 # Past /\ kill_if # Past
  /\ good => \A r \in replies : r.ttl > 0
  /\ t1' = Elapse(t1) /\ t2' = Elapse(t2) /\ kill_if' = Elapse(kill_if)
  /\ waited' = IF state \in Waiting THEN Earlier(waited + 1, Lease) ELSE 0
  /\ replies' = {[r EXCEPT !.ttl = @ - 1] : r \in {q \in replies : q.ttl > 0}}
  /\ leases' = [s \in Server |-> Later(leases[s] - 1, Past - RoundTrip)]
  /\ UNCHANGED <<state, offer, offered, binding, preferred, blacklist, mode, link, env>>

Next ==
  \/ Create \/ ExecuteAbandoned
  \/ CheckTimers \/ Deliver \/ Tick
  \/ \E addr \in {ifAddr, Other} : AddressChanged(addr)
  \/ AddressClash \/ NetworkIsGood

Spec == Init /\ [][Next]_vars

\* Time passes, callbacks run, and a good network delivers.
FairSpec == Spec /\ WF_vars(Tick) /\ WF_vars(CheckTimers) /\ WF_vars(Deliver)

-----------------------------------------------------------------------------
\* A client that holds an address stops using it before its server may give it to
\* somebody else (dhcp.c 602-605 counts the lease from the first request,
\* interfaces.c 359-363 takes the interface out at its end), whatever replies are
\* late or repeated.  A first lease is never counted from too late.  One that is held
\* is asked for again under the same transaction ID, and the answer to an earlier
\* request is then counted from the later one: up to a round trip too much.
ClientExpiresFirst ==
  state \in Held => kill_if <= leases[binding] + IF late THEN RoundTrip ELSE 0

\* Once the network is good the client gets an address, whatever timers, offers,
\* blacklist and half-finished exchange it was left with.
GetsAnAddress == (good /\ state # "absent") ~> state \in {"BOUND", "ABANDON", "absent"}

\* An address the user has set stays until DHCP is started again.
UsersAddressStays == [][userSet => ifAddr' \in {ifAddr, Other}]_vars

\* A bound client's address is on the interface.
BoundIsConfigured == state = "BOUND" => ifAddr = binding
=============================================================================
