--------------------------- MODULE DHCPClient_proofs ---------------------------
(* TLAPS proofs about DHCPClient, for any servers and times, any delay of the  *)
(* replies (RoundTrip), and a network that loses, repeats and reorders them:   *)
(* type correctness, that the client stops using an address before its server  *)
(* may give it to somebody else, and that the user's address stays.            *)
(*                                                                             *)
(* The argument is about the age of an acknowledgement.  A server's lease runs *)
(* from the transmission it answers, the client's from first_send.  While the  *)
(* client asks for its first lease no acknowledgement of the exchange can be   *)
(* older than first_send (FirstAnswersAreNew): SELECTING ends with nothing but *)
(* offers under way, and a reboot has a transaction of its own.                *)
EXTENDS DHCPClient, TLAPS

Age(r) == RoundTrip - r.ttl

\* An interface the client does not manage has no timer and hears nothing.
AbsentIsIdle ==
  state = "absent" => t1 = Inf /\ t2 = Inf /\ kill_if = Inf /\ replies = {}

\* The buffers hold a server's message where the code reads one.
BuffersFilled ==
  /\ offered \/ state = "REQUESTING" => offer \in Server
  /\ state \in Held => binding \in Server

\* A new transaction starts with offers alone.
SelectingHearsOffers == state = "SELECTING" => \A r \in replies : r.type = "OFFER"

\* An acknowledgement is as old as the lease it tells of.
LeaseAsOldAsAck ==
  \A r \in replies : r.type = "ACK" => leases[r.srv] >= Lease - Age(r)

\* In the exchange for a first lease no answer is older than first_send, until the
\* count of the time since stops at Lease.
FirstAnswersAreNew ==
  state \in {"REQUESTING", "REBOOTING"} =>
    \A r \in replies : r.type = "ACK" => Age(r) <= waited \/ waited = Lease

\* The user's address is on an interface the client does not manage.
UserSetIsAbsent == userSet => state = "absent"

IInv ==
  /\ TypeOK
  /\ AbsentIsIdle
  /\ BuffersFilled
  /\ SelectingHearsOffers
  /\ LeaseAsOldAsAck
  /\ FirstAnswersAreNew
  /\ (state \in Held => kill_if <= Lease)
  /\ ClientExpiresFirst
  /\ UserSetIsAbsent

-----------------------------------------------------------------------------
\* Constants and operators.

LEMMA Ends == Past = -1 /\ Inf = 1000
BY DEF Past, Inf

LEMMA TimesInRange ==
  /\ Lease \in 1 .. Inf - 1 /\ RoundTrip \in 1 .. Inf - 1
  /\ StartDelay \in 1 .. Inf - 1 /\ Retry \in 1 .. Inf - 1
  /\ DiscoverTime \in 1 .. Inf - 1 /\ OfferTime \in 1 .. Inf - 1
  /\ RequestTime \in 1 .. Inf - 1 /\ RebootTime \in 1 .. Inf - 1
  /\ QuietTime \in 1 .. Inf - 1 /\ Minute \in 1 .. Inf - 1
BY TimesAssumption

LEMMA SumInRange == QuietTime + Minute < Inf
BY TimesAssumption

LEMMA Bounds ==
  /\ Lease \in Nat \ {0} /\ Lease < Inf
  /\ RoundTrip \in Nat \ {0}
BY TimesInRange, Ends

LEMMA Intervals ==
  /\ StartDelay \in Nat \ {0} /\ StartDelay < Inf
  /\ Retry \in Nat \ {0} /\ Retry < Inf
  /\ DiscoverTime \in Nat \ {0} /\ DiscoverTime < Inf
  /\ OfferTime \in Nat \ {0} /\ OfferTime < Inf
  /\ RequestTime \in Nat \ {0} /\ RequestTime < Inf
  /\ RebootTime \in Nat \ {0} /\ RebootTime < Inf
BY TimesInRange, Ends

LEMMA Quiet ==
  /\ Minute \in Nat \ {0} /\ Minute < Inf
  /\ QuietTime \in Nat \ {0} /\ QuietTime + Minute < Inf
BY TimesInRange, SumInRange, Ends

LEMMA ElapseType ==
  ASSUME NEW t \in Time, t # Past
  PROVE  /\ Elapse(t) \in Time
         /\ t < Inf => Elapse(t) = t - 1
BY Ends DEF Elapse, Later, Time

LEMMA HalfWayType ==
  ASSUME NEW from \in Int, NEW end \in Time, Past <= from, from + Minute < Inf,
         HalfWay(from, end)
  PROVE  t1' \in Time
<1>1. CASE end = Inf
  BY <1>1, Ends, Quiet DEF HalfWay, Time
<1>2. CASE end # Inf
  <2>. DEFINE half == (from + end) \div 2
              least == from + Minute
  <2>1. half \in Int /\ half <= Inf
    BY Ends, Quiet DEF Time
  <2>2. least \in 0 .. Inf
    BY Ends, Quiet
  <2>3. t1' = Later(half, least)
    BY <1>2 DEF HalfWay
  <2>. HIDE DEF half, least
  <2>. QED
    BY <2>1, <2>2, <2>3, Ends DEF Later, Time
<1>. QED
  BY <1>1, <1>2

LEMMA BackOffType == BackOff => t1' \in Time
BY Intervals, Ends DEF BackOff, Time

\* What a transmission does to the replies under way and to the leases: it adds
\* new answers to those it keeps, and a server that acknowledges starts its lease.
Sent(kept) ==
  /\ replies' \subseteq Reply
  /\ leases' \in [Server -> Past - RoundTrip .. Lease]
  /\ \A s \in Server : leases'[s] >= leases[s]
  /\ \A r \in replies' \ kept :
        r.ttl = RoundTrip /\ (r.type = "ACK" => leases'[r.srv] = Lease)

LEMMA MessagesAreReplies ==
  ASSUME NEW type \in {"OFFER", "ACK", "NAK"}, NEW servers \in SUBSET Server
  PROVE  /\ Message(type, servers) \subseteq Reply
         /\ \A r \in Message(type, servers) : r.type = type /\ r.ttl = RoundTrip
BY Bounds DEF Message, Reply

LEMMA AnsweredSends ==
  ASSUME TypeOK,
         NEW kept \in SUBSET Reply, NEW possible \in SUBSET Reply, NEW expected \in SUBSET possible,
         \A r \in possible : r.ttl = RoundTrip,
         Answered(kept, possible, expected)
  PROVE  Sent(kept) /\ replies' \ kept \subseteq possible
<1>1. PICK got \in IF good THEN {expected} ELSE SUBSET possible :
        /\ replies' = kept \cup got
        /\ leases' = [s \in Server |->
              IF \E a \in got : a.type = "ACK" /\ a.srv = s THEN Lease ELSE leases[s]]
  BY DEF Answered
<1>2. got \subseteq possible
  BY <1>1
<1>3. replies' \subseteq Reply /\ replies' \ kept \subseteq got
  BY <1>1, <1>2
<1>4. ASSUME NEW s \in Server
      PROVE  /\ leases'[s] \in {Lease, leases[s]}
             /\ leases[s] \in Past - RoundTrip .. Lease
             /\ (\E a \in got : a.type = "ACK" /\ a.srv = s) => leases'[s] = Lease
  <2>1. leases[s] \in Past - RoundTrip .. Lease
    BY DEF TypeOK
  <2>. QED
    BY <1>1, <2>1
<1>5. leases' \in [Server -> Past - RoundTrip .. Lease]
  <2>1. \A s \in Server : leases'[s] \in Past - RoundTrip .. Lease
    BY <1>4, Bounds, Ends
  <2>. QED
    BY <1>1, <2>1
<1>6. \A s \in Server : leases'[s] >= leases[s]
  BY <1>4, Bounds, Ends
<1>7. ASSUME NEW r \in got, r.type = "ACK"
      PROVE  leases'[r.srv] = Lease
  BY <1>2, <1>4, <1>7 DEF Reply
<1>. QED
  BY <1>2, <1>3, <1>5, <1>6, <1>7 DEF Sent

\* The states in which dhcp_transmit sends something.
Transmitting == {"SELECTING", "REQUESTING", "REBOOTING", "RENEWING", "REBINDING", "ABANDON"}

LEMMA TransmitSends ==
  ASSUME TypeOK,
         NEW st \in Transmitting, NEW kept \in SUBSET Reply,
         NEW from \in Int, NEW end \in Time, Past <= from, from + Minute < Inf,
         st = "REQUESTING" => offer \in Server,
         st \in {"RENEWING", "REBINDING"} => binding \in Server,
         Transmit(st, kept, from, end)
  PROVE  /\ Sent(kept)
         /\ t1' \in Time
         /\ ifAddr' = ifAddr /\ up' \in BOOLEAN /\ claimed' \in BOOLEAN
         /\ st = "SELECTING" => \A r \in replies' \ kept : r.type = "OFFER"
<1>1. ASSUME PacketOut(FALSE)
      PROVE  ifAddr' = ifAddr /\ up' \in BOOLEAN /\ claimed' \in BOOLEAN
  BY <1>1 DEF PacketOut, TypeOK
<1>2. ASSUME UNCHANGED link
      PROVE  ifAddr' = ifAddr /\ up' \in BOOLEAN /\ claimed' \in BOOLEAN
  BY <1>2 DEF link, TypeOK
<1>3. ASSUME NEW a, NEW servers \in SUBSET Server, RequestAnswered(kept, a, servers)
      PROVE  Sent(kept)
  <2>. DEFINE acks == Message("ACK", servers \cap {a})
              naks == Message("NAK", servers)
  <2>1. /\ acks \subseteq Reply /\ \A r \in acks : r.ttl = RoundTrip
        /\ naks \subseteq Reply /\ \A r \in naks : r.ttl = RoundTrip
    BY MessagesAreReplies
  <2>2. Answered(kept, acks \cup naks, acks)
    BY <1>3 DEF RequestAnswered
  <2>. HIDE DEF acks, naks
  <2>. QED
    BY <2>1, <2>2, AnsweredSends
<1>4. CASE st = "SELECTING"
  <2>1. BackOff /\ PacketOut(FALSE) /\ Answered(kept, Message("OFFER", Server), Message("OFFER", Server))
    BY <1>4 DEF Transmit
  <2>. DEFINE offers == Message("OFFER", Server)
  <2>2. offers \in SUBSET Reply /\ \A r \in offers : r.type = "OFFER" /\ r.ttl = RoundTrip
    BY MessagesAreReplies
  <2>3. Answered(kept, offers, offers)
    BY <2>1
  <2>. HIDE DEF offers
  <2>4. Sent(kept) /\ replies' \ kept \subseteq offers
    BY <2>2, <2>3, AnsweredSends
  <2>. QED
    BY <1>1, <1>4, <2>1, <2>2, <2>4, BackOffType
<1>5. CASE st = "REQUESTING"
  <2>1. BackOff /\ PacketOut(FALSE) /\ RequestAnswered(kept, offer, {offer})
    BY <1>5 DEF Transmit
  <2>. QED
    BY <1>1, <1>3, <1>5, <2>1, BackOffType
<1>6. CASE st = "REBOOTING"
  <2>1. BackOff /\ PacketOut(FALSE) /\ RequestAnswered(kept, preferred, Server)
    BY <1>6 DEF Transmit
  <2>. QED
    BY <1>1, <1>3, <1>6, <2>1, BackOffType
<1>7. CASE st = "RENEWING"
  <2>1. /\ HalfWay(from, end)
        /\ \/ RequestAnswered(kept, binding, {binding}) /\ UNCHANGED link
           \/ RequestAnswered(kept, binding, Server) /\ PacketOut(FALSE)
    BY <1>7 DEF Transmit
  <2>. QED
    BY <1>1, <1>2, <1>3, <1>7, <2>1, HalfWayType
<1>8. CASE st = "REBINDING"
  <2>1. HalfWay(from, end) /\ PacketOut(FALSE) /\ RequestAnswered(kept, binding, Server)
    BY <1>8 DEF Transmit
  <2>. QED
    BY <1>1, <1>3, <1>8, <2>1, HalfWayType
<1>9. CASE st = "ABANDON"
  <2>1. HalfWay(from, end) /\ PacketOut(FALSE) /\ Answered(kept, Message("OFFER", Server), {})
    BY <1>9 DEF Transmit
  <2>2. Sent(kept)
    BY <2>1, MessagesAreReplies, AnsweredSends
  <2>. QED
    BY <1>1, <1>9, <2>1, <2>2, HalfWayType
<1>. QED
  BY <1>4, <1>5, <1>6, <1>7, <1>8, <1>9 DEF Transmitting

\* Ages survive a transmission that keeps no more than what is under way.
LEMMA SentKeepsLeases ==
  ASSUME TypeOK, LeaseAsOldAsAck, NEW kept \in SUBSET replies, Sent(kept)
  PROVE  LeaseAsOldAsAck'
<1>. SUFFICES ASSUME NEW r \in replies', r.type = "ACK"
              PROVE  leases'[r.srv] >= Lease - Age(r)
  BY DEF LeaseAsOldAsAck, Age
<1>1. r.srv \in Server /\ r.ttl \in 0 .. RoundTrip
  BY DEF Sent, Reply
<1>2. /\ leases[r.srv] \in Past - RoundTrip .. Lease
      /\ leases'[r.srv] \in Past - RoundTrip .. Lease
      /\ leases'[r.srv] >= leases[r.srv]
  BY <1>1 DEF Sent, TypeOK
<1>3. CASE r \in kept
  BY <1>1, <1>2, <1>3, Bounds, Ends DEF LeaseAsOldAsAck, Age
<1>4. CASE r \notin kept
  BY <1>1, <1>2, <1>4, Bounds, Ends DEF Sent, Age
<1>. QED
  BY <1>3, <1>4

-----------------------------------------------------------------------------
\* The handlers the actions share.

\* The invariant where neither a lease is held nor one asked for.
LEMMA NothingAsked ==
  ASSUME TypeOK', AbsentIsIdle', LeaseAsOldAsAck', UserSetIsAbsent',
         offered' => offer' \in Server,
         state' \in {"absent", "INIT", "INITREBOOT", "ABANDON"}
  PROVE  IInv'
BY DEF IInv, BuffersFilled, SelectingHearsOffers, FirstAnswersAreNew, ClientExpiresFirst, Held

LEMMA ForgetKeeps ==
  ASSUME IInv, Forget,
         ifAddr' \in Addr \cup {None}, up' \in BOOLEAN, claimed' \in BOOLEAN,
         userSet' \in BOOLEAN, good' \in BOOLEAN, late' \in BOOLEAN
  PROVE  IInv'
<1>1. TypeOK'
  <2>1. Inf \in Time /\ 0 \in 0 .. Lease
    BY Ends, Bounds DEF Time
  <2>. QED
    BY <2>1 DEF Forget, IInv, TypeOK, State
<1>2. AbsentIsIdle' /\ LeaseAsOldAsAck' /\ UserSetIsAbsent'
  BY DEF Forget, AbsentIsIdle, LeaseAsOldAsAck, UserSetIsAbsent
<1>. QED
  BY <1>1, <1>2, NothingAsked DEF Forget

LEMMA DeclineKeeps ==
  ASSUME IInv, NEW theOffer \in Server \cup {None}, Decline(theOffer),
         state # "absent",
         kill_if' \in Time, offer' \in Server \cup {None}, offered' \in BOOLEAN,
         offered' => offer' \in Server,
         ifAddr' \in Addr \cup {None}, up' \in BOOLEAN, claimed' \in BOOLEAN
  PROVE  IInv'
<1>1. t1' \in Time /\ t2' \in Time
  <2>1. QuietTime \in Time /\ QuietTime \in Int /\ Past <= QuietTime /\ QuietTime + Minute < Inf
    BY Quiet, Ends DEF Time
  <2>. QED
    BY <2>1, HalfWayType DEF Decline
<1>2. TypeOK'
  BY <1>1, Bounds DEF Decline, IInv, TypeOK, State, env
<1>3. AbsentIsIdle' /\ LeaseAsOldAsAck' /\ UserSetIsAbsent'
  BY DEF Decline, IInv, AbsentIsIdle, LeaseAsOldAsAck, UserSetIsAbsent, env
<1>. QED
  BY <1>2, <1>3, NothingAsked DEF Decline

LEMMA DiscoverKeeps ==
  ASSUME IInv, Discover, state # "absent", blacklist' \subseteq Server
  PROVE  IInv'
<1>1. /\ Sent({}) /\ t1' \in Time
      /\ ifAddr' = ifAddr /\ up' \in BOOLEAN /\ claimed' \in BOOLEAN
      /\ \A r \in replies' : r.type = "OFFER"
  <2>1. Transmit("SELECTING", {}, 0, DiscoverTime)
    BY DEF Discover
  <2>2. 0 \in Int /\ Past <= 0 /\ 0 + Minute < Inf /\ DiscoverTime \in Time
    BY Quiet, Intervals, Ends DEF Time
  <2>3. "SELECTING" \in Transmitting /\ {} \in SUBSET Reply /\ TypeOK
    BY DEF Transmitting, IInv
  <2>. QED
    BY <2>1, <2>2, <2>3, TransmitSends
<1>2. TypeOK'
  <2>1. DiscoverTime \in Time /\ Inf \in Time /\ 0 \in 0 .. Lease
    BY Intervals, Bounds, Ends DEF Time
  <2>. QED
    BY <1>1, <2>1 DEF Discover, Sent, IInv, TypeOK, State, env
<1>3. LeaseAsOldAsAck'
  BY <1>1 DEF LeaseAsOldAsAck
<1>. QED
  BY <1>1, <1>2, <1>3
  DEF Discover, IInv, AbsentIsIdle, BuffersFilled, SelectingHearsOffers, FirstAnswersAreNew,
      ClientExpiresFirst, UserSetIsAbsent, Held, env

\* A request for a first lease: nothing under way acknowledges an earlier one.
\* For a lease that is held: the client's end of it stays, the server's may move on.
LEMMA RequestKeeps ==
  ASSUME IInv, NEW next \in Waiting, NEW end \in Time, Request(next, end),
         next = "REQUESTING" => state = "SELECTING" /\ offer \in Server,
         next = "REBOOTING" => state = "INITREBOOT",
         next \in {"RENEWING", "REBINDING"} => state \in Held,
         blacklist' \subseteq Server,
         \/ UNCHANGED <<offer, offered>>
         \/ offer' = binding /\ offered' = TRUE /\ state \in Held
  PROVE  IInv'
<1>. DEFINE kept == IF next = "REBOOTING" THEN {} ELSE replies
<1>1. kept \subseteq replies /\ replies \subseteq Reply
  BY DEF IInv, TypeOK
<1>2. /\ Sent(kept) /\ t1' \in Time
      /\ ifAddr' = ifAddr /\ up' \in BOOLEAN /\ claimed' \in BOOLEAN
  <2>1. Transmit(next, kept, 0, end)
    BY DEF Request
  <2>2. 0 \in Int /\ Past <= 0 /\ 0 + Minute < Inf
    BY Quiet, Ends DEF Time
  <2>3. next \in Transmitting /\ TypeOK
    BY DEF Transmitting, Waiting, IInv
  <2>4. /\ next = "REQUESTING" => offer \in Server
        /\ next \in {"RENEWING", "REBINDING"} => binding \in Server
    BY DEF IInv, BuffersFilled
  <2>. HIDE DEF kept
  <2>. QED
    BY <1>1, <2>1, <2>2, <2>3, <2>4, TransmitSends
<1>. HIDE DEF kept
<1>3. BuffersFilled' /\ offer' \in Server \cup {None} /\ offered' \in BOOLEAN
  <2>1. /\ offer \in Server \cup {None} /\ offered \in BOOLEAN
        /\ offered => offer \in Server
        /\ state \in Held => binding \in Server
    BY DEF IInv, TypeOK, BuffersFilled
  <2>2. /\ offer' \in Server \cup {None} /\ offered' \in BOOLEAN
        /\ offered' => offer' \in Server
    <3>1. CASE UNCHANGED <<offer, offered>>
      BY <2>1, <3>1
    <3>2. CASE offer' = binding /\ offered' = TRUE /\ state \in Held
      BY <2>1, <3>2
    <3>. QED
      BY <3>1, <3>2
  <2>3. state' = "REQUESTING" => offer' \in Server
    <3>1. state' = next
      BY DEF Request
    <3>. QED
      BY <3>1 DEF Held
  <2>4. state' \in Held => binding' \in Server
    BY <2>1 DEF Request, Held, Waiting
  <2>. QED
    BY <2>2, <2>3, <2>4 DEF BuffersFilled
<1>4. TypeOK'
  <2>1. 0 \in 0 .. Lease /\ next \in State
    BY Bounds DEF State
  <2>. QED
    BY <1>2, <1>3, <2>1 DEF Request, Sent, IInv, TypeOK, env
<1>5. LeaseAsOldAsAck'
  BY <1>1, <1>2, SentKeepsLeases DEF IInv
<1>6. FirstAnswersAreNew'
  <2>. SUFFICES ASSUME next \in {"REQUESTING", "REBOOTING"}, NEW r \in replies', r.type = "ACK"
                PROVE  Age(r) <= 0
    BY DEF FirstAnswersAreNew, Request, Age
  <2>1. r \notin kept
    BY DEF kept, IInv, SelectingHearsOffers
  <2>. QED
    BY <1>2, <2>1, Bounds DEF Sent, Age
<1>7. next \in Held => kill_if' <= Lease /\ ClientExpiresFirst'
  <2>. SUFFICES ASSUME next \in Held
                PROVE  kill_if' <= Lease /\ ClientExpiresFirst'
    OBVIOUS
  <2>1. state \in Held
    BY DEF Held, Waiting
  <2>2. /\ binding \in Server /\ kill_if \in Int /\ kill_if <= Lease
        /\ kill_if <= leases[binding] + IF late THEN RoundTrip ELSE 0
    BY <2>1, Ends DEF IInv, BuffersFilled, TypeOK, Time, ClientExpiresFirst
  <2>3. /\ leases'[binding] >= leases[binding]
        /\ leases'[binding] \in Int /\ leases[binding] \in Int
    BY <1>2, <2>2, Bounds, Ends DEF Sent, IInv, TypeOK
  <2>4. binding' = binding /\ kill_if' = kill_if /\ late' = late
    BY DEF Request, env
  <2>. QED
    BY <2>2, <2>3, <2>4, Bounds DEF ClientExpiresFirst
<1>8. state # "absent" /\ next # "absent" /\ next # "SELECTING"
  BY DEF Waiting, Held
<1>9. ~userSet'
  BY <1>8 DEF Request, env, IInv, UserSetIsAbsent, TypeOK
<1>10. state' = next
  BY DEF Request
<1>. QED
  BY <1>3, <1>4, <1>5, <1>6, <1>7, <1>8, <1>9, <1>10
  DEF IInv, AbsentIsIdle, SelectingHearsOffers, ClientExpiresFirst, UserSetIsAbsent

\* A step that leaves the exchange and the lease alone: a reply may go, and the
\* buffers, the link and the blacklist may change.
LEMMA ExchangeKept ==
  ASSUME IInv, TypeOK', AbsentIsIdle', UserSetIsAbsent',
         UNCHANGED <<state, waited, kill_if, binding, leases, late>>,
         replies' \subseteq replies,
         offered' \/ state = "REQUESTING" => offer' \in Server
  PROVE  IInv'
<1>1. BuffersFilled' /\ SelectingHearsOffers'
  BY DEF IInv, BuffersFilled, SelectingHearsOffers
<1>2. LeaseAsOldAsAck' /\ FirstAnswersAreNew'
  BY DEF IInv, LeaseAsOldAsAck, FirstAnswersAreNew, Age
<1>3. (state' \in Held => kill_if' <= Lease) /\ ClientExpiresFirst'
  BY DEF IInv, ClientExpiresFirst
<1>. QED
  BY <1>1, <1>2, <1>3 DEF IInv

-----------------------------------------------------------------------------
\* Every action keeps the invariant.

LEMMA CreateKeeps == ASSUME IInv, Create PROVE IInv'
<1>1. TypeOK'
  <2>1. t1' \in Time
    BY Intervals, Ends DEF Create, Time
  <2>. QED
    BY <2>1 DEF Create, IInv, TypeOK, State, link
<1>2. AbsentIsIdle' /\ LeaseAsOldAsAck' /\ UserSetIsAbsent'
  BY DEF Create, IInv, AbsentIsIdle, LeaseAsOldAsAck, UserSetIsAbsent
<1>3. offered' => offer' \in Server
  BY DEF Create, IInv, BuffersFilled
<1>. QED
  BY <1>1, <1>2, <1>3, NothingAsked DEF Create

LEMMA ExecuteAbandonedKeeps == ASSUME IInv, ExecuteAbandoned PROVE IInv'
<1>1. /\ ifAddr' \in Addr \cup {None} /\ up' \in BOOLEAN /\ claimed' \in BOOLEAN
      /\ userSet' \in BOOLEAN /\ good' \in BOOLEAN /\ late' \in BOOLEAN
  BY DEF ExecuteAbandoned, IInv, TypeOK, env, Addr
<1>. QED
  BY <1>1, ForgetKeeps DEF ExecuteAbandoned

\* A timer that has gone by is one of an interface the client manages.
LEMMA ManagedIfTimed == IInv /\ (t1 = Past \/ t2 = Past \/ kill_if = Past) => state # "absent"
BY Ends DEF IInv, AbsentIsIdle

LEMMA TerminateKeeps == ASSUME IInv, Terminate PROVE IInv'
<1>1. /\ ifAddr' \in Addr \cup {None} /\ up' \in BOOLEAN /\ claimed' \in BOOLEAN
      /\ userSet' \in BOOLEAN /\ good' \in BOOLEAN /\ late' \in BOOLEAN
  BY DEF Terminate, IInv, TypeOK, env
<1>2. CASE Forget
  BY <1>1, <1>2, ForgetKeeps
<1>3. CASE /\ state' = "INIT"
           /\ t1' \in 1 .. StartDelay
           /\ t2' = Inf /\ kill_if' = Inf /\ waited' = 0
           /\ binding' = None
           /\ UNCHANGED <<offer, offered, preferred, blacklist, mode, replies, leases>>
  <2>1. TypeOK'
    <3>1. t1' \in Time /\ Inf \in Time /\ 0 \in 0 .. Lease
      BY <1>3, Intervals, Bounds, Ends DEF Time
    <3>. QED
      BY <1>1, <1>3, <3>1 DEF IInv, TypeOK, State
  <2>2. AbsentIsIdle' /\ LeaseAsOldAsAck'
    BY <1>3 DEF IInv, AbsentIsIdle, LeaseAsOldAsAck, Age
  <2>3. UserSetIsAbsent'
    BY <1>3, ManagedIfTimed DEF Terminate, IInv, UserSetIsAbsent, env
  <2>4. offered' => offer' \in Server
    BY <1>3 DEF IInv, BuffersFilled
  <2>. QED
    BY <1>3, <2>1, <2>2, <2>3, <2>4, NothingAsked
<1>. QED
  BY <1>2, <1>3 DEF Terminate

LEMMA AcceptOfferKeeps ==
  ASSUME IInv, state = "SELECTING", offered, AcceptOffer
  PROVE  IInv'
<1>1. RequestTime \in Time
  BY Intervals, Ends DEF Time
<1>2. offer \in Server /\ blacklist' \subseteq Server
  BY DEF AcceptOffer, IInv, BuffersFilled, TypeOK
<1>3. "REQUESTING" \in Waiting
  BY DEF Waiting
<1>4. Request("REQUESTING", RequestTime) /\ UNCHANGED <<offer, offered>>
  BY DEF AcceptOffer
<1>. QED
  BY <1>1, <1>2, <1>3, <1>4, RequestKeeps

LEMMA T2SelectingKeeps ==
  ASSUME IInv, state = "SELECTING", T2Selecting
  PROVE  IInv'
<1>0. offered \in BOOLEAN /\ mode \in {"retry", "private", "block"}
  BY DEF IInv, TypeOK
<1>1. CASE offered
  <2>1. AcceptOffer
    BY <1>1 DEF T2Selecting
  <2>. QED
    BY <1>1, <2>1, AcceptOfferKeeps
<1>2. CASE ~offered /\ mode = "retry"
  <2>1. Discover /\ UNCHANGED blacklist
    BY <1>2 DEF T2Selecting
  <2>. QED
    BY <2>1, DiscoverKeeps DEF IInv, TypeOK
<1>3. CASE ~offered /\ mode = "block"
  <2>1. /\ state' = "ABANDON" /\ t2' = Inf
        /\ UNCHANGED <<t1, kill_if, waited, offer, offered, binding, preferred, blacklist,
                       mode, link, replies, leases, env>>
    BY <1>3 DEF T2Selecting
  <2>2. TypeOK'
    <3>1. Inf \in Time
      BY Ends DEF Time
    <3>. QED
      BY <2>1, <3>1 DEF IInv, TypeOK, State, link, env
  <2>3. AbsentIsIdle' /\ LeaseAsOldAsAck' /\ UserSetIsAbsent'
    BY <2>1 DEF IInv, AbsentIsIdle, LeaseAsOldAsAck, UserSetIsAbsent, Age, env
  <2>4. offered' => offer' \in Server
    BY <2>1 DEF IInv, BuffersFilled
  <2>. QED
    BY <2>1, <2>2, <2>3, <2>4, NothingAsked
<1>4. CASE ~offered /\ mode = "private"
  <2>1. /\ ifAddr' \in {IF ifAddr = preferred THEN None ELSE ifAddr, Other}
        /\ Forget
        /\ UNCHANGED <<up, claimed, env>>
    BY <1>4 DEF T2Selecting
  <2>2. /\ ifAddr' \in Addr \cup {None} /\ up' \in BOOLEAN /\ claimed' \in BOOLEAN
        /\ userSet' \in BOOLEAN /\ good' \in BOOLEAN /\ late' \in BOOLEAN
    BY <2>1 DEF IInv, TypeOK, env, Addr
  <2>. QED
    BY <2>1, <2>2, ForgetKeeps
<1>. QED
  BY <1>0, <1>1, <1>2, <1>3, <1>4

LEMMA T2Keeps == ASSUME IInv, T2 PROVE IInv'
<1>0. state # "absent"
  BY ManagedIfTimed DEF T2
<1>1. CASE T2Selecting
  BY <1>1, T2SelectingKeeps DEF T2Selecting
<1>2. CASE T2Held
  <2>1. "REBINDING" \in Waiting /\ kill_if \in Time /\ state \in Held
    BY <1>2 DEF Waiting, Held, IInv, TypeOK, T2Held
  <2>2. /\ Request("REBINDING", kill_if)
        /\ UNCHANGED <<offer, offered>> /\ blacklist' \subseteq Server
    BY <1>2 DEF T2Held, IInv, TypeOK
  <2>. QED
    BY <2>1, <2>2, RequestKeeps
<1>3. CASE T2Waiting
  <2>1. blacklist' \subseteq Server /\ Discover
    BY <1>3 DEF T2Waiting, IInv, TypeOK
  <2>. QED
    BY <1>0, <2>1, DiscoverKeeps
<1>. QED
  BY <1>1, <1>2, <1>3 DEF T2

\* Retries of a request that is outstanding, or of an abandoned search.
LEMMA T1RetryKeeps ==
  ASSUME IInv, t1 = Past, T1Retry
  PROVE  IInv'
<1>1. state \in Transmitting
  BY ManagedIfTimed DEF T1Retry, IInv, TypeOK, State, Held, Waiting, Transmitting
<1>2. /\ Sent(replies) /\ t1' \in Time
      /\ ifAddr' = ifAddr /\ up' \in BOOLEAN /\ claimed' \in BOOLEAN
      /\ state = "SELECTING" => \A r \in replies' \ replies : r.type = "OFFER"
  <2>1. Transmit(state, replies, t1, t2)
    BY DEF T1Retry
  <2>2. /\ TypeOK /\ t1 \in Int /\ Past <= t1 /\ t1 + Minute < Inf /\ t2 \in Time
        /\ replies \in SUBSET Reply
    BY Quiet, Ends DEF IInv, TypeOK
  <2>3. /\ state = "REQUESTING" => offer \in Server
        /\ state \in {"RENEWING", "REBINDING"} => binding \in Server
    BY DEF IInv, BuffersFilled, Held
  <2>. QED
    BY <1>1, <2>1, <2>2, <2>3, TransmitSends
<1>3. UNCHANGED <<state, t2, kill_if, waited, offer, offered, binding, preferred, blacklist,
                  mode, env>>
  BY DEF T1Retry
<1>4. TypeOK'
  BY <1>2, <1>3 DEF Sent, IInv, TypeOK, env
<1>5. AbsentIsIdle' /\ BuffersFilled' /\ UserSetIsAbsent'
  BY <1>1, <1>3 DEF IInv, AbsentIsIdle, BuffersFilled, UserSetIsAbsent, Transmitting, env
<1>6. SelectingHearsOffers'
  BY <1>2, <1>3 DEF IInv, SelectingHearsOffers
<1>7. LeaseAsOldAsAck'
  BY <1>2, SentKeepsLeases DEF IInv
<1>8. FirstAnswersAreNew'
  <2>. SUFFICES ASSUME state \in {"REQUESTING", "REBOOTING"}, NEW r \in replies', r.type = "ACK"
                PROVE  Age(r) <= waited \/ waited = Lease
    BY <1>3 DEF FirstAnswersAreNew, Age
  <2>1. CASE r \in replies
    BY <2>1 DEF IInv, FirstAnswersAreNew, Age
  <2>2. CASE r \notin replies
    <3>1. r.ttl = RoundTrip /\ waited \in 0 .. Lease
      BY <1>2, <2>2 DEF Sent, IInv, TypeOK
    <3>. QED
      BY <3>1, Bounds DEF Age
  <2>. QED
    BY <2>1, <2>2
<1>9. (state' \in Held => kill_if' <= Lease) /\ ClientExpiresFirst'
  <2>. SUFFICES ASSUME state \in Held
                PROVE  kill_if <= Lease /\ kill_if <= leases'[binding] + IF late THEN RoundTrip ELSE 0
    BY <1>3 DEF ClientExpiresFirst, env
  <2>1. /\ binding \in Server /\ kill_if \in Int /\ kill_if <= Lease
        /\ kill_if <= leases[binding] + IF late THEN RoundTrip ELSE 0
    BY Ends DEF IInv, BuffersFilled, TypeOK, Time, ClientExpiresFirst
  <2>2. /\ leases'[binding] >= leases[binding]
        /\ leases'[binding] \in Int /\ leases[binding] \in Int
    BY <1>2, <2>1, Bounds, Ends DEF Sent, IInv, TypeOK
  <2>. QED
    BY <2>1, <2>2, Bounds
<1>. QED
  BY <1>4, <1>5, <1>6, <1>7, <1>8, <1>9 DEF IInv

LEMMA T1Keeps == ASSUME IInv, T1 PROVE IInv'
<1>0. state # "absent" /\ t1 = Past
  BY ManagedIfTimed DEF T1
<1>1. CASE T1Bound
  <2>1. "RENEWING" \in Waiting /\ t2 \in Time /\ state \in Held
    BY <1>1 DEF Waiting, Held, IInv, TypeOK, T1Bound
  <2>2. /\ Request("RENEWING", t2)
        /\ offer' = binding /\ offered' = TRUE /\ blacklist' \subseteq Server
    BY <1>1 DEF T1Bound, IInv, TypeOK
  <2>. QED
    BY <2>1, <2>2, RequestKeeps
<1>2. CASE T1Start
  <2>1. CASE state = "INIT"
    <3>1. Discover /\ blacklist' \subseteq Server
      BY <1>2, <2>1 DEF T1Start, IInv, TypeOK
    <3>. QED
      BY <1>0, <3>1, DiscoverKeeps
  <2>2. CASE state = "INITREBOOT"
    <3>1. "REBOOTING" \in Waiting /\ RebootTime \in Time
      BY Intervals, Ends DEF Waiting, Time
    <3>2. /\ Request("REBOOTING", RebootTime)
          /\ UNCHANGED <<offer, offered>> /\ blacklist' \subseteq Server
      BY <1>2, <2>2 DEF T1Start, IInv, TypeOK
    <3>. QED
      BY <2>2, <3>1, <3>2, RequestKeeps
  <2>. QED
    BY <1>2, <2>1, <2>2 DEF T1Start
<1>3. CASE T1Selected
  BY <1>3, AcceptOfferKeeps DEF T1Selected
<1>4. CASE T1Retry
  BY <1>0, <1>4, T1RetryKeeps
<1>. QED
  BY <1>1, <1>2, <1>3, <1>4 DEF T1

\* Replies.

LEMMA IgnoreKeeps == ASSUME IInv, NEW r \in replies, Ignore(r) PROVE IInv'
<1>1. replies' \subseteq replies
  BY DEF Ignore, Consumed
<1>2. TypeOK' /\ AbsentIsIdle' /\ UserSetIsAbsent'
  BY <1>1 DEF Ignore, IInv, TypeOK, AbsentIsIdle, UserSetIsAbsent, timers, link, env
<1>3. offered' \/ state = "REQUESTING" => offer' \in Server
  BY DEF Ignore, IInv, BuffersFilled
<1>. QED
  BY <1>1, <1>2, <1>3, ExchangeKept DEF Ignore, timers, env

LEMMA DeliverOfferKeeps == ASSUME IInv, NEW r \in replies, DeliverOffer(r) PROVE IInv'
<1>1. CASE Ignore(r)
  BY <1>1, IgnoreKeeps
<1>2. CASE /\ state = "SELECTING"
           /\ offer' = r.srv /\ offered' = TRUE
           /\ t2' = Earlier(t2, OfferTime)
           /\ Consumed(r)
           /\ UNCHANGED <<state, t1, kill_if, waited, binding, preferred, blacklist, mode, link,
                          leases, env>>
  <2>1. replies' \subseteq replies
    BY <1>2 DEF Consumed
  <2>2. r.srv \in Server /\ t2' \in Time
    BY <1>2, Intervals, Ends DEF IInv, TypeOK, Reply, Time, Earlier
  <2>3. TypeOK'
    BY <1>2, <2>1, <2>2 DEF IInv, TypeOK, link, env
  <2>4. AbsentIsIdle' /\ UserSetIsAbsent'
    BY <1>2 DEF IInv, AbsentIsIdle, UserSetIsAbsent, env
  <2>. QED
    BY <1>2, <2>1, <2>2, <2>3, <2>4, ExchangeKept DEF env
<1>. QED
  BY <1>1, <1>2 DEF DeliverOffer

LEMMA DeliverNakKeeps == ASSUME IInv, NEW r \in replies, DeliverNak(r) PROVE IInv'
<1>1. blacklist' \subseteq Server
  <2>1. /\ offered => offer \in Server
        /\ binding \in Server \cup {None} /\ blacklist \subseteq Server
    BY DEF IInv, BuffersFilled, TypeOK
  <2>2. CASE state \in Held
    BY <2>1, <2>2 DEF DeliverNak
  <2>3. CASE state \in {"SELECTING", "REQUESTING"} /\ offered
    BY <2>1, <2>3 DEF DeliverNak, Held
  <2>4. CASE ~(state \in Held) /\ ~(state \in {"SELECTING", "REQUESTING"} /\ offered)
    BY <2>1, <2>4 DEF DeliverNak
  <2>. QED
    BY <2>2, <2>3, <2>4
<1>2. replies' \subseteq replies
  BY DEF DeliverNak, Consumed
<1>3. TypeOK'
  <2>1. Past \in Time /\ 0 \in 0 .. Lease /\ (up /\ ~claimed) \in BOOLEAN
    BY Bounds, Ends DEF Time
  <2>. QED
    BY <1>1, <1>2, <2>1 DEF DeliverNak, IInv, TypeOK, State, env
<1>4. AbsentIsIdle' /\ LeaseAsOldAsAck'
  BY <1>2 DEF DeliverNak, IInv, AbsentIsIdle, LeaseAsOldAsAck, Age
<1>5. UserSetIsAbsent'
  <2>1. state # "absent"
    BY DEF IInv, AbsentIsIdle
  <2>. QED
    BY <2>1 DEF DeliverNak, IInv, UserSetIsAbsent, env
<1>6. offered' => offer' \in Server
  BY DEF DeliverNak, IInv, BuffersFilled
<1>. QED
  BY <1>3, <1>4, <1>5, <1>6, NothingAsked DEF DeliverNak

\* The lease of an acknowledgement the client accepts: dated from first_send, and
\* never beyond the server's but by a round trip where it renews one it holds.
LEMMA AcceptedLease ==
  ASSUME IInv, NEW r \in replies, r.type = "ACK", state \in Waiting,
         SinceSent(Lease) > 0
  PROVE  /\ SinceSent(Lease) <= Lease
         /\ SinceSent(Lease) <= leases[r.srv]
               + IF state \in Held /\ r.ttl + waited < RoundTrip THEN RoundTrip ELSE 0
<1>1. r.srv \in Server /\ r.ttl \in 0 .. RoundTrip /\ waited \in 0 .. Lease
  BY DEF IInv, TypeOK, Reply
<1>2. SinceSent(Lease) = Lease - waited /\ waited # Lease
  BY <1>1, Bounds, Ends DEF SinceSent, Later
<1>3. leases[r.srv] \in Int /\ leases[r.srv] >= Lease - Age(r)
  BY <1>1, Bounds, Ends DEF IInv, LeaseAsOldAsAck, TypeOK
<1>4. CASE state \in Held /\ r.ttl + waited < RoundTrip
  BY <1>1, <1>2, <1>3, <1>4, Bounds DEF Age
<1>5. CASE ~(state \in Held) \/ ~(r.ttl + waited < RoundTrip)
  <2>1. Age(r) <= waited
    <3>1. CASE ~(state \in Held)
      BY <1>2, <3>1 DEF IInv, FirstAnswersAreNew, Waiting, Held
    <3>2. CASE ~(r.ttl + waited < RoundTrip)
      BY <1>1, <3>2, Bounds DEF Age
    <3>. QED
      BY <1>5, <3>1, <3>2
  <2>. QED
    BY <1>1, <1>2, <1>3, <1>5, <2>1, Bounds DEF Age
<1>. QED
  BY <1>4, <1>5

LEMMA DeliverAckKeeps == ASSUME IInv, NEW r \in replies, DeliverAck(r) PROVE IInv'
<1>0. r.type = "ACK" /\ r.srv \in Server
  BY DEF DeliverAck, IInv, TypeOK, Reply
<1>1. CASE Ignore(r)
  BY <1>1, IgnoreKeeps
<1>2. ASSUME NEW renew \in RenewTimes, NEW rebind \in RebindTimes,
             NEW clash \in BOOLEAN, NEW end, NEW next,
             state \in Waiting, state = "REQUESTING" => r.srv = offer,
             kill_if' = SinceSent(Lease),
             end = Earlier(SinceSent(rebind), kill_if'),
             next = Earlier(SinceSent(renew), end),
             IF next <= 0 \/ clash
             THEN /\ Decline(r.srv)
                  /\ offer' = r.srv /\ offered' = TRUE
                  /\ PacketOut(TRUE)
             ELSE /\ state' = "BOUND"
                  /\ t1' = next /\ t2' = end /\ waited' = 0
                  /\ binding' = r.srv /\ preferred' = r.srv
                  /\ ifAddr' = IF preferred = r.srv THEN ifAddr ELSE r.srv
                  /\ Consumed(r)
                  /\ late' = (state \in Held /\ r.ttl + waited < RoundTrip)
                  /\ UNCHANGED <<offer, offered, blacklist, mode, up, claimed, leases,
                                 userSet, good>>
      PROVE  IInv'
  <2>1. /\ kill_if' \in Time /\ end \in Time /\ next \in Time
        /\ next <= end /\ end <= kill_if'
    <3>1. ASSUME NEW t \in 1 .. Inf - 1
          PROVE  SinceSent(t) \in Time
      <4>1. waited \in Nat
        BY Bounds DEF IInv, TypeOK
      <4>. QED
        BY <4>1, Ends DEF SinceSent, Later, Time
    <3>2. renew \in 1 .. Inf - 1 /\ rebind \in 1 .. Inf - 1 /\ Lease \in 1 .. Inf - 1
      BY TimesAssumption
    <3>3. SinceSent(renew) \in Time /\ SinceSent(rebind) \in Time /\ kill_if' \in Time
      BY <1>2, <3>1, <3>2
    <3>4. \A a, b \in Time : Earlier(a, b) \in Time /\ Earlier(a, b) <= b
      BY Ends DEF Earlier, Time
    <3>. QED
      BY <1>2, <3>3, <3>4
  <2>2. state # "absent"
    BY <1>2 DEF Waiting, Held
  <2>3. CASE next <= 0 \/ clash
    <3>1. /\ Decline(r.srv) /\ offer' = r.srv /\ offered' = TRUE
          /\ ifAddr' = ifAddr /\ up' \in BOOLEAN /\ claimed' \in BOOLEAN
      BY <1>2, <2>3 DEF PacketOut, IInv, TypeOK
    <3>2. ifAddr \in Addr \cup {None}
      BY DEF IInv, TypeOK
    <3>. QED
      BY <1>0, <2>1, <2>2, <3>1, <3>2, DeclineKeeps
  <2>4. CASE ~(next <= 0 \/ clash)
    <3>1. /\ state' = "BOUND"
          /\ t1' = next /\ t2' = end /\ waited' = 0
          /\ binding' = r.srv /\ preferred' = r.srv
          /\ ifAddr' = IF preferred = r.srv THEN ifAddr ELSE r.srv
          /\ Consumed(r)
          /\ late' = (state \in Held /\ r.ttl + waited < RoundTrip)
          /\ UNCHANGED <<offer, offered, blacklist, mode, up, claimed, leases, userSet, good>>
      BY <1>2, <2>4
    <3>2. replies' \subseteq replies
      BY <3>1 DEF Consumed
    <3>3. TypeOK'
      <4>1. 0 \in 0 .. Lease /\ r.srv \in Addr
        BY <1>0, Bounds DEF Addr
      <4>. QED
        BY <1>0, <2>1, <3>1, <3>2, <4>1 DEF IInv, TypeOK, State, Held
    <3>4. SinceSent(Lease) > 0
      BY <1>2, <2>1, <2>4, Ends DEF Time
    <3>5. /\ SinceSent(Lease) <= Lease
          /\ SinceSent(Lease) <= leases[r.srv]
                + IF state \in Held /\ r.ttl + waited < RoundTrip THEN RoundTrip ELSE 0
      BY <1>0, <1>2, <3>4, AcceptedLease
    <3>6. kill_if' <= Lease /\ ClientExpiresFirst'
      BY <1>2, <3>1, <3>5 DEF ClientExpiresFirst
    <3>7. AbsentIsIdle' /\ SelectingHearsOffers' /\ FirstAnswersAreNew'
      BY <3>1 DEF AbsentIsIdle, SelectingHearsOffers, FirstAnswersAreNew
    <3>8. LeaseAsOldAsAck'
      BY <3>1, <3>2 DEF IInv, LeaseAsOldAsAck, Age
    <3>9. BuffersFilled' /\ UserSetIsAbsent'
      BY <1>0, <2>2, <3>1 DEF IInv, BuffersFilled, UserSetIsAbsent, TypeOK
    <3>. QED
      BY <3>3, <3>6, <3>7, <3>8, <3>9 DEF IInv
  <2>. QED
    BY <2>3, <2>4
<1>3. CASE ~Ignore(r)
  <2>1. PICK renew \in RenewTimes, rebind \in RebindTimes, clash \in BOOLEAN :
          /\ state \in Waiting
          /\ state = "REQUESTING" => r.srv = offer
          /\ kill_if' = SinceSent(Lease)
          /\ LET end == Earlier(SinceSent(rebind), kill_if')
                 next == Earlier(SinceSent(renew), end)
             IN IF next <= 0 \/ clash
                THEN /\ Decline(r.srv)
                     /\ offer' = r.srv /\ offered' = TRUE
                     /\ PacketOut(TRUE)
                ELSE /\ state' = "BOUND"
                     /\ t1' = next /\ t2' = end /\ waited' = 0
                     /\ binding' = r.srv /\ preferred' = r.srv
                     /\ ifAddr' = IF preferred = r.srv THEN ifAddr ELSE r.srv
                     /\ Consumed(r)
                     /\ late' = (state \in Held /\ r.ttl + waited < RoundTrip)
                     /\ UNCHANGED <<offer, offered, blacklist, mode, up, claimed, leases,
                                    userSet, good>>
    BY <1>3 DEF DeliverAck, IInv, TypeOK
  <2>. QED
    BY <1>2, <2>1
<1>. QED
  BY <1>1, <1>3

\* A tick ages replies, leases and the client's timers alike.
LEMMA TickKeeps == ASSUME IInv, Tick PROVE IInv'
<1>1. /\ t1' \in Time /\ t2' \in Time /\ kill_if' \in Time
      /\ kill_if < Inf => kill_if' = kill_if - 1
  BY ElapseType DEF Tick, IInv, TypeOK
<1>2. waited \in 0 .. Lease /\ waited' \in 0 .. Lease
      /\ (state \in Waiting => waited' = waited + 1 \/ waited' = Lease)
  BY Bounds DEF Tick, IInv, TypeOK, Earlier
<1>3. ASSUME NEW r \in replies'
      PROVE  \E q \in replies : /\ q \in Reply /\ r \in Reply
                               /\ r.type = q.type /\ r.srv = q.srv /\ r.ttl = q.ttl - 1
  <2>1. PICK q \in replies : q.ttl > 0 /\ r = [q EXCEPT !.ttl = q.ttl - 1]
    BY DEF Tick
  <2>2. q \in Reply
    BY DEF IInv, TypeOK
  <2>. QED
    BY <2>1, <2>2, Bounds DEF Reply
<1>4. /\ leases' \in [Server -> Past - RoundTrip .. Lease]
      /\ \A s \in Server : leases'[s] >= leases[s] - 1
  <2>1. ASSUME NEW s \in Server
        PROVE  /\ Later(leases[s] - 1, Past - RoundTrip) \in Past - RoundTrip .. Lease
               /\ Later(leases[s] - 1, Past - RoundTrip) >= leases[s] - 1
    <3>1. leases[s] \in Past - RoundTrip .. Lease
      BY DEF IInv, TypeOK
    <3>. QED
      BY <3>1, Bounds, Ends DEF Later
  <2>2. leases' = [s \in Server |-> Later(leases[s] - 1, Past - RoundTrip)]
    BY DEF Tick
  <2>. QED
    BY <2>1, <2>2
<1>5. UNCHANGED <<state, offer, offered, binding, preferred, blacklist, mode, link, env>>
  BY DEF Tick
<1>6. TypeOK'
  BY <1>1, <1>2, <1>3, <1>4, <1>5 DEF IInv, TypeOK, link, env
<1>7. AbsentIsIdle'
  <2>. SUFFICES ASSUME state = "absent"
                PROVE  t1' = Inf /\ t2' = Inf /\ kill_if' = Inf /\ replies' = {}
    BY <1>5 DEF AbsentIsIdle
  <2>1. t1' = Inf /\ t2' = Inf /\ kill_if' = Inf
    BY DEF Tick, Elapse, IInv, AbsentIsIdle
  <2>. QED
    BY <1>3, <2>1 DEF IInv, AbsentIsIdle
<1>8. BuffersFilled' /\ UserSetIsAbsent'
  BY <1>5 DEF IInv, BuffersFilled, UserSetIsAbsent, env
<1>9. SelectingHearsOffers'
  BY <1>3, <1>5 DEF IInv, SelectingHearsOffers
<1>10. LeaseAsOldAsAck'
  <2>. SUFFICES ASSUME NEW r \in replies', r.type = "ACK"
                PROVE  leases'[r.srv] >= Lease - (RoundTrip - r.ttl)
    BY DEF LeaseAsOldAsAck, Age
  <2>1. PICK q \in replies : /\ q \in Reply /\ r \in Reply
                             /\ r.type = q.type /\ r.srv = q.srv /\ r.ttl = q.ttl - 1
    BY <1>3
  <2>2. leases[r.srv] >= Lease - (RoundTrip - q.ttl)
    BY <2>1 DEF IInv, LeaseAsOldAsAck, Age
  <2>3. /\ leases'[r.srv] >= leases[r.srv] - 1
        /\ leases[r.srv] \in Int /\ leases'[r.srv] \in Int /\ q.ttl \in Int
    BY <1>4, <2>1, Bounds, Ends DEF Reply, IInv, TypeOK
  <2>. QED
    BY <2>1, <2>2, <2>3, Bounds
<1>11. FirstAnswersAreNew'
  <2>. SUFFICES ASSUME state \in {"REQUESTING", "REBOOTING"}, NEW r \in replies', r.type = "ACK"
                PROVE  RoundTrip - r.ttl <= waited' \/ waited' = Lease
    BY <1>5 DEF FirstAnswersAreNew, Age
  <2>1. PICK q \in replies : /\ q \in Reply /\ r \in Reply
                             /\ r.type = q.type /\ r.srv = q.srv /\ r.ttl = q.ttl - 1
    BY <1>3
  <2>2. RoundTrip - q.ttl <= waited \/ waited = Lease
    BY <2>1 DEF IInv, FirstAnswersAreNew, Age
  <2>3. waited' = waited + 1 \/ waited' = Lease
    BY <1>2 DEF Waiting
  <2>4. q.ttl \in Int
    BY <2>1 DEF Reply
  <2>. QED
    BY <1>2, <2>1, <2>2, <2>3, <2>4, Bounds
<1>12. (state' \in Held => kill_if' <= Lease) /\ ClientExpiresFirst'
  <2>. SUFFICES ASSUME state \in Held
                PROVE  /\ kill_if' <= Lease
                       /\ kill_if' <= leases'[binding] + IF late THEN RoundTrip ELSE 0
    BY <1>5 DEF ClientExpiresFirst, env
  <2>1. /\ binding \in Server /\ kill_if \in Int /\ kill_if <= Lease
        /\ kill_if <= leases[binding] + IF late THEN RoundTrip ELSE 0
    BY Ends DEF IInv, BuffersFilled, TypeOK, Time, ClientExpiresFirst
  <2>2. kill_if' = kill_if - 1
    BY <1>1, <2>1, Bounds, Ends
  <2>3. /\ leases'[binding] >= leases[binding] - 1
        /\ leases'[binding] \in Int /\ leases[binding] \in Int
    BY <1>4, <2>1, Bounds, Ends DEF IInv, TypeOK
  <2>. QED
    BY <2>1, <2>2, <2>3, Bounds
<1>. QED
  BY <1>6, <1>7, <1>8, <1>9, <1>10, <1>11, <1>12 DEF IInv

LEMMA AddressChangedKeeps ==
  ASSUME IInv, NEW addr \in {ifAddr, Other}, AddressChanged(addr)
  PROVE  IInv'
<1>1. /\ ifAddr' \in Addr \cup {None} /\ up' \in BOOLEAN /\ claimed' \in BOOLEAN
      /\ userSet' \in BOOLEAN /\ good' \in BOOLEAN /\ late' \in BOOLEAN
  BY DEF AddressChanged, IInv, TypeOK, Addr
<1>2. CASE Forget
  BY <1>1, <1>2, ForgetKeeps
<1>3. CASE /\ state = "absent" \/ AddressIsOurs(addr)
           /\ UNCHANGED <<state, timers, offer, offered, binding, preferred, blacklist, mode,
                          replies, leases>>
  <2>1. TypeOK'
    BY <1>1, <1>3 DEF IInv, TypeOK, timers
  <2>2. AbsentIsIdle'
    BY <1>3 DEF IInv, AbsentIsIdle, timers
  <2>3. UserSetIsAbsent'
    <3>. SUFFICES ASSUME addr = Other, preferred # Other, state # "ABANDON", AddressIsOurs(Other)
                  PROVE  FALSE
      BY <1>3 DEF AddressChanged, UserSetIsAbsent
    <3>1. state \in Held => binding # Other
      BY NamesAssumption DEF IInv, BuffersFilled
    <3>. QED
      BY <3>1 DEF AddressIsOurs
  <2>4. offered' \/ state = "REQUESTING" => offer' \in Server
    BY <1>3 DEF IInv, BuffersFilled
  <2>. QED
    BY <1>3, <2>1, <2>2, <2>3, <2>4, ExchangeKept DEF timers, AddressChanged
<1>. QED
  BY <1>2, <1>3 DEF AddressChanged

LEMMA AddressClashKeeps == ASSUME IInv, AddressClash PROVE IInv'
<1>1. /\ state # "absent" /\ Decline(offer) /\ ifAddr' = None /\ up' = FALSE /\ claimed' = ~up
      /\ UNCHANGED <<kill_if, offer, offered>>
  BY DEF AddressClash
<1>2. /\ offer \in Server \cup {None} /\ offered' \in BOOLEAN /\ (offered' => offer' \in Server)
      /\ kill_if' \in Time /\ offer' \in Server \cup {None}
  BY <1>1 DEF IInv, TypeOK, BuffersFilled
<1>. QED
  BY <1>1, <1>2, DeclineKeeps

LEMMA NetworkIsGoodKeeps == ASSUME IInv, NetworkIsGood PROVE IInv'
<1>1. TypeOK' /\ AbsentIsIdle' /\ UserSetIsAbsent'
  BY DEF NetworkIsGood, IInv, TypeOK, AbsentIsIdle, UserSetIsAbsent, timers, link
<1>2. offered' \/ state = "REQUESTING" => offer' \in Server
  BY DEF NetworkIsGood, IInv, BuffersFilled
<1>. QED
  BY <1>1, <1>2, ExchangeKept DEF NetworkIsGood, timers

LEMMA StutterKeeps == ASSUME IInv, UNCHANGED vars PROVE IInv'
<1>1. TypeOK' /\ AbsentIsIdle' /\ UserSetIsAbsent'
  BY DEF vars, IInv, TypeOK, AbsentIsIdle, UserSetIsAbsent, timers, link, env
<1>2. offered' \/ state = "REQUESTING" => offer' \in Server
  BY DEF vars, IInv, BuffersFilled
<1>. QED
  BY <1>1, <1>2, ExchangeKept DEF vars, timers, env

LEMMA InitInv == Init => IInv
<1>. SUFFICES ASSUME Init PROVE IInv
  OBVIOUS
<1>1. TypeOK
  <2>1. Inf \in Time /\ 0 \in 0 .. Lease /\ Past - RoundTrip \in Past - RoundTrip .. Lease
    BY Bounds, Ends DEF Time
  <2>. QED
    BY <2>1 DEF Init, TypeOK, State
<1>. QED
  BY <1>1
  DEF Init, IInv, AbsentIsIdle, BuffersFilled, SelectingHearsOffers, LeaseAsOldAsAck,
      FirstAnswersAreNew, ClientExpiresFirst, UserSetIsAbsent, Held

LEMMA StepKeeps == ASSUME IInv, [Next]_vars PROVE IInv'
<1>1. CASE Create
  BY <1>1, CreateKeeps
<1>2. CASE ExecuteAbandoned
  BY <1>2, ExecuteAbandonedKeeps
<1>3. CASE CheckTimers
  BY <1>3, TerminateKeeps, T1Keeps, T2Keeps DEF CheckTimers
<1>4. CASE Deliver
  BY <1>4, DeliverOfferKeeps, DeliverAckKeeps, DeliverNakKeeps DEF Deliver
<1>5. CASE Tick
  BY <1>5, TickKeeps
<1>6. CASE \E addr \in {ifAddr, Other} : AddressChanged(addr)
  BY <1>6, AddressChangedKeeps
<1>7. CASE AddressClash
  BY <1>7, AddressClashKeeps
<1>8. CASE NetworkIsGood
  BY <1>8, NetworkIsGoodKeeps
<1>9. CASE UNCHANGED vars
  BY <1>9, StutterKeeps
<1>. QED
  BY <1>1, <1>2, <1>3, <1>4, <1>5, <1>6, <1>7, <1>8, <1>9 DEF Next

-----------------------------------------------------------------------------
\* What is proved of every behaviour.

\* The invariant: what the buffers, the replies under way and the leases have to do
\* with each other, in every state of dhcp.c's state machine.
THEOREM Invariance == Spec => []IInv
<1>1. Init => IInv
  BY InitInv
<1>2. IInv /\ [Next]_vars => IInv'
  BY StepKeeps
<1>. QED
  BY <1>1, <1>2, PTL DEF Spec

\* The variables keep their types: no timer leaves the range between the past and the
\* infinite lease, and the blacklist holds nothing but servers.
THEOREM TypeCorrect == Spec => []TypeOK
<1>1. IInv => TypeOK
  BY DEF IInv
<1>. QED
  BY <1>1, Invariance, PTL

\* However late or often replies arrive, the client stops using its address (interfaces.c
\* 359-363, with the end of the lease from dhcp.c 602-605) before its server may give it
\* away, but for a round trip after a renewal that an older request's answer satisfied.
THEOREM ExpiresFirst == Spec => []ClientExpiresFirst
<1>1. IInv => ClientExpiresFirst
  BY DEF IInv
<1>. QED
  BY <1>1, Invariance, PTL

\* Once the user has set an address (InternetStatus_AddressChanged), nothing of the
\* client's, no timer or late reply, takes it off or replaces it.
THEOREM UsersAddressIsKept == Spec => UsersAddressStays
<1>1. IInv /\ [Next]_vars => [userSet => ifAddr' \in {ifAddr, Other}]_vars
  <2>. SUFFICES ASSUME IInv, Next, userSet
                PROVE  ifAddr' \in {ifAddr, Other}
    BY DEF vars
  <2>1. state = "absent" /\ replies = {} /\ t1 = Inf /\ t2 = Inf /\ kill_if = Inf
    BY DEF IInv, UserSetIsAbsent, AbsentIsIdle
  <2>2. ~CheckTimers /\ ~Deliver /\ ~ExecuteAbandoned /\ ~AddressClash
    BY <2>1, Ends DEF CheckTimers, Terminate, T1, T2, Deliver, ExecuteAbandoned, AddressClash
  <2>3. CASE Create
    BY <2>3 DEF Create, link
  <2>4. CASE Tick
    BY <2>4 DEF Tick, link
  <2>5. CASE \E addr \in {ifAddr, Other} : AddressChanged(addr)
    BY <2>5 DEF AddressChanged
  <2>6. CASE NetworkIsGood
    BY <2>6 DEF NetworkIsGood, link
  <2>. QED
    BY <2>2, <2>3, <2>4, <2>5, <2>6 DEF Next
<1>. QED
  BY <1>1, Invariance, PTL DEF Spec, UsersAddressStays
=============================================================================
