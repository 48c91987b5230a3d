----------------------------- MODULE ProcessProofs -----------------------------
(***************************************************************************)
(* One application process, for any browsers, lanes and lengths: proofs    *)
(* about Server and the DashboardHub and DemoDriver in it.                 *)
(***************************************************************************)
EXTENDS Server, TLAPS

-----------------------------------------------------------------------------
(* The hub *)

HubTypes ==
  /\ events \in Nat
  /\ recent \in Seq(Int) /\ pending \in Seq(Int)
  /\ clients \subseteq Client
  /\ socket \in [Client -> {"off", "open", "closing"}]
  /\ timer \in BOOLEAN /\ closing \in BOOLEAN
  /\ got \in [Client -> SUBSET Int] /\ told \in [Client -> Int]

\* The feed is the last decisions, in order.
FeedIsLast ==
  /\ Len(recent) <= RecentMax
  /\ \A i \in 1 .. Len(recent) : recent[i] = events - Len(recent) + i

\* The batch may have gaps, but from its end it is never ahead of the decisions.
BatchIsLast ==
  /\ Len(pending) <= RecentMax
  /\ \A i \in 1 .. Len(pending) : pending[i] <= events - Len(pending) + i

HubInv == HubTypes /\ FeedIsLast /\ BatchIsLast /\ TimerIffClients /\ CaughtUp

\* What push and shift leave of a sequence, counted from its end.
LEMMA PushedFacts ==
  ASSUME NEW s \in Seq(Int), NEW e \in Int, Len(s) <= RecentMax
  PROVE  LET p == Pushed(s, e)
         IN /\ p \in Seq(Int) /\ p # <<>>
            /\ Len(p) = Len(s) + 1 \/ (Len(p) = Len(s) /\ Len(s) = RecentMax)
            /\ Len(p) <= RecentMax
            /\ p[Len(p)] = e
            /\ \A i \in 1 .. Len(p) - 1 :
                 /\ i + 1 + Len(s) - Len(p) \in 1 .. Len(s)
                 /\ p[i] = s[i + 1 + Len(s) - Len(p)]
<1> DEFINE p == Pushed(s, e)
<1>0. RecentMax \in Nat \ {0} /\ Len(s) \in Nat
  BY HubAssumption, SMT
<1>1. CASE Len(s) < RecentMax
  <2>1. p = Append(s, e)
    BY <1>1 DEF Pushed
  <2>2. p \in Seq(Int) /\ Len(p) = Len(s) + 1 /\ p[Len(p)] = e /\ p # <<>>
    BY <2>1, SMT
  <2>3. \A i \in 1 .. Len(p) - 1 : p[i] = s[i]
    BY <2>1, <2>2, SMT
  <2> QED
    BY <1>0, <1>1, <2>2, <2>3, SMT
<1>2. CASE Len(s) = RecentMax
  <2>1. s # <<>>
    BY <1>0, <1>2, SMT
  <2>2. /\ Tail(s) \in Seq(Int) /\ Len(Tail(s)) = Len(s) - 1
        /\ \A i \in 1 .. Len(s) - 1 : Tail(s)[i] = s[i + 1]
    BY <2>1, SMT
  <2>3. p = Append(Tail(s), e)
    BY <1>0, <1>2, SMT DEF Pushed
  <2>4. p \in Seq(Int) /\ Len(p) = Len(s) /\ p[Len(p)] = e /\ p # <<>>
    BY <2>2, <2>3, SMT
  <2>5. \A i \in 1 .. Len(p) - 1 : p[i] = s[i + 1]
    BY <2>2, <2>3, <2>4, SMT
  <2>6. ASSUME NEW i \in 1 .. Len(p) - 1
        PROVE  /\ i + 1 + Len(s) - Len(p) \in 1 .. Len(s)
               /\ p[i] = s[i + 1 + Len(s) - Len(p)]
    <3>1. i + 1 + Len(s) - Len(p) = i + 1 /\ i + 1 \in 1 .. Len(s)
      BY <1>0, <2>4, SMT
    <3> QED
      BY <2>5, <3>1
  <2>7. Len(p) <= RecentMax
    BY <1>2, <2>4, <1>0, SMT
  <2> QED
    BY <1>2, <2>4, <2>6, <2>7, Zenon
<1> QED
  BY <1>0, <1>1, <1>2, SMT

LEMMA HubInitially == HubInit => HubInv
<1> SUFFICES ASSUME HubInit PROVE HubInv
  OBVIOUS
<1>1. /\ recent \in Seq(Int) /\ Len(recent) = 0
      /\ pending \in Seq(Int) /\ Len(pending) = 0
  BY SMT DEF HubInit
<1>3. HubTypes
  <2>1. /\ socket \in [Client -> {"off", "open", "closing"}]
        /\ got \in [Client -> SUBSET Int] /\ told \in [Client -> Int]
    BY DEF HubInit
  <2> QED
    BY <1>1, <2>1 DEF HubInit, HubTypes
<1>2. FeedIsLast /\ BatchIsLast
  BY <1>1, HubAssumption, SMT DEF FeedIsLast, BatchIsLast
<1> QED
  BY <1>2, <1>3 DEF HubInit, HubInv, TimerIffClients, CaughtUp

\* A decision enters the feed, and the batch of whoever watches.
LEMMA onEventKeeps == HubInv /\ onEvent => HubInv'
<1> SUFFICES ASSUME HubInv, onEvent PROVE HubInv'
  OBVIOUS
<1> USE DEF HubInv
<1> DEFINE e == events + 1
           feed == Pushed(recent, e)
           lot == Pushed(pending, e)
<1>1. /\ events' = e /\ recent' = feed
      /\ pending' = IF clients # {} THEN lot ELSE pending
      /\ UNCHANGED <<clients, socket, timer, closing, got, told>>
  BY DEF onEvent, sent
<1>2. /\ events \in Nat /\ e \in Int /\ recent \in Seq(Int) /\ pending \in Seq(Int)
      /\ Len(recent) <= RecentMax /\ Len(pending) <= RecentMax
      /\ RecentMax \in Nat \ {0} /\ Len(recent) \in Nat /\ Len(pending) \in Nat
  BY HubAssumption, SMT DEF HubTypes, FeedIsLast, BatchIsLast
<1>3. /\ feed \in Seq(Int) /\ Len(feed) <= RecentMax
      /\ feed[Len(feed)] = e
      /\ \A i \in 1 .. Len(feed) - 1 :
           /\ i + 1 + Len(recent) - Len(feed) \in 1 .. Len(recent)
           /\ feed[i] = recent[i + 1 + Len(recent) - Len(feed)]
  BY <1>2, PushedFacts
<1>4. /\ lot \in Seq(Int) /\ lot # <<>> /\ Len(lot) <= RecentMax
      /\ Len(lot) = Len(pending) + 1 \/ (Len(lot) = Len(pending) /\ Len(pending) = RecentMax)
      /\ lot[Len(lot)] = e
      /\ \A i \in 1 .. Len(lot) - 1 :
           /\ i + 1 + Len(pending) - Len(lot) \in 1 .. Len(pending)
           /\ lot[i] = pending[i + 1 + Len(pending) - Len(lot)]
  BY <1>2, PushedFacts
<1> HIDE DEF feed, lot
<1>0. Len(feed) \in Nat /\ Len(lot) \in Nat
  BY <1>3, <1>4, SMT
<1>5. HubTypes'
  BY <1>1, <1>2, <1>3, <1>4 DEF HubTypes
<1>6. \A i \in 1 .. Len(feed) : feed[i] = e - Len(feed) + i
  <2> SUFFICES ASSUME NEW i \in 1 .. Len(feed) PROVE feed[i] = e - Len(feed) + i
    OBVIOUS
  <2>1. CASE i = Len(feed)
    BY <1>0, <1>2, <1>3, <2>1, SMT
  <2>2. CASE i # Len(feed)
    <3>1. i \in 1 .. Len(feed) - 1
      BY <1>0, <1>3, <2>2, SMT
    <3> DEFINE j == i + 1 + Len(recent) - Len(feed)
    <3>2. j \in 1 .. Len(recent) /\ feed[i] = recent[j]
      BY <1>3, <3>1
    <3>3. recent[j] = events - Len(recent) + j
      BY <3>2 DEF FeedIsLast
    <3> QED
      BY <1>0, <1>2, <1>3, <3>2, <3>3, SMT
  <2> QED
    BY <2>1, <2>2
<1>7. \A i \in 1 .. Len(lot) : lot[i] <= e - Len(lot) + i
  <2> SUFFICES ASSUME NEW i \in 1 .. Len(lot) PROVE lot[i] <= e - Len(lot) + i
    OBVIOUS
  <2>1. CASE i = Len(lot)
    BY <1>0, <1>2, <1>4, <2>1, SMT
  <2>2. CASE i # Len(lot)
    <3>1. i \in 1 .. Len(lot) - 1
      BY <1>0, <1>4, <2>2, SMT
    <3> DEFINE j == i + 1 + Len(pending) - Len(lot)
    <3>2. j \in 1 .. Len(pending) /\ lot[i] = pending[j]
      BY <1>4, <3>1
    <3>3. pending[j] <= events - Len(pending) + j /\ pending[j] \in Int
      BY <1>2, <3>2 DEF BatchIsLast
    <3> QED
      BY <1>0, <1>2, <1>4, <3>2, <3>3, SMT
  <2> QED
    BY <2>1, <2>2
<1>8. FeedIsLast'
  BY <1>1, <1>3, <1>6 DEF FeedIsLast
<1>9. BatchIsLast'
  <2>1. CASE clients # {}
    BY <1>1, <1>4, <1>7, <2>1 DEF BatchIsLast
  <2>2. CASE clients = {}
    <3> SUFFICES ASSUME NEW i \in 1 .. Len(pending)
                 PROVE  pending[i] <= e - Len(pending) + i
      BY <1>1, <1>2, <2>2 DEF BatchIsLast
    <3>1. pending[i] <= events - Len(pending) + i /\ pending[i] \in Int
      BY <1>2 DEF BatchIsLast
    <3> QED
      BY <1>2, <3>1, SMT
  <2> QED
    BY <2>1, <2>2
<1>10. TimerIffClients'
  BY <1>1 DEF TimerIffClients
<1>11. InSeq(feed) \subseteq InSeq(recent) \cup {e}
  <2> SUFFICES ASSUME NEW i \in 1 .. Len(feed) PROVE feed[i] \in InSeq(recent) \cup {e}
    BY <1>3 DEF InSeq
  <2>1. CASE i = Len(feed)
    BY <1>3, <2>1
  <2>2. CASE i # Len(feed)
    <3>1. i \in 1 .. Len(feed) - 1
      BY <1>0, <1>3, <2>2, SMT
    <3> DEFINE j == i + 1 + Len(recent) - Len(feed)
    <3>2. j \in 1 .. Len(recent) /\ feed[i] = recent[j]
      BY <1>3, <3>1
    <3> HIDE DEF j
    <3>3. j \in DOMAIN recent
      BY <1>2, <3>2
    <3> QED
      BY <3>2, <3>3 DEF InSeq
  <2> QED
    BY <2>1, <2>2
\* What falls out of the batch has fallen out of the feed.
<1>12. ASSUME NEW x \in InSeq(pending), x \notin InSeq(lot)
       PROVE  x \notin InSeq(feed)
  <2>1. PICK k \in 1 .. Len(pending) : x = pending[k]
    BY <1>2 DEF InSeq
  <2>2. Len(lot) = RecentMax /\ k + Len(lot) - Len(pending) - 1 < 1
    <3> DEFINE i == k + Len(lot) - Len(pending) - 1
    <3>1. ~(i \in 1 .. Len(lot) - 1)
      <4> SUFFICES ASSUME i \in 1 .. Len(lot) - 1 PROVE FALSE
        OBVIOUS
      <4>1. lot[i] = pending[i + 1 + Len(pending) - Len(lot)]
        BY <1>4
      <4>2. i + 1 + Len(pending) - Len(lot) = k /\ i \in 1 .. Len(lot)
        BY <1>0, <1>2, <1>4, SMT
      <4>3. i \in DOMAIN lot
        BY <1>4, <4>2
      <4>4. lot[i] = x
        BY <2>1, <4>1, <4>2
      <4> QED
        BY <1>12, <4>3, <4>4 DEF InSeq
    <3> QED
      BY <1>0, <1>2, <1>4, <3>1, SMT
  <2>3. x <= e - RecentMax /\ x \in Int
    <3>1. pending[k] <= events - Len(pending) + k /\ pending[k] \in Int
      BY <1>2 DEF BatchIsLast
    <3> QED
      BY <1>0, <1>2, <1>4, <2>1, <2>2, <3>1, SMT
  <2>4. ASSUME NEW i \in 1 .. Len(feed) PROVE feed[i] # x
    BY <1>0, <1>2, <1>3, <1>6, <2>3, SMT
  <2> QED
    BY <1>3, <2>4 DEF InSeq
<1>13. CaughtUp'
  <2> SUFFICES ASSUME NEW c \in clients, socket[c] = "open"
               PROVE  InSeq(feed) \subseteq got[c] \cup InSeq(lot) /\ lot # <<>>
    BY <1>1 DEF CaughtUp
  <2>1. e \in InSeq(lot)
    <3>1. Len(lot) \in DOMAIN lot
      BY <1>0, <1>4, SMT
    <3> QED
      BY <1>4, <3>1 DEF InSeq
  <2>2. InSeq(recent) \subseteq got[c] \cup InSeq(pending)
    BY DEF CaughtUp
  <2> QED
    BY <1>4, <1>11, <1>12, <2>1, <2>2
<1> QED
  BY <1>5, <1>8, <1>9, <1>10, <1>13

LEMMA HubStutters == HubInv /\ UNCHANGED hubVars => HubInv'
<1> SUFFICES ASSUME HubInv, UNCHANGED hubVars PROVE HubInv'
  OBVIOUS
<1> USE DEF HubInv, hubVars, sent
<1>1. HubTypes' /\ FeedIsLast' /\ BatchIsLast'
  BY DEF HubTypes, FeedIsLast, BatchIsLast
<1>2. TimerIffClients' /\ CaughtUp'
  BY DEF TimerIffClients, CaughtUp, InSeq
<1> QED
  BY <1>1, <1>2

\* Sockets come and go; feed and batch stay as they are.
LEMMA SocketsKeep ==
  ASSUME HubInv, NEW c \in Client, addClient(c) \/ SocketCloses(c) \/ removeClient(c)
  PROVE  HubInv'
<1> USE DEF HubInv
<1>1. FeedIsLast' /\ BatchIsLast'
  BY DEF FeedIsLast, BatchIsLast, addClient, SocketCloses, removeClient
<1>2. CASE addClient(c)
  <2>1. got'[c] = InSeq(recent) /\ told'[c] = events
    BY <1>2 DEF addClient, HubTypes
  <2>2. ASSUME NEW d \in Client, d # c
        PROVE  got'[d] = got[d] /\ told'[d] = told[d] /\ socket'[d] = socket[d]
    BY <1>2, <2>2 DEF addClient, HubTypes
  <2>3. InSeq(recent) \subseteq Int
    BY SMT DEF InSeq, HubTypes
  <2>4. HubTypes'
    BY <1>2, <2>3, SMT DEF addClient, HubTypes
  <2>5. TimerIffClients'
    BY <1>2 DEF addClient, TimerIffClients
  <2>6. CaughtUp'
    <3>1. /\ clients' = clients \cup {c} /\ clients \subseteq Client
          /\ UNCHANGED <<events, recent, pending>>
      BY <1>2 DEF addClient, HubTypes
    <3> QED
      BY <2>1, <2>2, <3>1 DEF CaughtUp, InSeq
  <2> QED
    BY <1>1, <2>4, <2>5, <2>6
<1>3. CASE SocketCloses(c)
  <2>1. HubTypes'
    BY <1>3 DEF SocketCloses, HubTypes, sent
  <2>2. TimerIffClients'
    BY <1>3 DEF SocketCloses, TimerIffClients
  <2>3. CaughtUp'
    <3>1. /\ clients' \subseteq clients /\ clients \subseteq Client
          /\ UNCHANGED <<events, recent, pending, got, told>>
          /\ \A d \in Client : socket'[d] = "open" => socket[d] = "open"
      BY <1>3 DEF SocketCloses, HubTypes, sent
    <3> QED
      BY <3>1 DEF CaughtUp, InSeq
  <2> QED
    BY <1>1, <2>1, <2>2, <2>3
<1>4. CASE removeClient(c)
  <2>1. HubTypes'
    BY <1>4 DEF removeClient, HubTypes, sent
  <2>2. TimerIffClients'
    BY <1>4 DEF removeClient, TimerIffClients
  <2>3. CaughtUp'
    <3>1. /\ clients' \subseteq clients /\ clients \subseteq Client
          /\ UNCHANGED <<events, recent, pending, got, told>>
          /\ \A d \in Client : socket'[d] = "open" => socket[d] = "open"
      BY <1>4 DEF removeClient, HubTypes, sent
    <3> QED
      BY <3>1 DEF CaughtUp, InSeq
  <2> QED
    BY <1>1, <2>1, <2>2, <2>3
<1> QED
  BY <1>2, <1>3, <1>4

LEMMA flushKeeps == HubInv /\ flush => HubInv'
<1> SUFFICES ASSUME HubInv, flush PROVE HubInv'
  OBVIOUS
<1> USE DEF HubInv
<1>1. /\ pending' = <<>> /\ UNCHANGED <<events, recent, clients, socket, timer, closing>>
      /\ got' = [c \in Client |-> IF c \in clients /\ socket[c] = "open"
                                  THEN got[c] \cup InSeq(pending) ELSE got[c]]
      /\ told' = [c \in Client |-> IF c \in clients /\ socket[c] = "open"
                                   THEN events ELSE told[c]]
  BY DEF flush, SendBatch
<1>2. InSeq(pending) \subseteq Int
  BY SMT DEF InSeq, HubTypes
<1>3. pending' \in Seq(Int) /\ Len(pending') = 0
  BY <1>1, SMT
<1>4. HubTypes'
  <2>1. got' \in [Client -> SUBSET Int] /\ told' \in [Client -> Int]
    BY <1>1, <1>2, SMT DEF HubTypes
  <2> QED
    BY <1>1, <1>3, <2>1 DEF HubTypes
<1>5. FeedIsLast'
  BY <1>1 DEF FeedIsLast
<1>6. BatchIsLast'
  BY <1>3, HubAssumption, SMT DEF BatchIsLast
<1>7. TimerIffClients'
  BY <1>1 DEF TimerIffClients
<1>8. CaughtUp'
  <2> SUFFICES ASSUME NEW c \in clients, socket[c] = "open"
               PROVE  InSeq(recent) \subseteq got'[c] /\ told'[c] = events
    BY <1>1 DEF CaughtUp
  <2> QED
    BY <1>1 DEF CaughtUp, HubTypes
<1> QED
  BY <1>4, <1>5, <1>6, <1>7, <1>8

LEMMA HubStepKeeps == HubInv /\ HubStep => HubInv'
BY onEventKeeps, flushKeeps, SocketsKeep DEF HubStep

\* With nobody left and the timer stopped, nothing is promised to anybody.
LEMMA EmptyHubKeeps ==
  ASSUME HubInv, clients' = {}, timer' = FALSE, closing' \in BOOLEAN,
         socket' \in [Client -> {"off", "open", "closing"}],
         UNCHANGED <<events, recent, pending, got, told>>
  PROVE  HubInv'
BY DEF HubInv, HubTypes, FeedIsLast, BatchIsLast, TimerIffClients, CaughtUp

LEMMA closeAllKeeps == HubInv /\ closeAll => HubInv'
<1> SUFFICES ASSUME HubInv, closeAll PROVE HubInv'
  OBVIOUS
<1>1. socket' \in [Client -> {"off", "open", "closing"}]
  BY DEF HubInv, HubTypes, closeAll
<1> QED
  BY <1>1, EmptyHubKeeps DEF closeAll, sent

-----------------------------------------------------------------------------
(* The driver *)

DriverTypes ==
  /\ lanes \in [Lane -> Int] /\ stopIn \in Int /\ session \in Nat
  /\ \A l \in Lane : lanes[l] >= -1

DriverInv == DriverTypes /\ AutoStopsOnTime

LEMMA DriverInitially == DriverInit => DriverInv
BY SMT DEF DriverInit, DriverInv, DriverTypes, AutoStopsOnTime, running, On, Off

LEMMA DriverStutters == DriverInv /\ UNCHANGED driverVars => DriverInv'
BY DEF DriverInv, DriverTypes, AutoStopsOnTime, running, On, driverVars

\* The auto-stop is armed by the first lane that is switched on, and by no other.
LEMMA SwitchOnKeeps ==
  ASSUME DriverInv, NEW off \in SUBSET Lane, SwitchOn(off)
  PROVE  DriverInv'
<1> USE DEF DriverInv, DriverTypes, Off
<1>1. \A l \in off : EveryMs[l] \in Nat \ {0}
  BY DriverAssumption
<1>2. DriverTypes'
  BY <1>1, DriverAssumption, SMT DEF SwitchOn
<1>3. running' <=> (running \/ off # {})
  BY <1>1, SMT DEF SwitchOn, running, On
<1> QED
  BY <1>2, <1>3, DriverAssumption, SMT DEF SwitchOn, AutoStopsOnTime

LEMMA stopKeeps == DriverInv /\ stop => DriverInv' /\ ~running' /\ stopIn' = Off
BY SMT DEF stop, DriverInv, DriverTypes, AutoStopsOnTime, running, On, Off

LEMMA ElapseKeeps == DriverInv /\ Elapse => DriverInv' /\ (running' <=> running)
<1> SUFFICES ASSUME DriverInv, Elapse PROVE DriverInv' /\ (running' <=> running)
  OBVIOUS
<1> USE DEF DriverInv, DriverTypes, Off
<1>1. DriverTypes' /\ (running' <=> running)
  BY SMT DEF Elapse, running, On
<1> QED
  BY <1>1, DriverAssumption, SMT DEF Elapse, AutoStopsOnTime

LEMMA DriverStepKeeps == DriverInv /\ DriverStep => DriverInv'
<1> SUFFICES ASSUME DriverInv, DriverStep PROVE DriverInv'
  OBVIOUS
<1>1. CASE start
  BY <1>1, SwitchOnKeeps DEF start
<1>2. CASE stop \/ AutoStop
  BY <1>2, stopKeeps DEF AutoStop
<1>3. ASSUME NEW l \in Lane, setLaneOn(l) PROVE DriverInv'
  BY <1>3, SwitchOnKeeps DEF setLaneOn
<1>4. ASSUME NEW l \in Lane, setLaneOff(l) PROVE DriverInv'
  <2> USE DEF DriverInv, DriverTypes, Off
  <2>1. DriverTypes'
    BY <1>4, SMT DEF setLaneOff
  <2>2. running' <=> \E m \in Lane \ {l} : On(m)
    BY <1>4 DEF setLaneOff, running, On
  <2>3. On(l) => running
    BY DEF running
  <2> QED
    BY <1>4, <2>1, <2>2, <2>3 DEF setLaneOff, AutoStopsOnTime, running
<1>5. ASSUME NEW l \in Lane, LaneTick(l) PROVE DriverInv'
  <2> USE DEF DriverInv, DriverTypes, Off
  <2>0. EveryMs[l] \in Nat \ {0}
    BY DriverAssumption
  <2>1. DriverTypes'
    BY <1>5, <2>0, SMT DEF LaneTick
  <2>2. running' <=> running
    BY <1>5, <2>0, SMT DEF LaneTick, running, On
  <2> QED
    BY <1>5, <2>1, <2>2 DEF LaneTick, AutoStopsOnTime
<1> QED
  BY <1>1, <1>2, <1>3, <1>4, <1>5 DEF DriverStep

-----------------------------------------------------------------------------
(* The process *)

\* Once onClose has run, the hub takes nobody in.
HubIsClosed ==
  /\ phase \in {"quitting", "closed"} => closing
  /\ forceIn \in {Off} \cup (0 .. ForceMs)

ProcessInv ==
  /\ HubInv /\ DriverInv
  /\ TypeOK /\ HubIsClosed /\ BackstopHolds /\ QuietBeforeQuit

LEMMA ProcessInitially == Init => ProcessInv
<1> SUFFICES ASSUME Init PROVE ProcessInv
  OBVIOUS
<1>1. HubInv /\ DriverInv
  BY HubInitially, DriverInitially DEF Init
<1>2. TypeOK
  BY ServerAssumption, SMT DEF Init, TypeOK, Phase
<1>3. HubIsClosed /\ BackstopHolds /\ QuietBeforeQuit
  BY DEF Init, HubIsClosed, BackstopHolds, QuietBeforeQuit
<1> QED
  BY <1>1, <1>2, <1>3 DEF ProcessInv

\* The process exits, whichever way.
LEMMA DiesKeeps ==
  ASSUME ProcessInv, NEW code \in {"exit 0", "exit 1"}, Dies(code)
  PROVE  ProcessInv'
<1> USE DEF ProcessInv
<1>1. HubInv'
  <2>1. socket' \in [Client -> {"off", "open", "closing"}] /\ closing' \in BOOLEAN
    BY DEF Dies, HubInv, HubTypes
  <2> QED
    BY <2>1, EmptyHubKeeps DEF Dies, sent
<1>2. DriverInv'
  BY stopKeeps DEF Dies
<1>3. TypeOK'
  BY DEF Dies, TypeOK, Phase
<1>4. HubIsClosed' /\ BackstopHolds' /\ QuietBeforeQuit'
  BY DEF Dies, HubIsClosed, BackstopHolds, QuietBeforeQuit
<1> QED
  BY <1>1, <1>2, <1>3, <1>4

LEMMA ProcessStep == ProcessInv /\ [Next]_vars => ProcessInv'
<1> SUFFICES ASSUME ProcessInv, [Next]_vars PROVE ProcessInv'
  OBVIOUS
<1> USE DEF ProcessInv
<1>1. CASE HubRuns
  <2>1. HubInv' /\ DriverInv'
    BY <1>1, HubStepKeeps, DriverStutters DEF HubRuns
  <2>2. UNCHANGED <<phase, refreshing, forceIn, since, lanes, stopIn>>
    BY <1>1 DEF HubRuns, driverVars, processVars
  <2>3. /\ closing' = closing
        /\ closing /\ ~timer /\ clients = {} => ~timer' /\ clients' = {}
    <3>1. CASE onEvent \/ flush
      BY <3>1 DEF onEvent, flush
    <3>2. ASSUME NEW c \in Client, addClient(c)
          PROVE  closing' = closing /\ ~closing
      BY <3>2 DEF addClient
    <3>3. ASSUME NEW c \in Client, SocketCloses(c) \/ removeClient(c)
          PROVE  closing' = closing /\ clients' \subseteq clients /\ (timer' => timer)
      <4>1. CASE SocketCloses(c)
        BY <4>1 DEF SocketCloses
      <4>2. CASE removeClient(c)
        BY <4>2, Zenon DEF removeClient
      <4> QED
        BY <3>3, <4>1, <4>2
    <3> QED
      BY <1>1, <3>1, <3>2, <3>3 DEF HubRuns, HubStep
  <2>4. TypeOK' /\ HubIsClosed' /\ BackstopHolds'
    BY <2>2, <2>3 DEF TypeOK, HubIsClosed, BackstopHolds
  <2>5. QuietBeforeQuit'
    BY <2>2, <2>3 DEF QuietBeforeQuit, HubIsClosed, running, On
  <2> QED
    BY <2>1, <2>4, <2>5
<1>2. CASE DriverRuns
  <2>1. HubInv' /\ DriverInv'
    BY <1>2, HubStutters, DriverStepKeeps DEF DriverRuns
  <2>2. /\ UNCHANGED <<phase, refreshing, forceIn, since, closing>>
        /\ phase \in {"up", "closing"}
    BY <1>2 DEF DriverRuns, hubVars, processVars
  <2>3. TypeOK' /\ HubIsClosed' /\ BackstopHolds' /\ QuietBeforeQuit'
    BY <2>2 DEF TypeOK, HubIsClosed, BackstopHolds, QuietBeforeQuit
  <2> QED
    BY <2>1, <2>3
<1>3. CASE Passes
  <2>1. HubInv' /\ DriverInv' /\ (running' <=> running)
    BY <1>3, HubStutters, ElapseKeeps DEF Passes
  <2>2. UNCHANGED <<phase, refreshing, closing, timer, clients>>
    BY <1>3 DEF Passes, hubVars
  <2>3. BackstopHolds' /\ TypeOK'
    <3>1. CASE phase = "up"
      BY <1>3, <2>2, <3>1, SMT DEF Passes, TypeOK, BackstopHolds, Off
    <3>2. CASE phase \in {"closing", "quitting", "closed"}
      <4>1. forceIn \in 0 .. ForceMs /\ since + forceIn = ForceMs /\ forceIn # 0
            /\ since \in 0 .. ForceMs
        BY <1>3, <3>2, SMT DEF Passes, TypeOK, BackstopHolds, Off
      <4>2. forceIn' = forceIn - 1 /\ since' = since + 1
        BY <1>3, <3>2, <4>1, ServerAssumption, SMT DEF Passes, Off
      <4> QED
        BY <2>2, <3>2, <4>1, <4>2, ServerAssumption, SMT DEF TypeOK, BackstopHolds
    <3> QED
      BY <1>3, <3>1, <3>2 DEF Passes, Gone, TypeOK, Phase
  <2>4. HubIsClosed'
    BY <2>2, <2>3 DEF HubIsClosed, TypeOK
  <2>5. QuietBeforeQuit'
    BY <1>3, <2>1, <2>2 DEF Passes, Elapse, QuietBeforeQuit
  <2> QED
    BY <2>1, <2>3, <2>4, <2>5
<1>4. CASE shutdown
  <2>1. HubInv' /\ DriverInv'
    BY <1>4, HubStutters, DriverStutters DEF shutdown
  <2>2. TypeOK' /\ BackstopHolds'
    BY <1>4, ServerAssumption, SMT DEF shutdown, TypeOK, Phase, BackstopHolds
  <2>3. HubIsClosed' /\ QuietBeforeQuit'
    BY <1>4, <2>2 DEF shutdown, HubIsClosed, QuietBeforeQuit, TypeOK
  <2> QED
    BY <2>1, <2>2, <2>3
<1>5. CASE onClose
  <2>1. HubInv' /\ DriverInv' /\ ~running' /\ stopIn' = Off
    BY <1>5, closeAllKeeps, stopKeeps DEF onClose
  <2>2. /\ phase = "closing" /\ phase' = "quitting" /\ ~refreshing' /\ refreshing' \in BOOLEAN
        /\ closing' /\ clients' = {} /\ ~timer' /\ UNCHANGED <<forceIn, since>>
    BY <1>5 DEF onClose, closeAll
  <2>3. TypeOK' /\ BackstopHolds'
    BY <2>2 DEF TypeOK, Phase, BackstopHolds
  <2>4. HubIsClosed' /\ QuietBeforeQuit'
    BY <2>1, <2>2 DEF HubIsClosed, QuietBeforeQuit
  <2> QED
    BY <2>1, <2>3, <2>4
<1>6. CASE StoreCloses
  <2>1. HubInv' /\ DriverInv'
    BY <1>6, HubStutters, DriverStutters DEF StoreCloses
  <2>2. /\ phase = "quitting" /\ phase' = "closed"
        /\ UNCHANGED <<refreshing, forceIn, since, closing, timer, clients, lanes, stopIn>>
    BY <1>6 DEF StoreCloses, hubVars, driverVars
  <2>3. TypeOK' /\ HubIsClosed' /\ BackstopHolds'
    BY <2>2 DEF TypeOK, Phase, HubIsClosed, BackstopHolds
  <2>4. QuietBeforeQuit'
    BY <2>2 DEF QuietBeforeQuit, running, On
  <2> QED
    BY <2>1, <2>3, <2>4
<1>7. CASE Exit \/ ForceExit
  BY <1>7, DiesKeeps DEF Exit, ForceExit
<1>8. CASE UNCHANGED vars
  <2>1. UNCHANGED <<hubVars, driverVars, phase, refreshing, forceIn, since>>
    BY <1>8 DEF vars, processVars
  <2>2. HubInv' /\ DriverInv'
    BY <2>1, HubStutters, DriverStutters
  <2>3. TypeOK' /\ HubIsClosed' /\ BackstopHolds' /\ QuietBeforeQuit'
    BY <2>1 DEF hubVars, driverVars, TypeOK, HubIsClosed, BackstopHolds, QuietBeforeQuit,
                running, On
  <2> QED
    BY <2>2, <2>3
<1> QED
  BY <1>1, <1>2, <1>3, <1>4, <1>5, <1>6, <1>7, <1>8 DEF Next

LEMMA ProcessInvariant == Spec => []ProcessInv
BY ProcessInitially, ProcessStep, PTL DEF Spec

-----------------------------------------------------------------------------
(* Theorems *)

\* For any backstop, the process's own state keeps its types (server.js:152-170).
THEOREM ProcessTypes == Spec => []TypeOK
BY ProcessInvariant, PTL DEF ProcessInv

\* For any backstop and any signals, what is left of it and what has passed since the
\* first signal make up ForceMs (server.js:153-162).
THEOREM BackstopIsKept == Spec => []BackstopHolds
BY ProcessInvariant, PTL DEF ProcessInv

\* Whatever the buttons and the browsers did while the HTTP side closed, all is quiet
\* when the connection is closed (server.js:131-136).
THEOREM QuietWhenClosing == Spec => []QuietBeforeQuit
BY ProcessInvariant, PTL DEF ProcessInv

\* For any number of browsers and any length of the feed, who is connected is at most
\* one flush behind (hub.js:29-109).
THEOREM WatchersCatchUp == Spec => []CaughtUp
BY ProcessInvariant, PTL DEF ProcessInv, HubInv

\* For any number of browsers, the timer runs exactly for somebody (hub.js:66-102).
THEOREM TimerForSomebody == Spec => []TimerIffClients
BY ProcessInvariant, PTL DEF ProcessInv, HubInv

\* For any lanes and any maxMs, the auto-stop is due on time (driver.js:43-91).
THEOREM StopsOnTime == Spec => []AutoStopsOnTime
BY ProcessInvariant, PTL DEF ProcessInv, DriverInv

===============================================================================
