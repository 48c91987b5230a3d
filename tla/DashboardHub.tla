----------------------------- MODULE DashboardHub -----------------------------
(***************************************************************************)
(* The live feed of the dashboard (dashboard/hub.js) and the sockets that  *)
(* dashboard/routes.js hands to it.                                        *)
(*                                                                         *)
(* A decision is recorded at once; clients get the batch when the timer    *)
(* goes off.  Every handler runs to its end, so a handler is one action.   *)
(* A socket stops being writable some time before its close handler runs.  *)
(*                                                                         *)
(* Decisions are numbered.  The rollups (totals, stats) sum up the         *)
(* decisions so far: the number of the last one stands for them.           *)
(***************************************************************************)
EXTENDS Integers, Sequences

CONSTANTS
  Client,          \* the browsers that may connect, and connect again
  RecentMax,       \* length of the recent feed
  MaxEvents        \* bound: decisions recorded

ASSUME HubAssumption == RecentMax \in Nat \ {0} /\ MaxEvents \in Nat

VARIABLES
  events,          \* decisions recorded so far, in the rollups
  recent,          \* the feed, oldest first
  pending,         \* decisions awaiting the next flush
  clients,         \* the sockets the hub knows
  socket,          \* socket[c]: "off", "open" or "closing"
  timer,           \* whether the flush timer runs
  closing,         \* whether the server is shutting down
  got,             \* history: got[c]: the decisions sent to c's socket
  told             \* history: told[c]: the rollups last sent to it

sent == <<got, told>>
hubVars == <<events, recent, pending, clients, socket, timer, closing, sent>>

InSeq(s) == {s[i] : i \in DOMAIN s}

\* push, then shift while there are too many.
Pushed(s, e) == IF Len(s) < RecentMax THEN Append(s, e) ELSE Append(Tail(s), e)

HubInit ==
  /\ events = 0 /\ recent = <<>> /\ pending = <<>>
  /\ clients = {} /\ socket = [c \in Client |-> "off"]
  /\ timer = FALSE /\ closing = FALSE
  /\ got = [c \in Client |-> {}] /\ told = [c \in Client |-> 0]

\* Mutant of onEvent: a full batch refuses the event instead of its oldest one.
RefusesNewest ==
  /\ events < MaxEvents
  /\ events' = events + 1
  /\ recent' = Pushed(recent, events')
  /\ pending' = IF clients # {} /\ Len(pending) < RecentMax
                THEN Append(pending, events') ELSE pending
  /\ UNCHANGED <<clients, socket, timer, closing, sent>>

onEvent ==
  /\ events < MaxEvents
  /\ events' = events + 1
  /\ recent' = Pushed(recent, events')
  /\ pending' = IF clients # {} THEN Pushed(pending, events') ELSE pending
  /\ UNCHANGED <<clients, socket, timer, closing, sent>>

\* A browser connects: it gets a snapshot and the timer runs.
addClient(c) ==
  /\ socket[c] = "off" /\ ~closing
  /\ clients' = clients \cup {c}
  /\ socket' = [socket EXCEPT ![c] = "open"]
  /\ got' = [got EXCEPT ![c] = InSeq(recent)]
  /\ told' = [told EXCEPT ![c] = events]
  /\ timer' = TRUE
  /\ UNCHANGED <<events, recent, pending, closing>>

\* The socket is no longer writable; its close handler is yet to run.
SocketCloses(c) ==
  /\ socket[c] = "open"
  /\ socket' = [socket EXCEPT ![c] = "closing"]
  /\ UNCHANGED <<events, recent, pending, clients, timer, closing, sent>>

\* Mutant of removeClient: the timer is left running.
LeavesTimer(c) ==
  /\ socket[c] = "closing"
  /\ socket' = [socket EXCEPT ![c] = "off"]
  /\ clients' = clients \ {c}
  /\ UNCHANGED <<events, recent, pending, timer, closing, sent>>

\* The close (or error) handler; closeAll may have forgotten the socket before.
removeClient(c) ==
  /\ socket[c] = "closing"
  /\ socket' = [socket EXCEPT ![c] = "off"]
  /\ clients' = clients \ {c}
  /\ timer' = (timer /\ clients' # {})
  /\ UNCHANGED <<events, recent, pending, closing, sent>>

\* The batch, and the rollups, go to every socket that can be written.
SendBatch ==
  LET listens(c) == c \in clients /\ socket[c] = "open"
  IN /\ pending' = <<>>
     /\ got' = [c \in Client |-> IF listens(c) THEN got[c] \cup InSeq(pending) ELSE got[c]]
     /\ told' = [c \in Client |-> IF listens(c) THEN events ELSE told[c]]

\* Mutant of flush: waits for a full batch.
FlushesFull ==
  /\ timer
  /\ Len(pending) = RecentMax
  /\ SendBatch
  /\ UNCHANGED <<events, recent, clients, socket, timer, closing>>

\* The timer goes off.
flush ==
  /\ timer
  /\ clients # {} /\ pending # <<>>
  /\ SendBatch
  /\ UNCHANGED <<events, recent, clients, socket, timer, closing>>

\* Shutdown terminates every socket and stops the timer.
closeAll ==
  /\ ~closing
  /\ closing' = TRUE
  /\ socket' = [c \in Client |-> IF c \in clients THEN "closing" ELSE socket[c]]
  /\ clients' = {}
  /\ timer' = FALSE
  /\ UNCHANGED <<events, recent, pending, sent>>

\* What happens to the hub while the server runs.
HubStep ==
  \/ onEvent \/ flush
  \/ \E c \in Client : addClient(c) \/ SocketCloses(c) \/ removeClient(c)

HubNext == HubStep \/ closeAll

HubSpec == HubInit /\ [][HubNext]_hubVars

\* The interval timer goes off.
FairHub == HubSpec /\ WF_hubVars(flush)

-----------------------------------------------------------------------------

\* However clients come, go and come back, a connected one is at most one flush
\* behind: what is in the feed it was sent, or is in the next batch, and so with the
\* rollups it shows (hub.js:29-70, 104-109).
CaughtUp ==
  \A c \in clients : socket[c] = "open" =>
    /\ InSeq(recent) \subseteq got[c] \cup InSeq(pending)
    /\ told[c] = events \/ pending # <<>>

\* The flush timer runs exactly while somebody is connected, so that an idle
\* dashboard costs nothing and a shut down one lets the process end (hub.js:66-102).
TimerIffClients == timer <=> clients # {}

\* What is still in the feed reaches whoever stays connected (hub.js:104-109).
Delivered ==
  \A c \in Client, e \in 1 .. MaxEvents :
    (socket[c] = "open" /\ e \in InSeq(pending) /\ e \in InSeq(recent))
      ~> (e \in got[c] \/ socket[c] # "open" \/ e \notin InSeq(recent))

===============================================================================
