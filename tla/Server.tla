-------------------------------- MODULE Server --------------------------------
(***************************************************************************)
(* One application process (server.js): the dashboard hub and the demo     *)
(* driver it holds, the refresh timer of the overrides, and its shutdown.  *)
(*                                                                         *)
(* A signal starts app.close and a backstop of ForceMs.  Fastify, which is *)
(* external, closes the HTTP side, however long that takes, and runs the   *)
(* onClose hook; the hook stops the parts and awaits store.close, whose    *)
(* QUIT a Redis that is gone may never answer.  The decisions the hub is   *)
(* told of are those of any requests, the demo's among them.               *)
(***************************************************************************)
EXTENDS DashboardHub, DemoDriver

CONSTANT ForceMs      \* the backstop of shutdown

ASSUME ServerAssumption == ForceMs \in Nat \ {0}

VARIABLES
  phase,              \* where the process is on its way out
  refreshing,         \* whether the refresh timer of the overrides runs
  forceIn,            \* milliseconds to the backstop, or Off
  since               \* history: milliseconds since the first signal, up to ForceMs + 1

processVars == <<phase, refreshing, forceIn, since>>
vars == <<hubVars, driverVars, processVars>>

\* "closing": app.close was called; "quitting": onClose awaits store.close;
\* "closed": app.close is done; the process exits with the code it ends in.
Phase == {"up", "closing", "quitting", "closed", "exit 0", "exit 1"}

Gone == phase \in {"exit 0", "exit 1"}

-----------------------------------------------------------------------------

Init ==
  /\ HubInit /\ DriverInit
  /\ phase = "up" /\ refreshing = TRUE
  /\ forceIn = Off /\ since = 0

\* Requests are decided, browsers come and go, the flush timer goes off.
HubRuns == ~Gone /\ HubStep /\ UNCHANGED <<driverVars, processVars>>

\* The demo's buttons, until the HTTP side is closed, and its timers.
DriverRuns ==
  /\ phase \in {"up", "closing"}
  /\ DriverStep
  /\ UNCHANGED <<hubVars, processVars>>

\* Mutant of shutdown: a second signal is not ignored.
ShutsDownAgain ==
  /\ ~Gone
  /\ phase' = IF phase = "up" THEN "closing" ELSE phase
  /\ forceIn' = ForceMs
  /\ UNCHANGED <<hubVars, driverVars, refreshing, since>>

\* Mutant of shutdown: no backstop.
WaitsForClose ==
  /\ phase = "up"
  /\ phase' = "closing"
  /\ UNCHANGED <<hubVars, driverVars, refreshing, forceIn, since>>

\* The first signal; later ones return at once.
shutdown ==
  /\ phase = "up"
  /\ phase' = "closing"
  /\ forceIn' = ForceMs
  /\ UNCHANGED <<hubVars, driverVars, refreshing, since>>

\* Mutant of onClose: the simulator is forgotten.
LeavesDemo ==
  /\ phase = "closing"
  /\ closeAll
  /\ refreshing' = FALSE
  /\ phase' = "quitting"
  /\ UNCHANGED <<driverVars, forceIn, since>>

\* The onClose hook, up to its await of store.close.
onClose ==
  /\ phase = "closing"
  /\ stop /\ closeAll
  /\ refreshing' = FALSE
  /\ phase' = "quitting"
  /\ UNCHANGED <<forceIn, since>>

\* QUIT was answered, or failed and the client disconnected.
StoreCloses ==
  /\ phase = "quitting"
  /\ phase' = "closed"
  /\ UNCHANGED <<hubVars, driverVars, refreshing, forceIn, since>>

\* With the process go its timers and its sockets.
Dies(code) ==
  /\ phase' = code
  /\ refreshing' = FALSE /\ forceIn' = Off
  /\ stop
  /\ clients' = {} /\ timer' = FALSE
  /\ socket' = [c \in Client |-> "off"]
  /\ UNCHANGED <<events, recent, pending, closing, sent, since>>

Exit == phase = "closed" /\ Dies("exit 0")

\* The backstop goes off first.
ForceExit == forceIn = 0 /\ Dies("exit 1")

\* A millisecond passes; timers that are due go off before.
Passes ==
  /\ ~Gone /\ forceIn # 0
  /\ Elapse
  /\ forceIn' = IF forceIn = Off THEN Off ELSE forceIn - 1
  /\ since' = IF phase = "up" \/ since > ForceMs THEN since ELSE since + 1
  /\ UNCHANGED <<hubVars, phase, refreshing>>

Next ==
  \/ HubRuns \/ DriverRuns \/ Passes
  \/ shutdown \/ onClose \/ StoreCloses \/ Exit \/ ForceExit

Spec == Init /\ [][Next]_vars

\* The clock runs and the timers that are due go off.  Fastify and Redis promise
\* nothing.
FairSpec ==
  /\ Spec
  /\ WF_vars(flush /\ HubRuns) /\ WF_vars(Passes)
  /\ WF_vars(AutoStop /\ DriverRuns)
  /\ \A l \in Lane : WF_vars(LaneTick(l) /\ DriverRuns)
  /\ WF_vars(ForceExit)

-----------------------------------------------------------------------------

\* Types of the process's own state: only a process that was told to shut down has
\* a backstop (server.js:152-170).
TypeOK ==
  /\ phase \in Phase /\ refreshing \in BOOLEAN
  /\ forceIn \in {Off} \cup (0 .. ForceMs) /\ since \in 0 .. ForceMs
  /\ phase = "up" => forceIn = Off /\ since = 0

\* "Never let a stuck close keep the process alive" (server.js:157): however often
\* it is signalled and whatever it waits for, a process that is shutting down has at
\* every instant just what is left of ForceMs since the first signal.
BackstopHolds ==
  phase \in {"closing", "quitting", "closed"} => forceIn >= 0 /\ since + forceIn = ForceMs

\* What uses Redis or a socket is stopped before the connection is closed, and stays
\* so however long that takes: no lane, no refresh and no feed goes on (server.js:131-136).
QuietBeforeQuit ==
  phase \in {"quitting", "closed"} =>
    ~running /\ stopIn = Off /\ ~refreshing /\ ~timer /\ clients = {}

\* Shutdown ends although neither Fastify nor Redis ever answers (server.js:153-168).
ShutdownEnds == phase = "closing" ~> Gone

===============================================================================
