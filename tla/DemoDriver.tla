------------------------------ MODULE DemoDriver ------------------------------
(***************************************************************************)
(* The traffic simulator behind the dashboard's buttons (demo/driver.js):  *)
(* lanes with an interval timer each, and one timer that stops them all.   *)
(* A due timer goes off before the clock moves on.  The requests a lane    *)
(* fires go through Limiter like any other and are left out.               *)
(***************************************************************************)
EXTENDS Integers

CONSTANTS
  Lane,            \* the names in LANES
  EveryMs,         \* EveryMs[l]: the lane's interval
  MaxMs            \* auto-stop everything after this long

ASSUME DriverAssumption == EveryMs \in [Lane -> Nat \ {0}] /\ MaxMs \in Nat \ {0}

VARIABLES
  lanes,           \* lanes[l]: milliseconds to the lane's next tick, or Off
  stopIn,          \* milliseconds to the auto-stop, or Off
  session          \* history: milliseconds since the driver began to run

driverVars == <<lanes, stopIn, session>>

Off == -1

On(l) == lanes[l] # Off
running == \E l \in Lane : On(l)

DriverInit ==
  /\ lanes = [l \in Lane |-> Off]
  /\ stopIn = Off
  /\ session = 0

\* Lanes `off` are switched on, each with a first tick at once.
SwitchOn(off) ==
  /\ lanes' = [l \in Lane |-> IF l \in off THEN EveryMs[l] ELSE lanes[l]]
  /\ stopIn' = IF off # {} /\ stopIn = Off THEN MaxMs ELSE stopIn
  /\ session' = IF running THEN session ELSE 0

setLaneOn(l) == SwitchOn({l} \ {m \in Lane : On(m)})

\* Mutant of setLaneOff: the auto-stop of a session that is over stays armed.
KeepsAutoStop(l) ==
  /\ lanes' = [lanes EXCEPT ![l] = Off]
  /\ UNCHANGED <<stopIn, session>>

setLaneOff(l) ==
  /\ lanes' = [lanes EXCEPT ![l] = Off]
  /\ stopIn' = IF On(l) /\ \A m \in Lane \ {l} : ~On(m) THEN Off ELSE stopIn
  /\ UNCHANGED session

start == SwitchOn({l \in Lane : ~On(l)})

\* The stop button, the auto-stop, or the server closing.
stop ==
  /\ lanes' = [l \in Lane |-> Off]
  /\ stopIn' = Off
  /\ UNCHANGED session

AutoStop == stopIn = 0 /\ stop

LaneTick(l) ==
  /\ lanes[l] = 0
  /\ lanes' = [lanes EXCEPT ![l] = EveryMs[l]]
  /\ UNCHANGED <<stopIn, session>>

\* A millisecond passes.
Elapse ==
  /\ stopIn # 0 /\ \A l \in Lane : lanes[l] # 0
  /\ lanes' = [l \in Lane |-> IF On(l) THEN lanes[l] - 1 ELSE Off]
  /\ stopIn' = IF stopIn = Off THEN Off ELSE stopIn - 1
  /\ session' = IF running THEN session + 1 ELSE session

\* The buttons, and the timers that are due.
DriverStep ==
  \/ start \/ stop \/ AutoStop
  \/ \E l \in Lane : setLaneOn(l) \/ setLaneOff(l) \/ LaneTick(l)

DriverNext == DriverStep \/ Elapse

DriverSpec == DriverInit /\ [][DriverNext]_driverVars

-----------------------------------------------------------------------------

\* "Auto-stop everything after this long" (driver.js:26): however the lanes are
\* switched, the auto-stop is due exactly maxMs after the driver began to run, and
\* one that is not running has none that could end its next session early.
AutoStopsOnTime ==
  IF running THEN stopIn >= 0 /\ session + stopIn = MaxMs ELSE stopIn = Off

===============================================================================
