---------------------------- MODULE TimerClaims ----------------------------
(***************************************************************************)
(* What the documentation and the comments of timerd say of it, stated of  *)
(* the model of its code.  TLC refutes each of them; the traces are the    *)
(* ones the README tells.                                                  *)
(***************************************************************************)
EXTENDS TimerManager

\* The timers that only timerd.conf holds: scheduled for later, not ended by a
\* client.
Stored(evs) == {evs[i].info : i \in DOMAIN evs}
Safe(x) ==
  /\ \E i \in DOMAIN config.events :
       /\ config.events[i].info = x
       /\ config.events[i].eventState = "SCHEDULED"
       /\ config.events[i].alarmTime > now
  /\ x \notin Stored(events)
  /\ \A st \in States : <<x, st>> \notin ended

\* doku.html: "Alle Timer werden im nicht fluechtigen Speicher gesichert, d.h.
\* sie ueberleben runterfahren, reset, Stromausfall": no step takes a timer
\* that is ahead out of timerd.conf while memory does not hold it.
TimersSurvive ==
  [][\A x \in Infos : Safe(x) => x \in Stored(config.events') \cup Stored(events')]_vars

\* shutdownOnWakeup: "Bei anstehendem/laufendem RECORD oder ZAPTO Timer nicht
\* runterfahren": no shutdown timer is added while another recording runs.
NoShutdownWhileRecording ==
  [][\A i \in DOMAIN events' \ DOMAIN events :
       events'[i].info = NoInfo => recording' = {}]_vars

\* timerdclient.h: "Exit timerd and programm wakeup": a shutdown that was
\* begun comes to its end.
ShutdownExits == (mpc = "join") ~> ~Up

=============================================================================
