---------------------------- MODULE MCProcesser ----------------------------
(***************************************************************************)
(* Processer with two fibers.  Three bounds keep the instance small; the   *)
(* scheduler run explores sleeps, stops and the dispatcher at any time,    *)
(* with one fiber.                                                         *)
(***************************************************************************)
EXTENDS Processer, TLC

Stopping == \E p \in Procs : stopping[p]
Live == {f \in Fibers \ fresh : ~Finished(f)}

Bounded ==
  \* Calls that overlap hand their fibers to the same processer.
  /\ \A c, d \in Callers :
       call[c] # NoCall /\ call[d] # NoCall => call[c].tgt = call[d].tgt
  \* A fiber sleeps when no other is live, and the stop comes after both.
  /\ (\E f \in timed : state[f] # "INIT") => Cardinality(Live) <= 1
  /\ Stopping => Live = {} /\ fresh = {}

\* The dispatcher's notifies, the steps that only post, come after a stop.
DispatchLate ==
  UNCHANGED <<fiberVars, procVars, call, stopping>> /\ sem' # sem => Stopping
=============================================================================
