----------------------------- MODULE MCRollups -----------------------------
(***************************************************************************)
(* The two figures of the roster that are derived from other rows, the     *)
(* attendance percentage and the service hours.  They have no state in     *)
(* common, so a behaviour of this module is one of Attendance or one of    *)
(* ServiceHours: part says which, and the other does not move.             *)
(***************************************************************************)
EXTENDS Attendance, TLC

CONSTANTS MaxHours, HoursRequests

ASSUME HoursAssumption == MaxHours \in Nat /\ HoursRequests \in Nat

VARIABLES part, events, hours, total, hoursPc, hoursJob, hoursRequests, hoursDoubt, unheard, typed

hoursVars == <<events, hours, total, hoursPc, hoursJob, hoursRequests, hoursDoubt, unheard, typed>>

Service == INSTANCE ServiceHours
  WITH pc <- hoursPc, job <- hoursJob, requests <- hoursRequests, doubt <- hoursDoubt,
       MaxRequests <- HoursRequests

MCInit == part \in {"attendance", "service"} /\ Init /\ Service!Init

MCNext ==
  \/ part = "attendance" /\ Next /\ UNCHANGED <<part, hoursVars>>
  \/ part = "service" /\ Service!Next /\ UNCHANGED <<part, vars>>

MCSpec == MCInit /\ [][MCNext]_<<part, vars, hoursVars>>

\* See Attendance: its state is well typed, and the percentage of a member is that of the
\* rolls.
RollsTrue == TypeOK /\ RatioTrue

\* See ServiceHours: its state is well typed, and the total of a member is the sum of
\* the participations.
HoursTrue == Service!TypeOK /\ Service!TotalTrue

Symmetry ==
  Permutations(Workers) \cup Permutations(Events) \cup Permutations(Members)
=============================================================================
