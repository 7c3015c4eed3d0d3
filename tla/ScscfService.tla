------------------------------ MODULE ScscfService ------------------------------
(***************************************************************************)
(* The S-CSCF service around the registrar: start, stop, and the timer     *)
(* that sweeps expired contacts out of the registration store.             *)
(*                                                                         *)
(* Nothing repeats the timer by itself.  start() arms it once, and from    *)
(* then on every run of its handler has to arm it again, after a sweep, a  *)
(* sweep the store refused and an error of the timer alike; stop() may     *)
(* come between any two of these steps, on another thread.                 *)
(*                                                                         *)
(* Abstractions.                                                           *)
(*  - The interval is positive; with 0 the operator disables the cleanup.  *)
(*  - The handler of a canceled timer only returns: the timer is off.      *)
(*  - The handler starts with its look at stopping_.  A timer that expires *)
(*    earlier counts as armed until then: what stop() does in between has  *)
(*    the same effect, the handler returns.                                *)
(*  - MemoryRegistrationStore never refuses a sweep, but the interface     *)
(*    lets a store do so and the service handles it.                       *)
(*  - After stop() handlers may go on for a while; the module does not say *)
(*    when the last one ends.                                              *)
(***************************************************************************)
EXTENDS Registrar

VARIABLES
    timer,      \* where registration_cleanup_timer_ and its handler stand
    stopping    \* stopping_

serviceVars == <<contacts, pending, pc, req, fresh, targets, reply, timer, stopping>>

\* schedule: about to enter scheduleRegistrationCleanup; arming: past its look
\* at stopping_; armed: async_wait; sweep: the handler, about to purge; off:
\* no handler will run any more.
TimerState == {"schedule", "arming", "armed", "sweep", "off"}

ServiceTypeOK == TypeOK /\ timer \in TimerState /\ stopping \in BOOLEAN

\* The stack takes requests before start() arms the timer.
ServiceInit == Init /\ timer = "schedule" /\ stopping = FALSE

-----------------------------------------------------------------------------
(* scheduleRegistrationCleanup. *)

\* Nothing is scheduled any more for a service that stops.
ScheduleCleanup ==
    /\ timer = "schedule"
    /\ timer' = IF stopping THEN "off" ELSE "arming"
    /\ UNCHANGED <<vars, stopping>>

\* Also after a stop() that came since the look and had nothing to cancel.
ArmTimer ==
    /\ timer = "arming"
    /\ timer' = "armed"
    /\ UNCHANGED <<vars, stopping>>

-----------------------------------------------------------------------------
(* The handler of the timer. *)

TimerFires ==
    /\ timer = "armed"
    /\ timer' = IF stopping THEN "off" ELSE "sweep"
    /\ UNCHANGED <<vars, stopping>>

\* Faulty variant: an error of the timer ends its handler.
TimerFailsForGood ==
    /\ timer = "armed"
    /\ timer' = "off"
    /\ UNCHANGED <<vars, stopping>>

\* The timer fails: there is no sweep, but another round.
TimerFails ==
    /\ timer = "armed"
    /\ timer' = IF stopping THEN "off" ELSE "schedule"
    /\ UNCHANGED <<vars, stopping>>

\* runRegistrationCleanup; whether the service stops is looked at again
\* afterwards, and once more by scheduleRegistrationCleanup.
Sweep ==
    /\ timer = "sweep"
    /\ Cleanup
    /\ timer' = "schedule"
    /\ UNCHANGED stopping

\* The store refuses.
SweepFails ==
    /\ timer = "sweep"
    /\ timer' = "schedule"
    /\ UNCHANGED <<vars, stopping>>

-----------------------------------------------------------------------------
\* stop() cancels the timer when it is armed; a handler that runs goes on.
Stop ==
    /\ ~stopping
    /\ stopping' = TRUE
    /\ timer' = IF timer = "armed" THEN "off" ELSE timer
    /\ UNCHANGED vars

TimerStep ==
    ScheduleCleanup \/ ArmTimer \/ TimerFires \/ TimerFails \/ Sweep \/ SweepFails

ServiceNext ==
    \/ Operations /\ UNCHANGED <<timer, stopping>>
    \/ TimerStep
    \/ Stop

ServiceSpec == ServiceInit /\ [][ServiceNext]_serviceVars

\* Handlers of the timer run, an armed timer does not always fail and a store
\* does not always refuse.  That the timer is armed again is not assumed, and
\* nothing is asked of the handlers of requests.
FairServiceSpec ==
    /\ ServiceSpec
    /\ WF_serviceVars(ScheduleCleanup \/ ArmTimer)
    /\ SF_serviceVars(TimerFires)
    /\ SF_serviceVars(Sweep)

-----------------------------------------------------------------------------
(* Properties. *)

\* As long as the service runs, an expired contact does not stay in the store,
\* also when nobody looks its identity up: whatever failed before, the timer
\* is armed again (scheduleRegistrationCleanup on every path of its handler).
ExpiredContactsSwept ==
    \A i \in Impu : (\E c \in contacts[i] : Expired(c)) ~> (stopping \/ contacts[i] = Live(contacts[i]))
=============================================================================
