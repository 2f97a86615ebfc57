----------------------------- MODULE Scheduler -----------------------------
(***************************************************************************)
(* When the passes of an agent run (internal/scheduler).                   *)
(*                                                                         *)
(* The first pass runs at once; after each the scheduler asks the cron     *)
(* schedule for the next time it fires, adds jitter, and sleeps.  A pass   *)
(* takes as long as its calls.                                             *)
(*                                                                         *)
(* Abstractions: time goes in ticks; a schedule is the distances there may *)
(* be between two times it fires.  For one that never fires (30 February)  *)
(* that is Never, and the next time it fires is the zero time, long past.  *)
(* The sleeper wakes up on time.                                           *)
(***************************************************************************)
EXTENDS Naturals

CONSTANTS
    Gaps,          \* the distances, in ticks
    Never,         \* stands for no time at all
    JitterShare,   \* 10, as "auto" is a tenth of the delay
    Jitters        \* the settings: [mode, length]

ASSUME SchedulerAssumption ==
    /\ Gaps \subseteq (Nat \ {0}) \cup {Never} /\ Gaps # {} /\ Never \notin Nat \ {0}
    /\ JitterShare \in Nat \ {0}
    /\ Jitters \subseteq [mode : {"auto", "disabled", "fixed"}, length : Nat]

VARIABLES
    jitter,   \* the setting, read once
    phase,    \* "pass", "wait" or "stopped"
    toFire,   \* ticks until the schedule fires
    wait,     \* ticks until the timer goes off
    fired,    \* times it has fired since the timer was set
    stop      \* the signal has been received

schedulerVars == <<jitter, phase, toFire, wait, fired, stop>>

SchedulerTypeOK ==
    /\ jitter \in Jitters
    /\ phase \in {"pass", "wait", "stopped"}
    /\ toFire \in (Nat \ {0}) \cup {Never}
    /\ wait \in Nat /\ fired \in Nat
    /\ stop \in BOOLEAN

SchedulerInit ==
    /\ jitter \in Jitters
    /\ phase = "pass"
    /\ toFire \in Gaps
    /\ wait = 0 /\ fired = 0
    /\ stop = FALSE

\* Mutant: a jitter of the whole delay.
ComputeJitterWhole(base) ==
    IF jitter.mode = "disabled" \/ base = 0 THEN {0} ELSE 0..(base - 1)

\* computeJitter: what the random number may be.
ComputeJitter(base) ==
    LET bound == CASE jitter.mode = "auto" -> base \div JitterShare
                   [] jitter.mode = "fixed" -> jitter.length
                   [] OTHER -> 0
    IN  IF bound = 0 THEN {0} ELSE 0..(bound - 1)

\* Mutant: the jitter is taken off.
NextDelayEarlier == {toFire - j : j \in {j \in ComputeJitter(toFire) : j <= toFire}}

\* nextDelay: a time long past gives a negative delay, as no delay is.
NextDelay ==
    IF toFire = Never THEN {0} ELSE {toFire + j : j \in ComputeJitter(toFire)}

\* A pass has ended, well or not: the timer is set.
SetTimer ==
    /\ phase = "pass"
    /\ phase' = "wait"
    /\ wait' \in NextDelay
    /\ fired' = 0
    /\ UNCHANGED <<jitter, toFire, stop>>

\* Mutant: a timer set to a time long past never goes off.
WakeAfterFire ==
    /\ phase = "wait" /\ wait = 0 /\ toFire # Never
    /\ phase' = "pass"
    /\ UNCHANGED <<jitter, toFire, wait, fired, stop>>

\* The timer has gone off.  When the signal is there as well, select takes
\* either.
Wake ==
    /\ phase = "wait" /\ wait = 0
    /\ phase' = "pass"
    /\ UNCHANGED <<jitter, toFire, wait, fired, stop>>

Signal ==
    /\ phase # "stopped" /\ ~stop /\ stop' = TRUE
    /\ UNCHANGED <<jitter, phase, toFire, wait, fired>>

\* Mutant: the signal is looked at only while the timer runs.
ReturnEarly ==
    /\ phase = "wait" /\ stop /\ wait > 0
    /\ phase' = "stopped"
    /\ UNCHANGED <<jitter, toFire, wait, fired, stop>>

\* Run returns.
Return ==
    /\ phase = "wait" /\ stop
    /\ phase' = "stopped"
    /\ UNCHANGED <<jitter, toFire, wait, fired, stop>>

\* A tick goes by, but not over a timer that has gone off or a signal.
SchedulerElapse ==
    /\ phase = "wait" => wait > 0 /\ ~stop
    /\ wait' = IF phase = "wait" THEN wait - 1 ELSE wait
    /\ IF toFire = Never THEN UNCHANGED <<toFire, fired>>
       ELSE IF toFire > 1 THEN toFire' = toFire - 1 /\ UNCHANGED fired
       ELSE /\ toFire' \in Gaps \ {Never}
            /\ fired' = IF phase = "wait" THEN fired + 1 ELSE fired
    /\ UNCHANGED <<jitter, phase, stop>>

\* A scheduled pass does not start before the schedule has fired, whatever
\* the jitter (scheduler.go:25, "added after each cron fire time"), unless
\* it never fires.
OnePerFire == phase = "wait" /\ wait = 0 /\ toFire # Never => fired > 0

\* Where the jitter is not a fixed one, and a delay's share is no longer than
\* any distance, it never makes the scheduler sleep over a time it should run.
NoneSkipped ==
    /\ phase = "wait" /\ jitter.mode # "fixed"
    /\ \A g, h \in Gaps \ {Never} : g \div JitterShare <= h
    => fired <= 1
=============================================================================
