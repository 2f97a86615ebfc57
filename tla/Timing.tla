------------------------------- MODULE Timing -------------------------------
(***************************************************************************)
(* The clock of one agent (app.run, scheduler.Run): the scheduler starts   *)
(* the passes; a pass refreshes the plan of a Cloudflare zone, or sends    *)
(* requests to Azure, each with a token from the cache; all of them count  *)
(* the same time, of which they take some themselves.  An agent is looked  *)
(* at with one provider at a time.                                         *)
(***************************************************************************)
EXTENDS Scheduler, TokenCache, PlanCache

CONSTANTS
    MaxCalls,     \* bound on the requests of one pass
    MaxFaults,    \* bound on failed fetches and questions
    MaxChanges    \* bound on changes of the plan

ASSUME TimingAssumption == MaxCalls \in Nat /\ MaxFaults \in Nat /\ MaxChanges \in Nat

VARIABLES
    provider, \* "cloudflare" or "azure"
    step,     \* of the program or the pass: build, refresh or requests
    calls, faults, changes

own == <<provider, step, calls, faults, changes>>
vars == <<schedulerVars, tokenVars, planVars, own>>

TypeOK ==
    /\ SchedulerTypeOK /\ TokenTypeOK /\ PlanTypeOK
    /\ provider \in {"cloudflare", "azure"}
    /\ step \in {"build", "refresh", "requests"}
    /\ calls \in 0..MaxCalls /\ faults \in 0..MaxFaults /\ changes \in 0..MaxChanges

Init ==
    /\ SchedulerInit /\ TokenInit /\ PlanInit
    /\ provider \in {"cloudflare", "azure"}
    /\ step = IF provider = "cloudflare" THEN "build" ELSE "requests"
    /\ calls = 0 /\ faults = 0 /\ changes = 0

InPass(s) == phase = "pass" /\ step = s

\* A call that fails: its timeout, its service or the network; after the
\* signal every call is cancelled.
Fault == IF stop THEN UNCHANGED faults ELSE faults < MaxFaults /\ faults' = faults + 1

\* The question about the plan, when the adapter is built or what it knows is
\* too old.
AskPlan ==
    /\ InPass("build") \/ (InPass("refresh") /\ built /\ Stale)
    /\ Ask
    /\ UNCHANGED <<schedulerVars, tokenVars, own>>

ReadPlan == Read /\ UNCHANGED <<schedulerVars, tokenVars, own>>

\* After the adapters are built the first pass begins; after the refresh,
\* failed or not, the pass goes on.
AfterPlan == step' = IF step = "build" THEN "refresh" ELSE "requests"

ToldPlan == Told /\ AfterPlan /\ UNCHANGED <<schedulerVars, tokenVars, provider, calls, faults, changes>>

UntoldPlan == Untold /\ Fault /\ AfterPlan /\ UNCHANGED <<schedulerVars, tokenVars, provider, calls, changes>>

PlanIsFresh ==
    /\ InPass("refresh") /\ question = "none"
    /\ Fresh
    /\ step' = "requests"
    /\ UNCHANGED <<schedulerVars, tokenVars, provider, calls, faults, changes>>
    /\ UNCHANGED <<free, moved, plan, built, question, answer, waited>>

\* doJSON: a token, then the request.
Request ==
    /\ provider = "azure"
    /\ InPass("requests") /\ calls < MaxCalls
    /\ GetToken
    /\ calls' = calls + 1
    /\ UNCHANGED <<schedulerVars, planVars, provider, step, faults, changes>>

TokenMade == MakeToken /\ UNCHANGED <<schedulerVars, planVars, own>>
TokenReceived == ReceiveToken /\ UNCHANGED <<schedulerVars, planVars, own>>
TokenFails == FetchFails /\ Fault /\ UNCHANGED <<schedulerVars, planVars, provider, step, calls, changes>>
Answered == Answer /\ UNCHANGED <<schedulerVars, planVars, own>>

EndPass ==
    /\ InPass("requests") /\ request = "none"
    /\ SetTimer
    /\ UNCHANGED <<tokenVars, planVars, own>>

NextPass ==
    /\ Wake
    /\ step' = IF provider = "cloudflare" THEN "refresh" ELSE "requests"
    /\ calls' = 0
    /\ UNCHANGED <<tokenVars, planVars, provider, faults, changes>>

SignalReceived == Signal /\ UNCHANGED <<tokenVars, planVars, own>>
Returned == Return /\ UNCHANGED <<tokenVars, planVars, own>>

PlanChanged ==
    /\ provider = "cloudflare"
    /\ changes < MaxChanges /\ changes' = changes + 1
    /\ PlanChange
    /\ UNCHANGED <<schedulerVars, tokenVars, provider, step, calls, faults>>

Tick ==
    /\ phase # "stopped"
    /\ SchedulerElapse /\ TokenElapse /\ PlanElapse
    /\ UNCHANGED own

Pass ==
    \/ AskPlan \/ ReadPlan \/ ToldPlan \/ UntoldPlan \/ PlanIsFresh
    \/ Request \/ TokenMade \/ TokenReceived \/ TokenFails \/ Answered
    \/ EndPass

Next == Pass \/ NextPass \/ Returned \/ SignalReceived \/ PlanChanged \/ Tick

Spec == Init /\ [][Next]_vars

\* A call is answered or times out, and a pass makes finitely many; every pass
\* takes time; and a select that finds the signal again and again takes it once.
FairSpec ==
    /\ Spec
    /\ WF_vars(Pass) /\ WF_vars(NextPass)
    /\ SF_vars(Tick) /\ SF_vars(Returned)

-----------------------------------------------------------------------------

\* A pass whose refresh did not fail starts on a plan the zone had within the
\* last day (cloudflare.go:21, "how long the zone plan detection result is
\* cached"), up to the time the answer took.
PlanRecent ==
    [][InPass("refresh") /\ step' = "requests" /\ faults' = faults /\ ~stop => ~Outdated']_vars

\* However often the question fails, an adapter that was built comes to know
\* the plan in the end.
PlanFollows == <>[](phase = "stopped" \/ ~built \/ plan = free)

\* One pass follows the other until the signal comes, and then the scheduler
\* returns, in whatever it was (scheduler.go:68, "until ctx is cancelled").
PassesGoOn == <>stop \/ []<><<NextPass>>_vars
SignalEnds == stop ~> phase = "stopped"
=============================================================================
