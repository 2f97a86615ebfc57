---------------------------- MODULE TimingProofs ----------------------------
(***************************************************************************)
(* The clock of an agent, for any schedule, jitter, timeouts and tokens    *)
(* that meet the assumptions.  Each of the three parts has an invariant of *)
(* its own, which the steps of the others leave alone.                     *)
(***************************************************************************)
EXTENDS Timing, TLAPS

\* The timer does not go off before the schedule has fired.
TimerInv ==
    /\ SchedulerTypeOK
    /\ phase = "wait" => toFire = Never \/ fired > 0 \/ wait >= toFire

\* The jitter is no longer than any distance of the schedule.
ShortJitter ==
    /\ jitter.mode # "fixed"
    /\ \A g, h \in Gaps \ {Never} : g \div JitterShare <= h

\* The timer goes off before the schedule fires a second time: until it fires
\* the first time, the timer is ahead by less than a share of some distance.
SleepInv ==
    /\ SchedulerTypeOK
    /\ toFire # Never => \E g \in Gaps \ {Never} : toFire <= g
    /\ phase = "wait" /\ toFire = Never => fired = 0
    /\ phase = "wait" /\ toFire # Never /\ ShortJitter =>
           \/ fired = 1 /\ wait < toFire
           \/ /\ fired = 0
              /\ \/ wait <= toFire
                 \/ \E g \in Gaps \ {Never} : wait < toFire + (g \div JitterShare)

\* As long as the cache hands a token out, it lives long enough; a token on
\* its way has lost no more than the time of its fetch.
TokenInv ==
    /\ TokenTypeOK
    /\ request \in {"fetch", "made"} => spent <= TokenTimeout /\ known <= Margin
    /\ request = "made" => grant \in Grants /\ left + spent >= grant.lives
    /\ request # "made" /\ known > Margin => left + TokenTimeout >= known
    /\ request = "sent" => spent <= CallTimeout /\ left + spent > CallTimeout

\* A plan that is no longer the zone's was so when it was read.
PlanInv ==
    /\ PlanTypeOK
    /\ question = "read" /\ answer # free => moved <= waited
    /\ built /\ plan # free /\ ~Stale => moved <= age + PlanTimeout

\* The program's own part of the type invariant.
OwnTypeOK ==
    /\ provider \in {"cloudflare", "azure"}
    /\ step \in {"build", "refresh", "requests"}
    /\ calls \in 0..MaxCalls /\ faults \in 0..MaxFaults /\ changes \in 0..MaxChanges

TimingInv == TimerInv /\ SleepInv /\ TokenInv /\ PlanInv /\ OwnTypeOK

\* The steps of each part, as the whole takes them.
TimerStep == SetTimer \/ Wake \/ Signal \/ Return \/ SchedulerElapse \/ UNCHANGED schedulerVars
TokenStep ==
    \/ GetToken \/ MakeToken \/ ReceiveToken \/ FetchFails \/ Answer \/ TokenElapse
    \/ UNCHANGED tokenVars
PlanStep ==
    \/ Ask \/ Read \/ Told \/ Untold \/ PlanChange \/ PlanElapse
    \/ (Fresh /\ UNCHANGED <<free, moved, plan, built, question, answer, waited>>)
    \/ UNCHANGED planVars

-----------------------------------------------------------------------------

\* Every delay is at least the time until the schedule fires.
LEMMA DelayCoversFire ==
    ASSUME SchedulerTypeOK, toFire # Never, NEW d \in NextDelay
    PROVE  d \in Nat /\ d >= toFire
<1>1. jitter \in [mode : {"auto", "disabled", "fixed"}, length : Nat]
    BY SchedulerAssumption DEF SchedulerTypeOK
<1>2. toFire \in Nat
    BY SchedulerAssumption DEF SchedulerTypeOK
<1>3. toFire \div JitterShare \in Nat
    BY <1>2, SchedulerAssumption
<1>4. PICK j \in ComputeJitter(toFire) : d = toFire + j
    BY DEF NextDelay
<1>5. j \in Nat
    BY <1>1, <1>3, <1>4 DEF ComputeJitter
<1> QED
    BY <1>2, <1>4, <1>5

\* And it is a time in any case.
LEMMA DelayIsTime ==
    ASSUME SchedulerTypeOK
    PROVE  NextDelay \subseteq Nat
<1>1. CASE toFire = Never
    BY <1>1 DEF NextDelay
<1>2. CASE toFire # Never
    BY <1>2, DelayCoversFire
<1> QED
    BY <1>1, <1>2

LEMMA TimerStepKeeps == TimerInv /\ TimerStep => TimerInv'
<1> SUFFICES ASSUME TimerInv, TimerStep PROVE TimerInv'
    OBVIOUS
<1> USE DEF TimerInv, SchedulerTypeOK
<1>1. CASE SetTimer
    <2>1. wait' \in Nat
        BY <1>1, DelayIsTime DEF SetTimer
    <2>2. toFire # Never => wait' >= toFire
        BY <1>1, DelayCoversFire DEF SetTimer
    <2> QED
        BY <1>1, <2>1, <2>2 DEF SetTimer
<1>2. CASE Wake
    BY <1>2 DEF Wake
<1>3. CASE Signal
    BY <1>3 DEF Signal
<1>4. CASE Return
    BY <1>4 DEF Return
<1>5. CASE SchedulerElapse
    <2>1. wait' \in Nat /\ fired' \in Nat
        BY <1>5 DEF SchedulerElapse
    <2>2. toFire' \in (Nat \ {0}) \cup {Never}
        <3>1. CASE toFire = Never
            BY <1>5, <3>1 DEF SchedulerElapse
        <3>2. CASE toFire # Never /\ toFire > 1
            BY <1>5, <3>2 DEF SchedulerElapse
        <3>3. CASE toFire # Never /\ ~(toFire > 1)
            <4>1. toFire' \in Gaps
                BY <1>5, <3>3 DEF SchedulerElapse
            <4> QED
                BY <4>1, SchedulerAssumption
        <3> QED
            BY <3>1, <3>2, <3>3
    <2>3. CASE toFire = Never
        BY <1>5, <2>1, <2>2, <2>3 DEF SchedulerElapse
    <2>4. CASE toFire # Never /\ toFire > 1
        BY <1>5, <2>1, <2>2, <2>4 DEF SchedulerElapse
    <2>5. CASE toFire # Never /\ ~(toFire > 1)
        BY <1>5, <2>1, <2>2, <2>5 DEF SchedulerElapse
    <2> QED
        BY <2>3, <2>4, <2>5
<1>6. CASE UNCHANGED schedulerVars
    BY <1>6 DEF schedulerVars
<1> QED
    BY <1>1, <1>2, <1>3, <1>4, <1>5, <1>6 DEF TimerStep

\* A share of a longer time is no shorter.
LEMMA ShareMonotone ==
    ASSUME NEW a \in Nat, NEW b \in Nat, NEW d \in Nat \ {0}, a <= b
    PROVE  a \div d <= b \div d
<1> DEFINE q == a \div d
           r == b \div d
<1>1. q \in Nat /\ r \in Nat
    OBVIOUS
<1>2. d * q <= a /\ b < d * r + d
    OBVIOUS
<1> HIDE DEF q, r
<1>3. ASSUME q >= r + 1 PROVE FALSE
    <2>1. PICK k \in Nat : q = (r + 1) + k
        <3>1. q - (r + 1) \in Nat /\ q = (r + 1) + (q - (r + 1))
            BY <1>1, <1>3
        <3> QED
            BY <3>1
    <2>2. d * q = (d * r + d) + d * k /\ d * k \in Nat
        BY <1>1, <2>1
    <2> QED
        BY <1>1, <1>2, <2>2
<1>4. q <= r
    BY <1>1, <1>3
<1> QED
    BY <1>4 DEF q, r

\* A delay is the time until the schedule fires, and less than a share of a
\* distance on top.
LEMMA DelayInShare ==
    ASSUME SleepInv, toFire # Never, jitter.mode # "fixed", NEW d \in NextDelay
    PROVE  d <= toFire \/ \E g \in Gaps \ {Never} : d < toFire + (g \div JitterShare)
<1>1. jitter \in [mode : {"auto", "disabled", "fixed"}, length : Nat] /\ toFire \in Nat
    BY SchedulerAssumption DEF SleepInv, SchedulerTypeOK
<1>2. PICK g \in Gaps \ {Never} : toFire <= g
    BY DEF SleepInv
<1>3. g \in Nat /\ JitterShare \in Nat \ {0}
    BY SchedulerAssumption
<1>4. toFire \div JitterShare <= g \div JitterShare
    BY <1>1, <1>2, <1>3, ShareMonotone
<1>5. toFire \div JitterShare \in Nat /\ g \div JitterShare \in Nat
    BY <1>1, <1>3
<1>6. PICK j \in ComputeJitter(toFire) : d = toFire + j
    BY DEF NextDelay
<1>7. CASE jitter.mode = "auto"
    <2>1. j = 0 \/ (j \in Nat /\ j < toFire \div JitterShare)
        BY <1>5, <1>6, <1>7 DEF ComputeJitter
    <2> QED
        BY <1>1, <1>4, <1>5, <1>6, <2>1
<1>8. CASE jitter.mode = "disabled"
    <2>1. j = 0
        BY <1>6, <1>8 DEF ComputeJitter
    <2> QED
        BY <1>1, <1>6, <2>1
<1> QED
    BY <1>1, <1>7, <1>8

LEMMA SleepStepKeeps == TimerInv /\ SleepInv /\ TimerStep => SleepInv'
<1> SUFFICES ASSUME TimerInv, SleepInv, TimerStep PROVE SleepInv'
    OBVIOUS
<1>1. SchedulerTypeOK'
    BY TimerStepKeeps DEF TimerInv
<1>2. CASE SetTimer
    <2>1. toFire # Never /\ jitter.mode # "fixed" =>
              wait' <= toFire \/ \E g \in Gaps \ {Never} : wait' < toFire + (g \div JitterShare)
        BY <1>2, DelayInShare DEF SetTimer
    <2> QED
        BY <1>1, <1>2, <2>1 DEF SetTimer, SleepInv, ShortJitter
<1>3. CASE Wake \/ Return
    BY <1>1, <1>3 DEF Wake, Return, SleepInv, ShortJitter
<1>4. CASE Signal
    BY <1>1, <1>4 DEF Signal, SleepInv, ShortJitter
<1>5. CASE UNCHANGED schedulerVars
    BY <1>1, <1>5 DEF schedulerVars, SleepInv, ShortJitter
<1>6. CASE SchedulerElapse
    <2>1. /\ UNCHANGED <<jitter, phase>>
          /\ phase = "wait" => wait > 0 /\ wait' = wait - 1
          /\ wait \in Nat /\ fired \in Nat /\ toFire \in (Nat \ {0}) \cup {Never}
        BY <1>6 DEF SchedulerElapse, SleepInv, SchedulerTypeOK
    <2>2. CASE toFire = Never
        BY <1>1, <1>6, <2>1, <2>2 DEF SchedulerElapse, SleepInv
    <2>3. CASE toFire # Never /\ toFire > 1
        <3>1. toFire' = toFire - 1 /\ fired' = fired /\ toFire \in Nat
            BY <1>6, <2>1, <2>3 DEF SchedulerElapse
        <3>2. toFire' # Never /\ \E g \in Gaps \ {Never} : toFire' <= g
            BY <2>3, <3>1, SchedulerAssumption DEF SleepInv
        <3>3. \A g \in Gaps \ {Never} : g \div JitterShare \in Nat
            BY SchedulerAssumption
        <3>4. ASSUME phase = "wait", ShortJitter
              PROVE  \/ fired' = 1 /\ wait' < toFire'
                     \/ /\ fired' = 0
                        /\ \/ wait' <= toFire'
                           \/ \E g \in Gaps \ {Never} : wait' < toFire' + (g \div JitterShare)
            BY <2>1, <2>3, <3>1, <3>3, <3>4 DEF SleepInv
        <3> QED
            BY <1>1, <2>1, <3>2, <3>4 DEF SleepInv, ShortJitter
    <2>4. CASE toFire # Never /\ ~(toFire > 1)
        <3>1. toFire = 1 /\ toFire' \in Gaps \ {Never} /\ toFire' \in Nat \ {0}
            <4>1. toFire = 1
                BY <2>1, <2>4
            <4>2. toFire' \in Gaps \ {Never}
                BY <1>6, <2>4 DEF SchedulerElapse
            <4> QED
                BY <4>1, <4>2, SchedulerAssumption
        <3>2. ASSUME phase = "wait", ShortJitter
              PROVE  fired' = 1 /\ wait' < toFire'
            <4>1. fired = 0
                BY <2>1, <2>4, <3>1, <3>2 DEF SleepInv
            <4>2. fired' = 1
                BY <1>6, <2>4, <3>2, <4>1 DEF SchedulerElapse
            <4>3. CASE wait <= 1
                BY <2>1, <3>1, <3>2, <4>2, <4>3
            <4>4. CASE wait > 1
                <5>1. PICK g \in Gaps \ {Never} : wait < 1 + (g \div JitterShare)
                    BY <2>1, <2>4, <3>1, <3>2, <4>1, <4>4 DEF SleepInv
                <5>2. g \div JitterShare <= toFire' /\ g \div JitterShare \in Nat
                    BY <3>1, <3>2, SchedulerAssumption DEF ShortJitter
                <5> QED
                    BY <2>1, <3>1, <3>2, <4>2, <5>1, <5>2
            <4> QED
                BY <2>1, <4>2, <4>3, <4>4
        <3> QED
            BY <1>1, <2>1, <3>1, <3>2 DEF SleepInv, ShortJitter
    <2> QED
        BY <2>2, <2>3, <2>4
<1> QED
    BY <1>2, <1>3, <1>4, <1>5, <1>6 DEF TimerStep

\* The members of Grants, as the assumption has them.
LEMMA GrantLives ==
    ASSUME NEW g \in Grants
    PROVE  /\ g.says \in Nat /\ g.lives \in Nat
           /\ g.says = 0 => g.lives >= DefaultExpiry
           /\ g.says # 0 => g.lives >= g.says
           /\ g.lives > TokenTimeout + CallTimeout
    BY TokenAssumption

LEMMA TokenStepKeeps == TokenInv /\ TokenStep => TokenInv'
<1> SUFFICES ASSUME TokenInv, TokenStep PROVE TokenInv'
    OBVIOUS
<1> USE TokenAssumption DEF TokenInv, TokenTypeOK
<1>1. CASE GetToken
    BY <1>1 DEF GetToken
<1>2. CASE MakeToken
    <2>1. PICK g \in Grants : grant' = g /\ left' = g.lives
        BY <1>2 DEF MakeToken
    <2> QED
        BY <1>2, <2>1, GrantLives DEF MakeToken
<1>3. CASE ReceiveToken
    <2>1. /\ grant.says \in Nat /\ grant.lives \in Nat
          /\ grant.says = 0 => grant.lives >= DefaultExpiry
          /\ grant.says # 0 => grant.lives >= grant.says
          /\ grant.lives > TokenTimeout + CallTimeout
        BY <1>3, GrantLives DEF ReceiveToken
    <2>2. left + spent >= grant.lives /\ spent <= TokenTimeout
        BY <1>3 DEF ReceiveToken
    <2>3. known' \in Nat /\ known' <= grant.lives
        BY <1>3, <2>1 DEF ReceiveToken
    <2> QED
        BY <1>3, <2>1, <2>2, <2>3 DEF ReceiveToken
<1>4. CASE FetchFails
    BY <1>4 DEF FetchFails
<1>5. CASE Answer
    BY <1>5 DEF Answer
<1>6. CASE TokenElapse
    <2> USE <1>6 DEF TokenElapse, Less, Timeout
    <2>1. known' \in Nat /\ left' \in Nat /\ spent' \in Nat
        OBVIOUS
    <2>2. CASE request = "none"
        BY <2>1, <2>2
    <2>3. CASE request = "fetch"
        BY <2>1, <2>3
    <2>4. CASE request = "made"
        <3>1. grant.lives \in Nat /\ grant.lives > TokenTimeout + CallTimeout
            BY <2>4, GrantLives
        <3>2. left > 0 /\ left' = left - 1 /\ spent' = spent + 1
            BY <2>4, <3>1
        <3> QED
            BY <2>1, <2>4, <3>1, <3>2
    <2>5. CASE request = "sent"
        BY <2>1, <2>5
    <2> QED
        BY <2>2, <2>3, <2>4, <2>5
<1>7. CASE UNCHANGED tokenVars
    BY <1>7 DEF tokenVars
<1> QED
    BY <1>1, <1>2, <1>3, <1>4, <1>5, <1>6, <1>7 DEF TokenStep

LEMMA PlanStepKeeps == PlanInv /\ PlanStep => PlanInv'
<1> SUFFICES ASSUME PlanInv, PlanStep PROVE PlanInv'
    OBVIOUS
<1> USE PlanAssumption DEF PlanInv, PlanTypeOK, Stale, Oldest
<1>1. CASE Ask
    BY <1>1 DEF Ask
<1>2. CASE Read
    BY <1>2 DEF Read
<1>3. CASE Told
    <2>1. plan' \in BOOLEAN /\ answer' \in BOOLEAN /\ built' \in BOOLEAN
        BY <1>3, Zenon DEF Told
    <2> QED
        BY <1>3, <2>1 DEF Told
<1>4. CASE Untold
    <2>1. answer' \in BOOLEAN
        BY <1>4, Zenon DEF Untold
    <2> QED
        BY <1>4, <2>1 DEF Untold
<1>5. CASE PlanChange
    BY <1>5 DEF PlanChange
<1>6. CASE PlanElapse
    BY <1>6 DEF PlanElapse
<1>7. CASE Fresh /\ UNCHANGED <<free, moved, plan, built, question, answer, waited>>
    BY <1>7 DEF Fresh
<1>8. CASE UNCHANGED planVars
    BY <1>8 DEF planVars
<1> QED
    BY <1>1, <1>2, <1>3, <1>4, <1>5, <1>6, <1>7, <1>8 DEF PlanStep

-----------------------------------------------------------------------------

\* Every step of the whole is one of each part.
LEMMA StepOfParts == [Next]_vars => TimerStep /\ TokenStep /\ PlanStep
<1> USE DEF TimerStep, TokenStep, PlanStep
<1>1. CASE Pass
    BY <1>1 DEF Pass, AskPlan, ReadPlan, ToldPlan, UntoldPlan, PlanIsFresh, Request,
        TokenMade, TokenReceived, TokenFails, Answered, EndPass
<1>2. CASE NextPass
    BY <1>2 DEF NextPass
<1>3. CASE Returned \/ SignalReceived
    BY <1>3 DEF Returned, SignalReceived
<1>4. CASE PlanChanged
    BY <1>4 DEF PlanChanged
<1>5. CASE Tick
    BY <1>5 DEF Tick
<1>6. CASE UNCHANGED vars
    BY <1>6 DEF vars
<1> QED
    BY <1>1, <1>2, <1>3, <1>4, <1>5, <1>6 DEF Next

LEMMA OwnStepKeeps == OwnTypeOK /\ [Next]_vars => OwnTypeOK'
<1> SUFFICES ASSUME OwnTypeOK, [Next]_vars PROVE OwnTypeOK'
    OBVIOUS
<1> USE TimingAssumption DEF OwnTypeOK, own
<1>1. CASE Pass
    BY <1>1 DEF Pass, AskPlan, ReadPlan, ToldPlan, UntoldPlan, PlanIsFresh, AfterPlan, Fault,
        Request, TokenMade, TokenReceived, TokenFails, Answered, EndPass
<1>2. CASE NextPass
    BY <1>2 DEF NextPass
<1>3. CASE Returned \/ SignalReceived
    BY <1>3 DEF Returned, SignalReceived
<1>4. CASE PlanChanged
    BY <1>4 DEF PlanChanged
<1>5. CASE Tick
    BY <1>5 DEF Tick
<1>6. CASE UNCHANGED vars
    BY <1>6 DEF vars
<1> QED
    BY <1>1, <1>2, <1>3, <1>4, <1>5, <1>6 DEF Next

LEMMA InitHolds == Init => TimingInv
<1> SUFFICES ASSUME Init PROVE TimingInv
    OBVIOUS
<1>1. TimerInv
    BY SchedulerAssumption DEF Init, SchedulerInit, TimerInv, SchedulerTypeOK
<1>2. TokenInv
    BY TokenAssumption DEF Init, TokenInit, TokenInv, TokenTypeOK
<1>3. PlanInv
    <2>1. plan \in BOOLEAN /\ answer \in BOOLEAN /\ built \in BOOLEAN
        BY Zenon DEF Init, PlanInit
    <2> QED
        BY <2>1, PlanAssumption DEF Init, PlanInit, PlanInv, PlanTypeOK, Oldest, Stale
<1>4. OwnTypeOK
    BY TimingAssumption DEF Init, OwnTypeOK
<1>5. SleepInv
    <2>1. toFire # Never => toFire \in Gaps \ {Never} /\ toFire \in Nat
        BY SchedulerAssumption DEF Init, SchedulerInit
    <2>2. toFire # Never => toFire <= toFire
        BY <2>1
    <2> QED
        BY <1>1, <2>1, <2>2 DEF Init, SchedulerInit, SleepInv, TimerInv
<1> QED
    BY <1>1, <1>2, <1>3, <1>4, <1>5 DEF TimingInv

\* The inductive invariant of the clock.
THEOREM TimingInvHolds == Spec => []TimingInv
<1>1. TimingInv /\ [Next]_vars => TimingInv'
    BY StepOfParts, TimerStepKeeps, SleepStepKeeps, TokenStepKeeps, PlanStepKeeps, OwnStepKeeps DEF TimingInv
<1> QED
    BY InitHolds, <1>1, PTL DEF Spec

\* No request carries an expired token, for any timeouts the margin covers and
\* any tokens of the service.
THEOREM TokensValid == Spec => []TokenValid
<1>1. TimingInv => TokenValid
    BY TokenAssumption DEF TimingInv, TokenInv, TokenTypeOK, TokenValid
<1> QED
    BY TimingInvHolds, <1>1, PTL

\* No scheduled pass starts before the schedule has fired, for any schedule
\* and jitter.
THEOREM NeverEarly == Spec => []OnePerFire
<1>1. TimingInv => OnePerFire
    <2> SUFFICES ASSUME TimingInv, phase = "wait", wait = 0, toFire # Never PROVE fired > 0
        BY DEF OnePerFire
    <2>1. toFire \in Nat \ {0}
        BY DEF TimingInv, TimerInv, SchedulerTypeOK
    <2> QED
        BY <2>1 DEF TimingInv, TimerInv
<1> QED
    BY TimingInvHolds, <1>1, PTL

\* The clock's state is of its type.
THEOREM TypeHolds == Spec => []TypeOK
<1>1. TimingInv => TypeOK
    BY DEF TimingInv, TimerInv, TokenInv, PlanInv, OwnTypeOK, TypeOK
<1> QED
    BY TimingInvHolds, <1>1, PTL

\* Where a share of any distance is no longer than any other, no jitter makes
\* the scheduler sleep over a time it should run.
THEOREM NeverSkips == Spec => []NoneSkipped
<1>1. TimingInv => NoneSkipped
    <2> SUFFICES ASSUME TimingInv, phase = "wait", ShortJitter PROVE fired <= 1
        BY DEF NoneSkipped, ShortJitter
    <2> QED
        BY DEF TimingInv, SleepInv, SchedulerTypeOK
<1> QED
    BY TimingInvHolds, <1>1, PTL

\* A pass whose refresh did not fail starts on a plan of the last day, for any
\* length of the day and of the timeout.
THEOREM PlanStaysRecent == Spec => PlanRecent
<1>1. TimingInv /\ TimingInv' /\ [Next]_vars
      => [InPass("refresh") /\ step' = "requests" /\ faults' = faults /\ ~stop => ~Outdated']_vars
    <2> SUFFICES ASSUME TimingInv, TimingInv', Next, InPass("refresh"), step' = "requests",
                        faults' = faults, ~stop
                 PROVE  ~Outdated'
        BY DEF vars, own, InPass
    <2> USE PlanAssumption DEF InPass, TimingInv, PlanInv, PlanTypeOK, Stale, Oldest, Outdated
    <2>1. CASE ToldPlan
        BY <2>1 DEF ToldPlan, Told
    <2>2. CASE PlanIsFresh
        BY <2>2 DEF PlanIsFresh, Fresh
    <2>3. ~UntoldPlan
        BY DEF UntoldPlan, Fault, OwnTypeOK
    <2>4. ~(AskPlan \/ ReadPlan \/ Request \/ TokenMade \/ TokenReceived \/ TokenFails
             \/ Answered \/ EndPass)
        BY DEF AskPlan, ReadPlan, Request, TokenMade, TokenReceived, TokenFails, Answered,
            EndPass, own
    <2>5. ~(NextPass \/ Returned \/ SignalReceived \/ PlanChanged \/ Tick)
        BY DEF NextPass, Wake, Returned, SignalReceived, PlanChanged, Tick, own
    <2> QED
        BY <2>1, <2>2, <2>3, <2>4, <2>5 DEF Next, Pass
<1> QED
    BY TimingInvHolds, <1>1, PTL DEF Spec, PlanRecent
=============================================================================
