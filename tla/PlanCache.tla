----------------------------- MODULE PlanCache -----------------------------
(***************************************************************************)
(* What the Cloudflare adapter knows of the plan of its zone               *)
(* (internal/provider/cloudflare): tags are sent unless the plan is free.  *)
(*                                                                         *)
(* The plan is asked for when the adapter is built, and again at the start *)
(* of a pass when the last answer is older than PlanTTL.  An adapter whose *)
(* first question fails is not there, until the program builds another one *)
(* at a reload, which is not part of this module.                          *)
(***************************************************************************)
EXTENDS Naturals

CONSTANTS
    PlanTTL,       \* 24 h
    PlanTimeout    \* of the question: 30 s

ASSUME PlanAssumption == PlanTTL \in Nat /\ PlanTimeout \in Nat \ {0}

VARIABLES
    free,      \* the plan the zone has
    moved,     \* ticks since it changed, as far as they matter
    plan,      \* the plan as the adapter has it (freePlan)
    age,       \* ticks since it was told (planCheckedAt), as far as they matter
    built,     \* there is an adapter
    question,  \* none, sent, or read by the service
    answer,    \* what the service read
    waited     \* ticks since the question was sent

planVars == <<free, moved, plan, age, built, question, answer, waited>>

\* How old what an adapter goes by may be.
Oldest == PlanTTL + PlanTimeout

PlanTypeOK ==
    /\ free \in BOOLEAN /\ plan \in BOOLEAN /\ answer \in BOOLEAN
    /\ moved \in 0..(Oldest + 1) /\ age \in 0..(PlanTTL + 1)
    /\ built \in BOOLEAN
    /\ question \in {"none", "sent", "read"} /\ waited \in 0..PlanTimeout

PlanInit ==
    /\ free \in BOOLEAN /\ moved = Oldest + 1
    /\ plan = FALSE /\ age = 0 /\ built = FALSE
    /\ question = "none" /\ answer = FALSE /\ waited = 0

\* The check of RefreshCapabilitiesIfStale.
Stale == age > PlanTTL

\* detectZonePlan sends its question,
Ask ==
    /\ question = "none" /\ question' = "sent" /\ waited' = 0
    /\ UNCHANGED <<free, moved, plan, age, built, answer>>

\* the service reads the plan,
Read ==
    /\ question = "sent" /\ question' = "read"
    /\ answer' = free
    /\ UNCHANGED <<free, moved, plan, age, built, waited>>

\* and the answer arrives, which counts as new from then on;
Told ==
    /\ question = "read" /\ question' = "none" /\ waited' = 0
    /\ plan' = answer /\ age' = 0 /\ built' = TRUE
    /\ answer' = FALSE
    /\ UNCHANGED <<free, moved>>

\* or it does not, and what is known stays, with its age.
Untold ==
    /\ question # "none" /\ question' = "none" /\ waited' = 0
    /\ answer' = FALSE
    /\ UNCHANGED <<free, moved, plan, age, built>>

\* Mutant: every pass that finds it fresh makes it fresh again.
FreshKept == (built => ~Stale) /\ age' = 0

\* A pass goes on with what is known, or without the adapter.
Fresh == (built => ~Stale) /\ UNCHANGED age

\* The owner of the zone changes its plan.
PlanChange ==
    /\ free' = ~free /\ moved' = 0
    /\ UNCHANGED <<plan, age, built, question, answer, waited>>

\* A tick goes by, but not over the timeout.
PlanElapse ==
    /\ question # "none" => waited < PlanTimeout
    /\ waited' = IF question = "none" THEN 0 ELSE waited + 1
    /\ moved' = IF moved > Oldest THEN moved ELSE moved + 1
    /\ age' = IF Stale \/ ~built THEN age ELSE age + 1
    /\ UNCHANGED <<free, plan, built, question, answer>>

\* The plan an adapter goes by is no longer that of the zone, and was not for
\* longer than the time it may take to notice.
Outdated == built /\ plan # free /\ moved > Oldest
=============================================================================
