-------------------------- MODULE RefinementProofs --------------------------
(***************************************************************************)
(* Reconcile implements DesiredState, for any nodes, templates, names,     *)
(* contents and comments that satisfy Separation: each step of an agent,   *)
(* of the environment or of an operator is a step of the promise, or none. *)
(***************************************************************************)
EXTENDS ReconcileProofs

-----------------------------------------------------------------------------
(* What a step means for the variables of DesiredState.                    *)

\* A step of the promise, or none.
Promised == Promise!Next \/ UNCHANGED Promise!vars

\* What the pass of node n has still to do.
DueAt(n) == {<<t, snap[n].addr[t]>> : t \in Outstanding(n)}

\* The place of node m and what it holds in memory of its pass.
PlaceKept(m) ==
    /\ pc'[m] = pc[m] /\ cur'[m] = cur[m]
    /\ todo'[m] = todo[m] /\ snap'[m] = snap[m]

\* A step of one node changes what is due for that node alone.
LEMMA DueStep ==
    ASSUME NEW n \in Nodes, \A m \in Nodes \ {n} : PlaceKept(m)
    PROVE  Due' = [Due EXCEPT ![n] = DueAt(n)']
<1>1. ASSUME NEW m \in Nodes \ {n} PROVE DueAt(m)' = DueAt(m)
  BY DEF PlaceKept, DueAt, Outstanding
<1>2. Due = [m \in Nodes |-> DueAt(m)] /\ Due' = [m \in Nodes |-> DueAt(m)']
  BY DEF Due, DueAt
<1> QED
  BY <1>1, <1>2

\* When it leaves that as it is, nothing changes.
LEMMA DueKept ==
    ASSUME NEW n \in Nodes, \A m \in Nodes \ {n} : PlaceKept(m), DueAt(n)' = DueAt(n)
    PROVE  Due' = Due
<1>1. Due = [m \in Nodes |-> DueAt(m)]
  BY DEF Due, DueAt
<1>2. Due' = [Due EXCEPT ![n] = DueAt(n)]
  BY DueStep
<1> QED
  BY <1>1, <1>2

\* A template taken off the list of a pass takes one pair with it.
LEMMA DueTaken ==
    ASSUME NEW n \in Nodes, NEW t \in Outstanding(n),
           \A m \in Nodes \ {n} : PlaceKept(m),
           snap'[n] = snap[n], Outstanding(n)' = Outstanding(n) \ {t}
    PROVE  /\ <<t, snap[n].addr[t]>> \in Due[n]
           /\ Due' = [Due EXCEPT ![n] = Due[n] \ {<<t, snap[n].addr[t]>>}]
<1>1. Due[n] = DueAt(n) /\ <<t, snap[n].addr[t]>> \in DueAt(n)
  BY DEF Due, DueAt
<1>2. DueAt(n)' = DueAt(n) \ {<<t, snap[n].addr[t]>>}
  BY DEF DueAt
<1> QED
  BY <1>1, <1>2, DueStep

\* Where the zone stays, so do the records.
LEMMA RecordsKept ==
    ASSUME UNCHANGED zone
    PROVE  UNCHANGED <<Held, Unowned>>
BY DEF Held, Unowned, Own

\* Who is leaving depends on the places alone.
LEMMA LeavingKept ==
    ASSUME \A m \in Nodes : pc'[m] = "cleanup" <=> pc[m] = "cleanup"
    PROVE  UNCHANGED Leaving
BY DEF Leaving

\* What is wanted depends on the configuration alone.
LEMMA WantedKept ==
    ASSUME UNCHANGED cfg
    PROVE  UNCHANGED Wanted
BY DEF Wanted, WantedTemplates

\* The record of one template changes, and those of the others stay.
LEMMA HeldStep ==
    ASSUME NEW n \in Nodes, NEW t \in Templates, NEW S,
           \A m \in Nodes, u \in Templates : <<m, u>> # <<n, t>> =>
               Held'[m][u] = Held[m][u],
           Held'[n][t] = S
    PROVE  Held' = [Held EXCEPT ![n][t] = S]
<1>1. /\ Held = [m \in Nodes |-> [u \in Templates |-> Held[m][u]]]
      /\ Held' = [m \in Nodes |-> [u \in Templates |-> Held'[m][u]]]
  BY DEF Held
<1>2. ASSUME NEW m \in Nodes
      PROVE  Held'[m] = [Held EXCEPT ![n][t] = S][m]
  BY <1>1
<1> QED
  BY <1>1, <1>2

\* The contents of some records.
ContentsIn(records) == {r.content : r \in records}

\* What t is held to be: the contents of its records.
LEMMA HeldAt ==
    ASSUME NEW n \in Nodes, NEW t \in Templates
    PROVE  /\ Held[n][t] = ContentsIn({r \in zone : r.by = <<n, t>>})
           /\ Held'[n][t] = ContentsIn({r \in zone' : r.by = <<n, t>>})
BY DEF Held, Own, ContentsIn

\* One record is held at its content, and none at nothing.
LEMMA ContentsOfOne ==
    ASSUME NEW rec
    PROVE  ContentsIn({rec}) = {rec.content} /\ ContentsIn({}) = {}
BY DEF ContentsIn

-----------------------------------------------------------------------------
(* Steps that leave the zone alone.                                        *)

\* A pass looks once at what is wanted.
LEMMA BeginPassPromised ==
    ASSUME TypeOK, NEW n \in Nodes, BeginPass(n)
    PROVE  Promised
<1>1. /\ \A m \in Nodes \ {n} : PlaceKept(m)
      /\ pc[n] \in {"boot", "idle"} /\ pc'[n] = "choose"
      /\ snap'[n] = [addr |-> addr[n], cfg |-> cfg[n]]
      /\ todo'[n] = {t \in Templates : cfg[n].tmpl[t] = "on"}
  BY DEF BeginPass, TypeOK, PlaceKept
<1>2. Due[n] = {}
  BY <1>1 DEF Due, Outstanding, Calling
<1>3. Outstanding(n)' = Wanted[n]
  BY <1>1 DEF Outstanding, Wanted, WantedTemplates
<1>4. DueAt(n)' = {<<t, addr[n][t]>> : t \in Wanted[n]}
  BY <1>1, <1>3 DEF DueAt
<1>5. Due' = [Due EXCEPT ![n] = {<<t, addr[n][t]>> : t \in Wanted[n]}]
  BY <1>1, <1>4, DueStep
<1>6. UNCHANGED <<addr, Wanted, Held, Unowned, Leaving, changes>> /\ n \notin Leaving
  <2>1. UNCHANGED <<addr, cfg, zone, changes>>
    BY DEF BeginPass, NoFault
  <2>2. \A m \in Nodes : pc'[m] = "cleanup" <=> pc[m] = "cleanup"
    BY <1>1 DEF PlaceKept
  <2> QED
    BY <1>1, <2>1, <2>2, RecordsKept, LeavingKept, WantedKept DEF Leaving
<1>7. Promise!Look(n)
  BY <1>2, <1>5, <1>6 DEF Promise!Look
<1> QED
  BY <1>7 DEF Promised, Promise!Next, Promise!NodeStep

\* A template that was taken off the list without a write is passed over.
LEMMA Passing ==
    ASSUME TypeOK, Addresses, NEW n \in Nodes, NEW t \in Templates, t \in Outstanding(n),
           \A m \in Nodes \ {n} : PlaceKept(m),
           snap'[n] = snap[n], Outstanding(n)' = Outstanding(n) \ {t},
           pc[n] # "cleanup", pc'[n] # "cleanup",
           UNCHANGED <<zone, addr, cfg, changes>>
    PROVE  Promised
<1> DEFINE c == snap[n].addr[t]
<1>1. c \in Published[n][t]
  BY DEF Addresses
<1>2. <<t, c>> \in Due[n] /\ Due' = [Due EXCEPT ![n] = Due[n] \ {<<t, c>>}]
  BY DueTaken
<1>3. UNCHANGED <<addr, Wanted, Held, Unowned, Leaving, changes>>
  BY RecordsKept, LeavingKept, WantedKept DEF PlaceKept
<1>4. Promise!Pass(n, t, c)
  BY <1>2, <1>3 DEF Promise!Pass
<1> QED
  BY <1>1, <1>4 DEF Promised, Promise!Next, Promise!NodeStep

\* A step of an agent that changes neither the zone nor what is due.
LEMMA Stuttering ==
    ASSUME NEW n \in Nodes,
           \A m \in Nodes \ {n} : PlaceKept(m), DueAt(n)' = DueAt(n),
           pc[n] = "cleanup" <=> pc'[n] = "cleanup",
           UNCHANGED <<zone, addr, cfg, changes>>
    PROVE  Promised
<1>1. UNCHANGED <<addr, Wanted, Held, Unowned, Leaving, changes>>
  BY RecordsKept, LeavingKept, WantedKept DEF PlaceKept
<1>2. UNCHANGED Due
  BY DueKept
<1> QED
  BY <1>1, <1>2 DEF Promised, Promise!vars

\* A template is skipped, or the listing shows that it is as it should be, or
\* that there is a call to make.
LEMMA TakingPromised ==
    ASSUME Inductive, NEW n \in Nodes, NEW t \in Templates,
           Skip(n, t) \/ FindOwned(n, t) \/ FindNone(n, t)
    PROVE  Promised
<1>1. TypeOK /\ Addresses
  BY DEF Inductive
<1>2. /\ \A m \in Nodes \ {n} : PlaceKept(m)
      /\ UNCHANGED <<zone, addr, cfg, changes>> /\ snap'[n] = snap[n]
  BY <1>1 DEF NoFault, Fault, CallFault, Skip, FindOwned, FindNone, ReconcileExisting, NextTemplate,
     TypeOK, PlaceKept
<1>3. pc[n] = "choose" /\ t \in todo[n] /\ todo'[n] = todo[n] \ {t}
  BY <1>1 DEF Skip, FindOwned, FindNone, TypeOK
<1>4. \/ pc'[n] = "choose"
      \/ pc'[n] \in {"create", "update"} /\ cur'[n] = t
  BY <1>1, <1>3 DEF Skip, FindOwned, FindNone, ReconcileExisting, NextTemplate, TypeOK
<1>5. CASE snap[n].cfg.dry
  <2>1. DueAt(n)' = DueAt(n)
    BY <1>2, <1>5 DEF DueAt, Outstanding
  <2> QED
    BY <1>2, <1>3, <1>4, <2>1, Stuttering
<1>6. CASE ~snap[n].cfg.dry /\ pc'[n] = "choose"
  <2>1. t \in Outstanding(n) /\ Outstanding(n)' = Outstanding(n) \ {t}
    BY <1>2, <1>3, <1>6 DEF Outstanding
  <2> QED
    BY <1>1, <1>2, <1>3, <1>6, <2>1, Passing
<1>7. CASE ~snap[n].cfg.dry /\ pc'[n] \in {"create", "update"} /\ cur'[n] = t
  <2>1. Outstanding(n)' = Outstanding(n)
    BY <1>2, <1>3, <1>7 DEF Outstanding, Calling
  <2>2. DueAt(n)' = DueAt(n)
    BY <1>2, <2>1 DEF DueAt
  <2> QED
    BY <1>2, <1>3, <1>7, <2>2, Stuttering
<1> QED
  BY <1>4, <1>5, <1>6, <1>7

\* During a call there is a template in hand, which the list has no more.
LEMMA HandedTemplate ==
    ASSUME Inductive, InHand, NEW n \in Nodes, pc[n] \in Calling
    PROVE  /\ cur[n] \in Templates /\ cur[n] \notin todo[n] /\ ~snap[n].cfg.dry
           /\ cur[n] \in Outstanding(n) /\ Outstanding(n) \ {cur[n]} = todo[n]
<1>1. cur[n] \in Templates /\ cur[n] \notin todo[n] /\ ~snap[n].cfg.dry
  BY DEF Inductive, InHand, HoldsNone, CandidateMine, Calling
<1>2. Outstanding(n) = todo[n] \cup {cur[n]}
  BY <1>1 DEF Outstanding, Calling
<1> QED
  BY <1>1, <1>2

\* A refused create leads to another call, a second listing to an update or
\* to nothing; so do a refused update and a call that fails.
LEMMA CallPromised ==
    ASSUME Inductive, InHand, NEW n \in Nodes,
           CreateRefused(n) \/ Requery(n) \/ UpdateRefused(n) \/ CallFails(n)
    PROVE  Promised
<1> DEFINE t == cur[n]
<1>1. TypeOK /\ Addresses
  BY DEF Inductive
<1>2. /\ \A m \in Nodes \ {n} : PlaceKept(m)
      /\ UNCHANGED <<zone, addr, cfg, changes>> /\ snap'[n] = snap[n] /\ todo'[n] = todo[n]
      /\ pc[n] \in Calling
  BY <1>1 DEF NoFault, Fault, CallFault, CreateRefused, Requery, UpdateRefused, CallFails, ReconcileExisting,
     NextTemplate, TypeOK, PlaceKept, Calling
<1>3. \/ pc'[n] = "choose"
      \/ pc'[n] \in {"requery", "update"} /\ cur'[n] = cur[n]
  BY <1>1 DEF CreateRefused, Requery, UpdateRefused, CallFails, ReconcileExisting,
     NextTemplate, TypeOK
<1>4. /\ t \in Templates /\ t \in Outstanding(n) /\ ~snap[n].cfg.dry
      /\ Outstanding(n) \ {t} = todo[n]
  BY <1>2, HandedTemplate
<1>5. CASE pc'[n] = "choose"
  <2>1. Outstanding(n)' = Outstanding(n) \ {t}
    BY <1>2, <1>4, <1>5 DEF Outstanding
  <2> QED
    BY <1>1, <1>2, <1>4, <1>5, <2>1, Passing DEF Calling
<1>6. CASE pc'[n] \in {"requery", "update"} /\ cur'[n] = cur[n]
  <2>1. DueAt(n)' = DueAt(n)
    BY <1>2, <1>6 DEF DueAt, Outstanding, Calling
  <2> QED
    BY <1>2, <1>6, <2>1, Stuttering DEF Calling
<1> QED
  BY <1>3, <1>5, <1>6

\* The end of a pass, with nothing left to do, and a restart.
LEMMA QuietPromised ==
    ASSUME TypeOK, NEW n \in Nodes, FinishPass(n) \/ Restart(n)
    PROVE  Promised
<1>1. /\ \A m \in Nodes \ {n} : PlaceKept(m)
      /\ UNCHANGED <<zone, addr, cfg, changes>>
      /\ pc[n] = "cleanup" <=> pc'[n] = "cleanup"
  BY DEF NoFault, Fault, CallFault, FinishPass, Restart, TypeOK, PlaceKept
<1>2. Outstanding(n) = {} /\ Outstanding(n)' = {}
  BY DEF FinishPass, Restart, TypeOK, Outstanding, Calling
<1>3. DueAt(n)' = DueAt(n)
  BY <1>2 DEF DueAt
<1> QED
  BY <1>1, <1>3, Stuttering

\* A signal is something done to the node that the promise sees nothing of.
LEMMA SignalPromised ==
    ASSUME TypeOK, NEW n \in Nodes, Signal(n)
    PROVE  Promised
<1>1. /\ UNCHANGED <<zone, addr, cfg, pc, snap, todo, cur>>
      /\ changes' = changes + 1
  BY DEF Signal, Change
<1>2. UNCHANGED <<addr, Wanted, Held, Unowned, Leaving>>
  BY <1>1, RecordsKept, LeavingKept, WantedKept
<1>3. UNCHANGED Due
  BY <1>1 DEF Due, Outstanding
<1>4. Promise!Interfere
  BY <1>1, <1>2, <1>3 DEF Promise!Interfere, Promise!Change
<1> QED
  BY <1>4 DEF Promised, Promise!Next

\* The agent ends or dies.
LEMMA HaltPromised ==
    ASSUME TypeOK, NEW n \in Nodes, Crash(n) \/ FinishCleanup(n)
    PROVE  Promised
<1>1. /\ \A m \in Nodes \ {n} : PlaceKept(m)
      /\ UNCHANGED <<zone, addr, cfg, changes>>
      /\ pc'[n] \in {"crashed", "stopped"}
  BY DEF NoFault, Fault, CallFault, Crash, FinishCleanup, TypeOK, PlaceKept
<1>2. DueAt(n)' = {}
  BY <1>1 DEF DueAt, Outstanding, Calling
<1>3. Due' = [Due EXCEPT ![n] = {}]
  BY <1>1, <1>2, DueStep
<1>4. Leaving' = Leaving \ {n}
  BY <1>1 DEF Leaving, PlaceKept
<1>5. UNCHANGED <<addr, Wanted, Held, Unowned, changes>>
  BY <1>1, RecordsKept, WantedKept
<1>6. Promise!Halt(n)
  BY <1>3, <1>4, <1>5 DEF Promise!Halt
<1> QED
  BY <1>6 DEF Promised, Promise!Next, Promise!NodeStep

\* The agent starts to take its records away, or stops at once.
LEMMA BeginCleanupPromised ==
    ASSUME TypeOK, NEW n \in Nodes, BeginCleanup(n)
    PROVE  Promised
<1>1. /\ \A m \in Nodes \ {n} : PlaceKept(m)
      /\ UNCHANGED <<zone, addr, cfg, changes>> /\ pc[n] = "idle"
      /\ \/ n \in CleanupOnShutdown /\ pc'[n] = "cleanup"
         \/ pc'[n] = "stopped"
  BY DEF NoFault, Fault, CallFault, BeginCleanup, TypeOK, PlaceKept
<1>2. DueAt(n)' = DueAt(n) /\ Due[n] = {}
  BY <1>1 DEF Due, DueAt, Outstanding, Calling
<1>3. CASE pc'[n] = "stopped"
  BY <1>1, <1>2, <1>3, Stuttering
<1>4. CASE n \in CleanupOnShutdown /\ pc'[n] = "cleanup"
  <2>1. Leaving' = Leaving \cup {n}
    BY <1>1, <1>4 DEF Leaving, PlaceKept
  <2>2. UNCHANGED <<addr, Wanted, Due, Held, Unowned, changes>>
    BY <1>1, <1>2, DueKept, RecordsKept, WantedKept
  <2>3. Promise!Leave(n)
    BY <1>2, <1>4, <2>1, <2>2 DEF Promise!Leave
  <2> QED
    BY <2>3 DEF Promised, Promise!Next, Promise!NodeStep
<1> QED
  BY <1>1, <1>3, <1>4

\* An address moves, a configuration is replaced.
LEMMA ChangePromised ==
    ASSUME TypeOK, NEW n \in Nodes,
           \/ \E t \in Templates : AddressChange(n, t) \/ ConfigChange(n, t)
           \/ DryRunChange(n)
    PROVE  Promised
<1>1. (\A m \in Nodes : PlaceKept(m)) /\ Promise!Change
  BY DEF AddressChange, ConfigChange, DryRunChange, PlaceKept, Change, Promise!Change
<1>2. UNCHANGED <<Due, Held, Unowned, Leaving>>
  <2>1. UNCHANGED zone
    BY DEF AddressChange, ConfigChange, DryRunChange
  <2>2. DueAt(n)' = DueAt(n)
    BY <1>1 DEF PlaceKept, DueAt, Outstanding
  <2> QED
    BY <1>1, <2>1, <2>2, DueKept, RecordsKept, LeavingKept DEF PlaceKept
<1>3. ASSUME NEW t \in Templates, AddressChange(n, t) PROVE Promised
  <2>1. \E c \in Published[n][t] : addr' = [addr EXCEPT ![n][t] = c]
    BY <1>3 DEF AddressChange
  <2>2. UNCHANGED Wanted
    BY <1>3, WantedKept DEF AddressChange
  <2>3. Promise!Move(n, t)
    BY <1>1, <1>2, <2>1, <2>2 DEF Promise!Move
  <2> QED
    BY <2>3 DEF Promised, Promise!Next, Promise!NodeStep
<1>4. CASE (\E t \in Templates : ConfigChange(n, t)) \/ DryRunChange(n)
  <2>1. UNCHANGED addr /\ \A m \in Nodes \ {n} : cfg'[m] = cfg[m]
    BY <1>4 DEF ConfigChange, DryRunChange, TypeOK
  <2>2. Wanted = [m \in Nodes |-> WantedTemplates(m)]
        /\ Wanted' = [m \in Nodes |-> WantedTemplates(m)']
    BY DEF Wanted
  <2>3. \A m \in Nodes \ {n} : WantedTemplates(m)' = WantedTemplates(m)
    BY <2>1 DEF WantedTemplates
  <2>4. Wanted' = [Wanted EXCEPT ![n] = WantedTemplates(n)']
    BY <2>2, <2>3
  <2>5. WantedTemplates(n)' \in SUBSET Templates
    BY DEF WantedTemplates
  <2>6. Promise!Configure(n)
    BY <1>1, <1>2, <2>1, <2>4, <2>5 DEF Promise!Configure
  <2> QED
    BY <2>6 DEF Promised, Promise!Next, Promise!NodeStep
<1> QED
  BY <1>3, <1>4

-----------------------------------------------------------------------------
(* Steps that write to the zone.                                           *)

\* A write for the template in hand, which leaves one record of it with the
\* address its pass saw, publishes it.
LEMMA Publishing ==
    ASSUME Inductive, InHand, NEW n \in Nodes, pc[n] \in Calling, pc'[n] = "choose",
           \A m \in Nodes \ {n} : PlaceKept(m),
           snap'[n] = snap[n], todo'[n] = todo[n], UNCHANGED <<addr, cfg, changes>>,
           Held' = [Held EXCEPT ![n][cur[n]] = {snap[n].addr[cur[n]]}],
           \/ UNCHANGED Unowned
           \/ /\ Own(n, cur[n]) = {} /\ ExclusiveSlot(n, cur[n])
              /\ \E r \in Unowned : /\ r.slot = SlotOf[n][cur[n]]
                                     /\ Unowned' = Unowned \ {r}
    PROVE  Promised
<1> DEFINE t == cur[n]
           c == snap[n].addr[t]
<1>1. /\ t \in Templates /\ t \in Outstanding(n) /\ ~snap[n].cfg.dry
      /\ Outstanding(n) \ {t} = todo[n]
  BY HandedTemplate
<1>2. c \in Published[n][t]
  BY <1>1 DEF Inductive, Addresses
<1>3. Outstanding(n)' = Outstanding(n) \ {t}
  BY <1>1 DEF Outstanding
<1>4. <<t, c>> \in Due[n] /\ Due' = [Due EXCEPT ![n] = Due[n] \ {<<t, c>>}]
  BY <1>1, <1>3, DueTaken
<1>5. UNCHANGED <<addr, Wanted, Leaving, changes>>
  BY LeavingKept, WantedKept DEF PlaceKept, Calling
<1>6. \/ UNCHANGED Unowned
      \/ /\ Held[n][t] = {} /\ <<n, t>> \in {w \in Writers : ExclusiveSlot(w[1], w[2])}
         /\ \E r \in Unowned : r.slot = SlotOf[n][t] /\ Unowned' = Unowned \ {r}
  BY <1>1 DEF Held, Writers
<1>7. Promise!Publish(n, t, c)
  BY <1>4, <1>5, <1>6 DEF Promise!Publish
<1> QED
  BY <1>1, <1>2, <1>7 DEF Promised, Promise!Next, Promise!NodeStep

\* A create that takes effect, whether or not its answer arrives.
LEMMA CreatePromised ==
    ASSUME Separation, Inductive, InHand, NEW n \in Nodes, Create(n)
    PROVE  Promised
<1> DEFINE t == cur[n]
           rec == Desired(n, t, NewId)
<1>1. TypeOK /\ pc[n] = "create" /\ t \in Templates /\ Own(n, t) = {}
  BY DEF Inductive, HoldsNone, Create
<1>2. zone' = zone \cup {rec}
  BY DEF Create, AfterCreate, Separation, WritesWholeSet
<1>3. rec.by = <<n, t>> /\ rec.content = snap[n].addr[t]
  BY DEF Desired
<1>4. <<n, t>> # Foreign
  BY <1>1, ReconcileAssumption DEF Writers
<1>5. UNCHANGED Unowned
  BY <1>2, <1>3, <1>4 DEF Unowned
<1> HIDE DEF rec
<1>6. ASSUME NEW m \in Nodes, NEW u \in Templates, <<m, u>> # <<n, t>>
      PROVE  Held'[m][u] = Held[m][u]
  <2>1. {r \in zone' : r.by = <<m, u>>} = {r \in zone : r.by = <<m, u>>}
    BY <1>2, <1>3, <1>6
  <2> QED
    BY <2>1, HeldAt
<1>7. Held'[n][t] = {snap[n].addr[t]}
  <2>1. {r \in zone' : r.by = <<n, t>>} = {rec}
    BY <1>1, <1>2, <1>3 DEF Own
  <2> QED
    BY <1>1, <1>3, <2>1, HeldAt, ContentsOfOne
<1>8. Held' = [Held EXCEPT ![n][t] = {snap[n].addr[t]}]
  BY <1>1, <1>6, <1>7, HeldStep
<1>9. /\ pc'[n] = "choose" /\ snap'[n] = snap[n] /\ todo'[n] = todo[n]
      /\ UNCHANGED <<addr, cfg, changes>> /\ \A m \in Nodes \ {n} : PlaceKept(m)
  BY <1>1 DEF NoFault, Fault, CallFault, Create, NextTemplate, TypeOK, PlaceKept
<1> QED
  BY <1>1, <1>5, <1>8, <1>9, Publishing DEF Calling

\* An update replaces the template's record, or a foreign one it adopts.
LEMMA UpdatePromised ==
    ASSUME Separation, Inductive, InHand, NEW n \in Nodes, Update(n)
    PROVE  Promised
<1> DEFINE t == cur[n]
           rec == Desired(n, t, cand[n])
<1>1. TypeOK /\ pc[n] = "update" /\ t \in Templates
  BY DEF Inductive, CandidateMine, Update
<1>2. rec.id = cand[n] /\ rec.by = <<n, t>> /\ rec.content = snap[n].addr[t]
  BY DEF Desired
<1>3. /\ zone' = {r \in zone : r.id # cand[n]} \cup {rec}
      /\ \E q \in zone : q.id = cand[n]
  BY <1>2 DEF Update, AfterUpdate, UpdateAccepted, UpdateTarget, Separation, WritesWholeSet
<1>4. PICK q \in zone : q.id = cand[n]
  BY <1>3
<1>5. q.by = <<n, t>> \/ Adoptable(n, t, q)
  BY <1>1, <1>4 DEF Inductive, CandidateMine
<1>6. \A r \in zone : r.id = cand[n] => r = q
  BY <1>4 DEF Inductive, UniqueIds
<1>7. <<n, t>> # Foreign
  BY <1>1, ReconcileAssumption DEF Writers
<1> HIDE DEF rec
<1>8. zone' = (zone \ {q}) \cup {rec}
  BY <1>3, <1>4, <1>6
<1>9. \A r \in zone \ {q} : r.by # <<n, t>>
  BY <1>4, <1>5, <1>7 DEF Inductive, OwnUnique, Adoptable, Own
<1>10. ASSUME NEW m \in Nodes, NEW u \in Templates, <<m, u>> # <<n, t>>
       PROVE  Held'[m][u] = Held[m][u]
  <2>1. <<m, u>> # Foreign
    BY ReconcileAssumption DEF Writers
  <2>2. q.by # <<m, u>>
    BY <1>5, <1>10, <2>1 DEF Adoptable
  <2>3. {r \in zone' : r.by = <<m, u>>} = {r \in zone : r.by = <<m, u>>}
    BY <1>2, <1>8, <1>10, <2>2
  <2> QED
    BY <2>3, HeldAt
<1>11. Held'[n][t] = {snap[n].addr[t]}
  <2>1. {r \in zone' : r.by = <<n, t>>} = {rec}
    BY <1>2, <1>8, <1>9
  <2> QED
    BY <1>1, <1>2, <2>1, HeldAt, ContentsOfOne
<1>12. Held' = [Held EXCEPT ![n][t] = {snap[n].addr[t]}]
  BY <1>1, <1>10, <1>11, HeldStep
<1>13. \/ UNCHANGED Unowned
       \/ /\ Own(n, t) = {} /\ ExclusiveSlot(n, t)
          /\ \E r \in Unowned : r.slot = SlotOf[n][t] /\ Unowned' = Unowned \ {r}
  <2>1. CASE q.by = <<n, t>>
    BY <1>2, <1>7, <1>8, <2>1 DEF Unowned
  <2>2. CASE Adoptable(n, t, q)
    <3>1. q \in Unowned /\ Unowned' = Unowned \ {q}
      BY <1>2, <1>4, <1>7, <1>8, <2>2 DEF Unowned, Adoptable
    <3> QED
      BY <2>2, <3>1 DEF Adoptable
  <2> QED
    BY <1>5, <2>1, <2>2
<1>14. /\ pc'[n] = "choose" /\ snap'[n] = snap[n] /\ todo'[n] = todo[n]
       /\ UNCHANGED <<addr, cfg, changes>> /\ \A m \in Nodes \ {n} : PlaceKept(m)
  BY <1>1 DEF NoFault, Fault, CallFault, Update, NextTemplate, TypeOK, PlaceKept
<1> QED
  BY <1>1, <1>12, <1>13, <1>14, Publishing DEF Calling

\* A record deleted from the zone is all that its template holds.
LEMMA HeldAfterDelete ==
    ASSUME OwnUnique, NEW n \in Nodes, NEW t \in Templates, NEW q \in zone,
           q.by = <<n, t>>, zone' = zone \ {q}
    PROVE  Held' = [Held EXCEPT ![n][t] = {}] /\ UNCHANGED Unowned
<1>1. <<n, t>> # Foreign
  BY ReconcileAssumption DEF Writers
<1>2. UNCHANGED Unowned
  BY <1>1 DEF Unowned
<1>3. {r \in zone' : r.by = <<n, t>>} = {}
  BY <1>1 DEF OwnUnique
<1>4. Held'[n][t] = {}
  BY <1>3, HeldAt, ContentsOfOne
<1>5. ASSUME NEW m \in Nodes, NEW u \in Templates, <<m, u>> # <<n, t>>
      PROVE  Held'[m][u] = Held[m][u]
  <2>1. {r \in zone' : r.by = <<m, u>>} = {r \in zone : r.by = <<m, u>>}
    BY <1>5
  <2> QED
    BY <2>1, HeldAt
<1> QED
  BY <1>2, <1>4, <1>5, HeldStep

\* The cleanup withdraws a template's record, or finds none under its id.
LEMMA CleanupDeletePromised ==
    ASSUME Inductive, NEW n \in Nodes, NEW e \in mem[n], CleanupDelete(n, e)
    PROVE  Promised
<1>1. TypeOK /\ e.tmpl \in Templates
  BY DEF Inductive, TypeOK, Entry
<1>2. /\ \A m \in Nodes \ {n} : PlaceKept(m)
      /\ UNCHANGED <<addr, cfg, pc, changes>> /\ pc[n] = "cleanup"
  BY <1>1 DEF NoFault, Fault, CallFault, CleanupDelete, TypeOK, PlaceKept
<1>3. DueAt(n)' = DueAt(n)
  BY <1>2 DEF DueAt, Outstanding, Calling
<1>4. CASE UNCHANGED zone
  BY <1>2, <1>3, <1>4, Stuttering
<1>5. CASE \E q \in zone : q.id = e.id /\ zone' = AfterDelete(zone, e.id)
  <2>1. PICK q \in zone : q.id = e.id /\ zone' = AfterDelete(zone, e.id)
    BY <1>5
  <2>2. zone' = zone \ {q}
    BY <2>1 DEF AfterDelete, Inductive, UniqueIds
  <2>3. q.by = <<n, e.tmpl>>
    BY <2>1 DEF Inductive, EntriesOwned
  <2>4. Held' = [Held EXCEPT ![n][e.tmpl] = {}] /\ UNCHANGED Unowned
    BY <1>1, <2>2, <2>3, HeldAfterDelete DEF Inductive
  <2>5. UNCHANGED <<addr, Wanted, Due, Leaving, changes>> /\ n \in Leaving
    BY <1>2, <1>3, DueKept, LeavingKept, WantedKept DEF Leaving
  <2>6. Promise!Withdraw(n, e.tmpl)
    BY <2>4, <2>5 DEF Promise!Withdraw
  <2> QED
    BY <1>1, <2>6 DEF Promised, Promise!Next, Promise!NodeStep
<1> QED
  BY <1>4, <1>5 DEF CleanupDelete, DeleteAccepted

\* What an operator does to the records of agents, and to all others.
LEMMA OperatorPromised ==
    ASSUME Inductive, Operator
    PROVE  Promised
<1>1. TypeOK /\ OwnUnique
  BY DEF Inductive
<1>2. UNCHANGED <<addr, Wanted, Due, Leaving>> /\ Promise!Change
  <2>1. UNCHANGED <<addr, cfg, pc, snap, todo, cur>> /\ Promise!Change
    BY DEF Operator, Agents, Change, Promise!Change
  <2>2. \A m \in Nodes : DueAt(m)' = DueAt(m)
    BY <2>1 DEF DueAt, Outstanding
  <2>3. Due = [m \in Nodes |-> DueAt(m)] /\ Due' = [m \in Nodes |-> DueAt(m)']
    BY DEF Due, DueAt
  <2> QED
    BY <2>1, <2>2, <2>3, LeavingKept, WantedKept
<1>3. ASSUME Promise!Tamper \/ Promise!Handwork \/ UNCHANGED <<Held, Unowned>>
      PROVE  Promised
  <2>1. Promise!Interfere
    BY <1>2, <1>3 DEF Promise!Interfere
  <2> QED
    BY <2>1 DEF Promised, Promise!Next
<1>4. ASSUME NEW r \in zone
      PROVE  \/ r.by = Foreign
             \/ \E n \in Nodes, t \in Templates : r.by = <<n, t>> /\ Held[n][t] # {}
  <2>1. r.by \in Writers \cup {Foreign}
    BY <1>1 DEF TypeOK, Record
  <2>2. ASSUME NEW n \in Nodes, NEW t \in Templates, r.by = <<n, t>> PROVE Held[n][t] # {}
    BY <2>2, HeldAt DEF ContentsIn
  <2> QED
    BY <2>1, <2>2 DEF Writers
<1>5. ASSUME \A m \in Nodes, u \in Templates :
                {r \in zone' : r.by = <<m, u>>} = {r \in zone : r.by = <<m, u>>}
      PROVE  UNCHANGED Held
  BY <1>5 DEF Held, Own
<1>6. \A m \in Nodes, u \in Templates : <<m, u>> # Foreign
  BY ReconcileAssumption DEF Writers
<1>7. CASE ForeignDelete
  <2>1. PICK r \in zone : zone' = zone \ {r}
    BY <1>7 DEF ForeignDelete
  <2>2. CASE r.by = Foreign
    <3>1. UNCHANGED Held
      BY <1>5, <1>6, <2>1, <2>2
    <3>2. r \in Unowned /\ Unowned' = Unowned \ {r}
      BY <2>1, <2>2 DEF Unowned
    <3> QED
      BY <1>3, <3>1, <3>2 DEF Promise!Handwork
  <2>3. CASE \E n \in Nodes, t \in Templates : r.by = <<n, t>> /\ Held[n][t] # {}
    <3>1. Promise!Tamper
      BY <1>1, <2>1, <2>3, HeldAfterDelete DEF Promise!Tamper
    <3> QED
      BY <1>3, <3>1
  <2> QED
    BY <1>4, <2>2, <2>3
<1>8. CASE ForeignEdit
  <2>1. PICK r \in zone, c \in ForeignContents :
            zone' = (zone \ {r}) \cup {[r EXCEPT !.content = c]}
    BY <1>8 DEF ForeignEdit
  <2> DEFINE new == [r EXCEPT !.content = c]
  <2>2. new.by = r.by /\ new.content = c
    BY <1>1 DEF TypeOK, Record
  <2> HIDE DEF new
  <2>3. zone' = (zone \ {r}) \cup {new}
    BY <2>1 DEF new
  <2>4. CASE r.by = Foreign
    <3>1. \A m \in Nodes, u \in Templates :
              {s \in zone' : s.by = <<m, u>>} = {s \in zone : s.by = <<m, u>>}
      BY <1>6, <2>2, <2>3, <2>4
    <3>2. UNCHANGED Held
      BY <1>5, <3>1
    <3>3. r \in Unowned /\ Unowned' = (Unowned \ {r}) \cup {[r EXCEPT !.content = c]}
      BY <2>2, <2>3, <2>4 DEF Unowned, new
    <3> QED
      BY <1>3, <3>2, <3>3 DEF Promise!Handwork
  <2>5. CASE \E n \in Nodes, t \in Templates : r.by = <<n, t>> /\ Held[n][t] # {}
    <3>1. PICK n \in Nodes, t \in Templates : r.by = <<n, t>> /\ Held[n][t] # {}
      BY <2>5
    <3>2. UNCHANGED Unowned
      BY <1>6, <2>2, <2>3, <3>1 DEF Unowned
    <3>3. {s \in zone' : s.by = <<n, t>>} = {new}
      BY <1>1, <1>6, <2>2, <2>3, <3>1 DEF OwnUnique
    <3>4. Held'[n][t] = {c}
      <4>1. Held'[n][t] = ContentsIn({s \in zone' : s.by = <<n, t>>})
        BY HeldAt
      <4>2. ContentsIn({new}) = {new.content}
        BY ContentsOfOne
      <4> QED
        BY <2>2, <3>3, <4>1, <4>2
    <3>5. ASSUME NEW m \in Nodes, NEW u \in Templates, <<m, u>> # <<n, t>>
          PROVE  Held'[m][u] = Held[m][u]
      <4>1. {s \in zone' : s.by = <<m, u>>} = {s \in zone : s.by = <<m, u>>}
        BY <2>2, <2>3, <3>1, <3>5
      <4> QED
        BY <4>1, HeldAt
    <3>6. Held' = [Held EXCEPT ![n][t] = {c}]
      BY <3>4, <3>5, HeldStep
    <3>7. Promise!Tamper
      BY <3>1, <3>2, <3>6 DEF Promise!Tamper
    <3> QED
      BY <1>3, <3>7
  <2> QED
    BY <1>4, <2>4, <2>5
<1>9. CASE ForeignAdd
  <2>1. PICK new : zone' = zone \cup {new} /\ new.by = Foreign
    BY <1>9 DEF ForeignAdd
  <2>2. \A m \in Nodes, u \in Templates :
            {s \in zone' : s.by = <<m, u>>} = {s \in zone : s.by = <<m, u>>}
    BY <1>6, <2>1
  <2>3. UNCHANGED Held
    BY <1>5, <2>2
  <2>4. new \in Unowned' /\ Unowned' = Unowned \cup {new}
    BY <2>1 DEF Unowned
  <2>5. CASE new \in Unowned
    BY <1>3, <2>3, <2>4, <2>5
  <2>6. CASE new \notin Unowned
    BY <1>3, <2>3, <2>4, <2>6 DEF Promise!Handwork
  <2> QED
    BY <2>5, <2>6
<1> QED
  BY <1>7, <1>8, <1>9 DEF Operator

-----------------------------------------------------------------------------
(* The refinement.                                                         *)

\* At first nothing is held, due or foreign.
LEMMA InitPromised == Init => Promise!Init
<1> SUFFICES ASSUME Init PROVE Promise!Init
  OBVIOUS
<1>1. addr \in [Nodes -> [Templates -> UNION {Published[n][t] : n \in Nodes, t \in Templates}]]
  <2> DEFINE Found == {Published[n][t] : n \in Nodes, t \in Templates}
             All == UNION Found
  <2>1. \A n \in Nodes, t \in Templates : addr[n][t] \in Published[n][t]
    BY DEF Init
  <2>2. \A n \in Nodes, t \in Templates : Published[n][t] \in Found
    OBVIOUS
  <2>3. \A n \in Nodes, t \in Templates : addr[n][t] \in All
    BY <2>1, <2>2
  <2>4. addr \in [Nodes -> [Templates -> Contents]]
    BY DEF Init
  <2> HIDE DEF Found, All
  <2>5. addr \in [Nodes -> [Templates -> All]]
    BY <2>3, <2>4
  <2> QED
    BY <2>5 DEF All, Found
<1>2. Wanted \in [Nodes -> SUBSET Templates]
  BY DEF Wanted, WantedTemplates
<1>3. Due = [n \in Nodes |-> {}]
  BY DEF Init, Due, Outstanding, Calling
<1>4. /\ Held = [n \in Nodes |-> [t \in Templates |-> {}]]
      /\ Unowned = {} /\ Leaving = {} /\ changes = 0
  BY DEF Init, Held, Own, Unowned, Leaving
<1> QED
  BY <1>1, <1>2, <1>3, <1>4 DEF Promise!Init

\* Every step is one of the promise, or none.
LEMMA NextPromised ==
    ASSUME Separation, Inductive, InHand, [Next]_vars
    PROVE  Promised
<1>1. TypeOK /\ Addresses
  BY DEF Inductive
<1>2. ASSUME NEW n \in Nodes, PassStep(n) PROVE Promised
  BY <1>1, <1>2, BeginPassPromised, TakingPromised, CreatePromised, CallPromised,
     UpdatePromised, QuietPromised DEF PassStep
<1>3. ASSUME NEW n \in Nodes, CleanupStep(n) PROVE Promised
  BY <1>1, <1>3, BeginCleanupPromised, CleanupDeletePromised, HaltPromised DEF CleanupStep
<1>4. ASSUME NEW n \in Nodes, EnvironmentStep(n) PROVE Promised
  BY <1>1, <1>4, SignalPromised, ChangePromised DEF EnvironmentStep
<1>5. CASE Operator
  BY <1>5, OperatorPromised
<1>6. CASE UNCHANGED vars
  <2>1. UNCHANGED <<zone, addr, cfg, changes>> /\ \A m \in Nodes : PlaceKept(m)
    BY <1>6 DEF vars, PlaceKept
  <2>2. \A m \in Nodes : DueAt(m)' = DueAt(m)
    BY <2>1 DEF PlaceKept, DueAt, Outstanding
  <2>3. Due = [m \in Nodes |-> DueAt(m)] /\ Due' = [m \in Nodes |-> DueAt(m)']
    BY DEF Due, DueAt
  <2> QED
    BY <2>1, <2>2, <2>3, RecordsKept, LeavingKept, WantedKept
       DEF PlaceKept, Promised, Promise!vars
<1> QED
  BY <1>1, <1>2, <1>3, <1>4, <1>5, <1>6, QuietPromised, HaltPromised DEF Next

\* The calls of the agents, with all that comes in between, fails or is lost,
\* amount to what DesiredState promises: each template is written at most once
\* in a pass, with the address its pass saw, by a record that moves in a
\* single step.
THEOREM PromiseKept ==
    ASSUME Separation
    PROVE  Spec => KeepsPromise
<1>1. Init => InHand
  BY DEF Init, InHand, Calling
<1>2. Inductive /\ InHand /\ [Next]_vars => InHand'
  BY InHandStep DEF Inductive
<1>3. Inductive /\ InHand /\ [Next]_vars => [Promise!Next]_(Promise!vars)
  BY NextPromised DEF Promised
<1> QED
  BY <1>1, <1>2, <1>3, InitPromised, InductiveHolds, PTL DEF Spec, KeepsPromise, Promise!Spec
=============================================================================
