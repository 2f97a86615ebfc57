----------------------------- MODULE Reconcile -----------------------------
(***************************************************************************)
(* Nodes reconciling their records in one shared zone                      *)
(* (internal/reconcile, internal/state, internal/cleanup and the pass of   *)
(* internal/app/app.go).                                                   *)
(*                                                                         *)
(* Every node runs one agent.  A pass snapshots the configuration, loads   *)
(* the state file, resolves the node's addresses, takes the templates one  *)
(* by one, and saves the state file.  Handling a template is a sequence of *)
(* provider calls: list, then create or update, and after a create that    *)
(* was refused as a duplicate, list again and update.  Each call is an     *)
(* action here, so that other nodes, an operator editing the zone, a crash *)
(* or a signal can come between any two of them.  A call may fail, and it  *)
(* may take effect while the caller sees an error (reply lost, timeout,    *)
(* context cancelled).                                                     *)
(*                                                                         *)
(* Abstractions: one zone and one provider; a slot is a name and type;     *)
(* templates of a pass are taken in any order; TTL and the proxied flag    *)
(* are left out, as the code never compares them; a call has taken effect, *)
(* or never will, when its caller goes on.  The ghost field "by" of a      *)
(* record names the node and template that last wrote it.                  *)
(***************************************************************************)
EXTENDS DnsProvider, FiniteSets

CONSTANTS
    Nodes,
    Templates,              \* record template ids, configured on every node
    NoTemplate,
    Slots,                  \* fully qualified name and type
    Contents,
    SlotOf,                 \* SlotOf[n][t]: the slot template t expands to on node n
    Published,              \* Published[n][t]: the contents it can resolve to there
    CommentOf,              \* CommentOf[n][t]: its comment after expansion
    TagsOf,                 \* TagsOf[n][t]: its tags after expansion
    Foreign,                \* author of the records no agent wrote
    ForeignContents,
    ForeignComments,
    CleanupOnShutdown,      \* the nodes configured to clean up
    DryRunnable,            \* the nodes whose dryRun setting may be switched
    MaxFaults,              \* bound on failed calls, lost replies, crashes
    MaxChanges              \* bound on changes of the environment

Writers == Nodes \X Templates

ASSUME ReconcileAssumption ==
    /\ SlotOf \in [Nodes -> [Templates -> Slots]]
    /\ Published \in [Nodes -> [Templates -> SUBSET Contents]]
    /\ \A n \in Nodes, t \in Templates : Published[n][t] # {}
    /\ CommentOf \in [Nodes -> [Templates -> UserComment]]
    /\ TagsOf \in [Nodes -> [Templates -> SUBSET Pairs]]
    /\ ForeignContents \subseteq Contents
    /\ ForeignComments \subseteq Comment
    /\ NoTemplate \notin Templates
    /\ Foreign \notin Writers
    /\ CleanupOnShutdown \subseteq Nodes
    /\ DryRunnable \subseteq Nodes
    /\ MaxFaults \in Nat /\ MaxChanges \in Nat

VARIABLES
    zone,      \* the records at the provider
    nextId,    \* the next id the provider gives out
    addr,      \* addr[n][t]: what template t resolves to on node n now
    cfg,       \* cfg[n]: the live configuration of node n
    file,      \* file[n]: the records of the state file on disk
    pc,        \* pc[n]: where the agent of node n is
    snap,      \* snap[n]: addresses and configuration read when the pass began
    todo,      \* todo[n]: templates the pass or the cleanup has still to take
    cur,       \* cur[n]: the template in hand
    cand,      \* cand[n]: the id of the record it will update
    mem,       \* mem[n]: the state file as loaded and updated by the pass
    stop,      \* stop[n]: the shutdown signal has been received
    faults,
    changes

vars == <<zone, nextId, addr, cfg, file, pc, snap, todo, cur, cand, mem, stop,
          faults, changes>>

-----------------------------------------------------------------------------
(* Types.                                                                  *)

Record == [id : Nat, slot : Slots, content : Contents, comment : Comment,
           tags : SUBSET Pairs, by : Writers \cup {Foreign}]

\* state.RecordState under its template id, reduced to the provider's id.
Entry == [tmpl : Templates, id : Nat]

\* A template is reconciled, kept but disabled, or not configured; one that
\* ExpandContainerRecords makes for a container is there while that runs.
Status == {"on", "off", "absent"}

Config == [tmpl : [Templates -> Status], dry : BOOLEAN]

\* What a pass reads before its first template: what the address sources of
\* each resolve to, and the configuration.
Snapshot == [addr : [Templates -> Contents], cfg : Config]

Places == {"boot", "idle", "choose", "create", "requery", "update", "cleanup",
           "stopped", "crashed"}

TypeOK ==
    /\ zone \subseteq Record
    /\ nextId \in Nat \ {0}
    /\ addr \in [Nodes -> [Templates -> Contents]]
    /\ cfg \in [Nodes -> Config]
    /\ file \in [Nodes -> SUBSET Entry]
    /\ pc \in [Nodes -> Places]
    /\ snap \in [Nodes -> Snapshot]
    /\ todo \in [Nodes -> SUBSET Templates]
    /\ cur \in [Nodes -> Templates \cup {NoTemplate}]
    /\ cand \in [Nodes -> Nat]
    /\ mem \in [Nodes -> SUBSET Entry]
    /\ stop \in [Nodes -> BOOLEAN]
    /\ faults \in 0..MaxFaults
    /\ changes \in 0..MaxChanges

-----------------------------------------------------------------------------
(* What a node wants in the zone.                                          *)

DesiredComment(n, t) == BuildOwnershipComment(CommentOf[n][t])

\* Tags are dropped when the provider has none.
DesiredTags(n, t) == IF SupportsStructuredTags THEN TagsOf[n][t] ELSE {}

OwnershipOf(n, t) == ParseCommentAsOwnership(DesiredComment(n, t))

Desired(n, t, id) ==
    [id |-> id, slot |-> SlotOf[n][t], content |-> snap[n].addr[t],
     comment |-> DesiredComment(n, t), tags |-> DesiredTags(n, t),
     by |-> <<n, t>>]

\* The id a create call is answered with.
NewId == IF Kind = "cloudflare" THEN nextId ELSE DerivedId

\* updateState: one entry per template, the last one wins.
UpdateState(entries, t, id) ==
    {e \in entries : e.tmpl # t} \cup {[tmpl |-> t, id |-> id]}

\* PruneOrphans keeps what is configured, enabled or not.
PruneOrphans(entries, config) == {e \in entries : config.tmpl[e.tmpl] # "absent"}

\* The agent's memory when no pass is running.
IdleSnapshot(n) ==
    [addr |-> [t \in Templates |-> CHOOSE c \in Published[n][t] : TRUE],
     cfg |-> [tmpl |-> [t \in Templates |-> "absent"], dry |-> FALSE]]

Fault == faults < MaxFaults /\ faults' = faults + 1 /\ UNCHANGED changes

Change == changes < MaxChanges /\ changes' = changes + 1 /\ UNCHANGED faults

\* Once the signal has cancelled the context, calls fail of themselves.
CallFault(n) == IF stop[n] THEN UNCHANGED <<faults, changes>> ELSE Fault

NoFault == UNCHANGED <<faults, changes>>

Live(n) == ~stop[n]

-----------------------------------------------------------------------------
Init ==
    /\ zone = {}
    /\ nextId = 1
    /\ addr \in [Nodes -> [Templates -> Contents]]
    /\ \A n \in Nodes, t \in Templates : addr[n][t] \in Published[n][t]
    /\ cfg = [n \in Nodes |-> [tmpl |-> [t \in Templates |-> "on"], dry |-> FALSE]]
    /\ file = [n \in Nodes |-> {}]
    /\ pc = [n \in Nodes |-> "boot"]
    /\ snap = [n \in Nodes |-> IdleSnapshot(n)]
    /\ todo = [n \in Nodes |-> {}]
    /\ cur = [n \in Nodes |-> NoTemplate]
    /\ cand = [n \in Nodes |-> 0]
    /\ mem = [n \in Nodes |-> {}]
    /\ stop = [n \in Nodes |-> FALSE]
    /\ faults = 0
    /\ changes = 0

-----------------------------------------------------------------------------
(* The pass.                                                               *)

\* reconcileOnce up to the loop over the templates.  The first pass runs at
\* once, the others on schedule.  When the signal is there as well, select
\* may still take the timer; every call of that pass fails.
BeginPass(n) ==
    /\ pc[n] \in {"boot", "idle"}
    /\ pc' = [pc EXCEPT ![n] = "choose"]
    /\ snap' = [snap EXCEPT ![n] = [addr |-> addr[n], cfg |-> cfg[n]]]
    /\ todo' = [todo EXCEPT ![n] = {t \in Templates : cfg[n].tmpl[t] = "on"}]
    /\ mem' = [mem EXCEPT ![n] = file[n]]
    /\ UNCHANGED <<zone, nextId, addr, cfg, file, cur, cand, stop>>
    /\ NoFault

\* Go back to the loop over the templates.
NextTemplate(n) ==
    /\ pc' = [pc EXCEPT ![n] = "choose"]
    /\ cur' = [cur EXCEPT ![n] = NoTemplate]
    /\ cand' = [cand EXCEPT ![n] = 0]

\* No provider, no usable address, no valid name, or the listing failed:
\* the template is left for the next pass.
Skip(n, t) ==
    /\ pc[n] = "choose" /\ t \in todo[n]
    /\ todo' = [todo EXCEPT ![n] = @ \ {t}]
    /\ CallFault(n)
    /\ UNCHANGED <<zone, nextId, addr, cfg, file, pc, snap, cur, cand, mem, stop>>

\* Mutant: the content is not compared.
ReconcileByComment(n, t, r) ==
    \/ /\ r.comment = DesiredComment(n, t)
       /\ mem' = [mem EXCEPT ![n] = UpdateState(@, t, r.id)]
       /\ NextTemplate(n)
    \/ /\ r.comment # DesiredComment(n, t) /\ ~snap[n].cfg.dry
       /\ pc' = [pc EXCEPT ![n] = "update"]
       /\ cur' = [cur EXCEPT ![n] = t]
       /\ cand' = [cand EXCEPT ![n] = r.id]
       /\ UNCHANGED mem

\* reconcileExisting: record r, found in a listing, is to become the desired
\* one.  Content and comment are compared, nothing else.
ReconcileExisting(n, t, r) ==
    LET want == Desired(n, t, r.id)
        same == r.content = want.content /\ r.comment = want.comment
    IN  \/ /\ same
           /\ mem' = [mem EXCEPT ![n] = UpdateState(@, t, r.id)]
           /\ NextTemplate(n)
        \/ /\ ~same /\ snap[n].cfg.dry
           /\ NextTemplate(n)
           /\ UNCHANGED mem
        \/ /\ ~same /\ ~snap[n].cfg.dry
           /\ pc' = [pc EXCEPT ![n] = "update"]
           /\ cur' = [cur EXCEPT ![n] = t]
           /\ cand' = [cand EXCEPT ![n] = r.id]
           /\ UNCHANGED mem

\* The listing is back and shows a record that counts as owned.
FindOwned(n, t) ==
    /\ pc[n] = "choose" /\ t \in todo[n] /\ Live(n)
    /\ \E r \in FindOwnedRecord(ListRecords(zone, SlotOf[n][t]),
                                 SlotOf[n][t], OwnershipOf(n, t)) :
           ReconcileExisting(n, t, r)
    /\ todo' = [todo EXCEPT ![n] = @ \ {t}]
    /\ UNCHANGED <<zone, nextId, addr, cfg, file, snap, stop>>
    /\ NoFault

\* Mutant: the state file is trusted in place of the listing.
FindNoneInState(n, t) ==
    /\ pc[n] = "choose" /\ t \in todo[n] /\ Live(n)
    /\ \A e \in mem[n] : e.tmpl # t
    /\ pc' = [pc EXCEPT ![n] = "create"]
    /\ cur' = [cur EXCEPT ![n] = t]
    /\ todo' = [todo EXCEPT ![n] = @ \ {t}]
    /\ UNCHANGED <<zone, nextId, addr, cfg, file, snap, cand, mem, stop>>
    /\ NoFault

\* The listing shows none: create, or in dry-run mode say so.
FindNone(n, t) ==
    /\ pc[n] = "choose" /\ t \in todo[n] /\ Live(n)
    /\ FindOwnedRecord(ListRecords(zone, SlotOf[n][t]),
                       SlotOf[n][t], OwnershipOf(n, t)) = {}
    /\ IF snap[n].cfg.dry
       THEN NextTemplate(n)
       ELSE /\ pc' = [pc EXCEPT ![n] = "create"]
            /\ cur' = [cur EXCEPT ![n] = t]
            /\ UNCHANGED cand
    /\ todo' = [todo EXCEPT ![n] = @ \ {t}]
    /\ UNCHANGED <<zone, nextId, addr, cfg, file, snap, mem, stop>>
    /\ NoFault

\* The create call takes effect; its answer arrives, or is lost.
Create(n) ==
    LET rec == Desired(n, cur[n], NewId)
    IN /\ pc[n] = "create"
       /\ ~RefusedAsDuplicate(zone, rec)
       /\ zone' = AfterCreate(zone, rec)
       /\ nextId' = nextId + (IF Kind = "cloudflare" THEN 1 ELSE 0)
       /\ \/ /\ Live(n) /\ NoFault
             /\ mem' = [mem EXCEPT ![n] = UpdateState(@, cur[n], rec.id)]
          \/ CallFault(n) /\ UNCHANGED mem
       /\ NextTemplate(n)
       /\ UNCHANGED <<addr, cfg, file, snap, todo, stop>>

\* isDuplicateRecordError: on to handleDuplicateOnCreate.
CreateRefused(n) ==
    /\ pc[n] = "create" /\ Live(n)
    /\ RefusedAsDuplicate(zone, Desired(n, cur[n], NewId))
    /\ pc' = [pc EXCEPT ![n] = "requery"]
    /\ UNCHANGED <<zone, nextId, addr, cfg, file, snap, todo, cur, cand, mem, stop>>
    /\ NoFault

\* Mutant: the second listing is not narrowed to the name and type.
RequeryAnywhere(n) ==
    /\ pc[n] = "requery" /\ Live(n)
    /\ \/ \E r \in zone : ReconcileExisting(n, cur[n], r)
       \/ zone = {} /\ NextTemplate(n) /\ UNCHANGED mem
    /\ UNCHANGED <<zone, nextId, addr, cfg, file, snap, todo, stop>>
    /\ NoFault

\* handleDuplicateOnCreate: a record that counts as owned, or else the first
\* record of the name and type, whosever it is.
Requery(n) ==
    LET listed == ListRecords(zone, SlotOf[n][cur[n]])
        owned  == FindOwnedRecord(listed, SlotOf[n][cur[n]], OwnershipOf(n, cur[n]))
        candidates == IF owned # {} THEN owned ELSE listed
    IN /\ pc[n] = "requery" /\ Live(n)
       /\ \/ \E r \in candidates : ReconcileExisting(n, cur[n], r)
          \/ candidates = {} /\ NextTemplate(n) /\ UNCHANGED mem
       /\ UNCHANGED <<zone, nextId, addr, cfg, file, snap, todo, stop>>
       /\ NoFault

\* The update call takes effect; its answer arrives, or is lost.
Update(n) ==
    LET rec == Desired(n, cur[n], cand[n])
    IN /\ pc[n] = "update"
       /\ UpdateAccepted(zone, rec)
       /\ zone' = AfterUpdate(zone, rec)
       /\ \/ /\ Live(n) /\ NoFault
             /\ mem' = [mem EXCEPT ![n] = UpdateState(@, cur[n], rec.id)]
          \/ CallFault(n) /\ UNCHANGED mem
       /\ NextTemplate(n)
       /\ UNCHANGED <<nextId, addr, cfg, file, snap, todo, stop>>

\* The provider has no such record any more, or one identical to the new.
UpdateRefused(n) ==
    /\ pc[n] = "update" /\ Live(n)
    /\ ~UpdateAccepted(zone, Desired(n, cur[n], cand[n]))
    /\ NextTemplate(n)
    /\ UNCHANGED <<zone, nextId, addr, cfg, file, snap, todo, mem, stop>>
    /\ NoFault

\* A create, second listing or update fails and has no effect.
CallFails(n) ==
    /\ pc[n] \in {"create", "requery", "update"}
    /\ CallFault(n)
    /\ NextTemplate(n)
    /\ UNCHANGED <<zone, nextId, addr, cfg, file, snap, todo, mem, stop>>

\* All templates taken: prune, and replace the state file by a rename.
FinishPass(n) ==
    /\ pc[n] = "choose" /\ todo[n] = {}
    /\ \/ NoFault /\ file' = [file EXCEPT ![n] = PruneOrphans(mem[n], snap[n].cfg)]
       \/ Fault /\ UNCHANGED file
    /\ pc' = [pc EXCEPT ![n] = "idle"]
    /\ snap' = [snap EXCEPT ![n] = IdleSnapshot(n)]
    /\ mem' = [mem EXCEPT ![n] = {}]
    /\ UNCHANGED <<zone, nextId, addr, cfg, todo, cur, cand, stop>>

-----------------------------------------------------------------------------
(* Shutdown.                                                               *)

\* SIGINT or SIGTERM: the context of the pass is cancelled.
Signal(n) ==
    /\ pc[n] \notin {"cleanup", "stopped", "crashed"} /\ ~stop[n]
    /\ stop' = [stop EXCEPT ![n] = TRUE]
    /\ Change
    /\ UNCHANGED <<zone, nextId, addr, cfg, file, pc, snap, todo, cur, cand, mem>>

\* Mutant: the entries are taken by the provider's id.
BeginCleanupById(n) ==
    /\ pc[n] = "idle" /\ stop[n]
    /\ pc' = [pc EXCEPT ![n] = "cleanup"]
    /\ todo' = [todo EXCEPT ![n] = {e.id : e \in file[n]}]
    /\ mem' = [mem EXCEPT ![n] = file[n]]
    /\ UNCHANGED <<zone, nextId, addr, cfg, file, snap, cur, cand, stop>>
    /\ NoFault

\* The scheduler has returned.  Without cleanupOnShutdown that is all.
BeginCleanup(n) ==
    /\ pc[n] = "idle" /\ stop[n]
    /\ IF n \in CleanupOnShutdown
       THEN /\ pc' = [pc EXCEPT ![n] = "cleanup"]
            /\ todo' = [todo EXCEPT ![n] = {e.tmpl : e \in file[n]}]
            /\ mem' = [mem EXCEPT ![n] = file[n]]
       ELSE /\ pc' = [pc EXCEPT ![n] = "stopped"]
            /\ UNCHANGED <<todo, mem>>
    /\ UNCHANGED <<zone, nextId, addr, cfg, file, snap, cur, cand, stop>>
    /\ NoFault

\* Mutant: all records of the template's name and type are deleted.
CleanupDeleteByName(n, e) ==
    /\ pc[n] = "cleanup" /\ e \in mem[n] /\ e.tmpl \in todo[n]
    /\ zone' = zone \ At(zone, SlotOf[n][e.tmpl]) /\ NoFault
    /\ todo' = [todo EXCEPT ![n] = @ \ {e.tmpl}]
    /\ UNCHANGED <<nextId, addr, cfg, file, pc, snap, cur, cand, mem, stop>>

\* deleteStateRecord: the id of the state file is all that is known.  An
\* error is counted and the entry is gone all the same.
CleanupDelete(n, e) ==
    /\ pc[n] = "cleanup" /\ e \in mem[n] /\ e.tmpl \in todo[n]
    /\ \/ DeleteAccepted(zone, e.id) /\ zone' = AfterDelete(zone, e.id) /\ NoFault
       \/ ~DeleteAccepted(zone, e.id) /\ UNCHANGED zone /\ NoFault
       \/ UNCHANGED zone /\ Fault
    /\ todo' = [todo EXCEPT ![n] = @ \ {e.tmpl}]
    /\ UNCHANGED <<nextId, addr, cfg, file, pc, snap, cur, cand, mem, stop>>

\* The state is cleared, whatever became of the deletions.
FinishCleanup(n) ==
    /\ pc[n] = "cleanup" /\ todo[n] = {}
    /\ \/ NoFault /\ file' = [file EXCEPT ![n] = {}]
       \/ Fault /\ UNCHANGED file
    /\ pc' = [pc EXCEPT ![n] = "stopped"]
    /\ mem' = [mem EXCEPT ![n] = {}]
    /\ UNCHANGED <<zone, nextId, addr, cfg, snap, todo, cur, cand, stop>>

\* The process dies between two steps: memory is lost, the file stays.
Crash(n) ==
    /\ pc[n] \notin {"stopped", "crashed"}
    /\ pc' = [pc EXCEPT ![n] = "crashed"]
    /\ snap' = [snap EXCEPT ![n] = IdleSnapshot(n)]
    /\ todo' = [todo EXCEPT ![n] = {}]
    /\ cur' = [cur EXCEPT ![n] = NoTemplate]
    /\ cand' = [cand EXCEPT ![n] = 0]
    /\ mem' = [mem EXCEPT ![n] = {}]
    /\ Fault
    /\ UNCHANGED <<zone, nextId, addr, cfg, file, stop>>

Restart(n) ==
    /\ pc[n] \in {"stopped", "crashed"}
    /\ pc' = [pc EXCEPT ![n] = "boot"]
    /\ stop' = [stop EXCEPT ![n] = FALSE]
    /\ UNCHANGED <<zone, nextId, addr, cfg, file, snap, todo, cur, cand, mem>>
    /\ NoFault

-----------------------------------------------------------------------------
(* The environment.                                                        *)

\* The sources of the template resolve to another address of the host.
AddressChange(n, t) ==
    /\ \E c \in Published[n][t] \ {addr[n][t]} : addr' = [addr EXCEPT ![n][t] = c]
    /\ Change
    /\ UNCHANGED <<zone, nextId, cfg, file, pc, snap, todo, cur, cand, mem, stop>>

\* The reloaded configuration enables, disables or drops a template, or its
\* container starts or stops.
ConfigChange(n, t) ==
    /\ \E s \in Status \ {cfg[n].tmpl[t]} : cfg' = [cfg EXCEPT ![n].tmpl[t] = s]
    /\ Change
    /\ UNCHANGED <<zone, nextId, addr, file, pc, snap, todo, cur, cand, mem, stop>>

\* The reloaded configuration switches dryRun.
DryRunChange(n) ==
    /\ n \in DryRunnable
    /\ cfg' = [cfg EXCEPT ![n].dry = ~@]
    /\ Change
    /\ UNCHANGED <<zone, nextId, addr, file, pc, snap, todo, cur, cand, mem, stop>>

Agents == <<addr, cfg, file, pc, snap, todo, cur, cand, mem, stop>>

\* An operator deletes a record, changes the content of one, or adds one.
ForeignDelete == \E r \in zone : zone' = zone \ {r} /\ UNCHANGED nextId

ForeignEdit ==
    \E r \in zone : \E c \in ForeignContents \ {r.content} :
        LET new == [r EXCEPT !.content = c]
        IN /\ ~\E s \in zone : Identical(s, new)
           /\ zone' = (zone \ {r}) \cup {new}
           /\ UNCHANGED nextId

ForeignAdd ==
    \E s \in Slots, c \in ForeignContents, m \in ForeignComments :
        LET new == [id |-> NewId, slot |-> s, content |-> c, comment |-> m,
                    tags |-> {}, by |-> Foreign]
        IN /\ ~\E r \in zone : Identical(r, new)
           /\ zone' = zone \cup {new}
           /\ nextId' = nextId + (IF Kind = "cloudflare" THEN 1 ELSE 0)

Operator ==
    /\ ForeignDelete \/ ForeignEdit \/ ForeignAdd
    /\ Change
    /\ UNCHANGED Agents

-----------------------------------------------------------------------------
PassStep(n) ==
    \/ BeginPass(n)
    \/ \E t \in Templates : Skip(n, t) \/ FindOwned(n, t) \/ FindNone(n, t)
    \/ Create(n) \/ CreateRefused(n) \/ Requery(n)
    \/ Update(n) \/ UpdateRefused(n) \/ CallFails(n)
    \/ FinishPass(n)

CleanupStep(n) ==
    \/ BeginCleanup(n)
    \/ \E e \in mem[n] : CleanupDelete(n, e)
    \/ FinishCleanup(n)

EnvironmentStep(n) ==
    \/ Signal(n) \/ DryRunChange(n)
    \/ \E t \in Templates : AddressChange(n, t) \/ ConfigChange(n, t)

Next ==
    \/ \E n \in Nodes : \/ PassStep(n) \/ CleanupStep(n)
                         \/ Crash(n) \/ Restart(n)
                         \/ EnvironmentStep(n)
    \/ Operator

Spec == Init /\ [][Next]_vars

\* The scheduler starts pass after pass and the service manager restarts an
\* agent that died; nothing makes a call fail or the environment change.
Fairness ==
    \A n \in Nodes :
        /\ WF_vars(PassStep(n))
        /\ WF_vars(pc[n] = "crashed" /\ Restart(n))

FairSpec == Spec /\ Fairness

-----------------------------------------------------------------------------
(* Properties.                                                             *)

Own(n, t) == {r \in zone : r.by = <<n, t>>}

\* The agent of node n has taken a step.
Moved(n) == pc'[n] # pc[n] \/ todo'[n] # todo[n]

\* No other template of any node goes by this name.
ExclusiveSlot(n, t) ==
    \A w \in Writers \ {<<n, t>>} : SlotOf[w[1]][w[2]] # SlotOf[n][t]

Recognises(n, t, comment, tags) ==
    \/ MatchOwnershipByTags(tags, OwnershipOf(n, t))
    \/ MatchOwnershipByComment(comment, OwnershipOf(n, t))

\* The deployments in which comments tell records apart: every comment is a
\* JSON object that fits; no node takes a foreign record, or another writer's
\* at the same name, for its own; and who shares a name publishes what nobody
\* else does.  The run "rrset" shows what may happen elsewhere.
Separation ==
    /\ Kind = "cloudflare"
    /\ \A n \in Nodes, t \in Templates :
        /\ OwnershipOf(n, t) # {} /\ IsMap(OwnershipOf(n, t))
        /\ \A c \in ForeignComments : ~Recognises(n, t, c, {})
        /\ \A m \in Nodes, u \in Templates :
             /\ <<m, u>> # <<n, t>>
             /\ SlotOf[m][u] = SlotOf[n][t]
             => /\ ~Recognises(n, t, DesiredComment(m, u), DesiredTags(m, u))
                /\ Published[m][u] \cap Published[n][t] = {}
                /\ ForeignContents \cap Published[n][t] = {}

\* Whatever calls fail, replies are lost and crashes strike, the zone never
\* holds two records of one template of one node: the list before each create
\* finds what an earlier, seemingly failed create left (record.go:142-182).
OwnUnique == \A r, s \in zone : r.by = s.by /\ r.by # Foreign => r = s

\* The agent of a node changes or deletes no record another node wrote
\* (DesignSpecification 4.3 and 27.3; helpers.go:102-110).
NoClobber ==
    [][\A n \in Nodes : Moved(n) =>
         \A r \in zone \ zone' : r.by = Foreign \/ r.by[1] = n]_vars

\* What the state file points to, and so what a shutdown deletes by id alone
\* (cleanup.go:87-103), is a record of that very template or is gone.
EntriesOwned ==
    \A n \in Nodes : \A e \in file[n] \cup mem[n] :
        \A r \in zone : r.id = e.id => r.by = <<n, e.tmpl>>

\* While dryRun is set the agent leaves the zone as it is: in a pass by the
\* configuration it began with, at shutdown by the live one.
DryRunWritesNothing ==
    [][\A n \in Nodes :
         /\ Moved(n)
         /\ IF pc[n] = "cleanup" THEN cfg[n].dry ELSE snap[n].cfg.dry
         => zone' = zone]_vars

\* A template of a node is settled when it has exactly one record, with the
\* current address, and served when that address is to be found at its name.
Settled(n, t) == \E r \in Own(n, t) : Own(n, t) = {r} /\ r.content = addr[n][t]

Served(n, t) == \E r \in At(zone, SlotOf[n][t]) : r.content = addr[n][t]

\* The templates the agent is to look after: enabled, and the agent is
\* neither in dry-run mode nor told to stop.
Active(n, t) == cfg[n].tmpl[t] = "on" /\ ~cfg[n].dry /\ ~stop[n]

\* When the environment rests, each node brings its templates to their
\* desired state, whatever failed, was lost or crashed on the way
\* (DesignSpecification 4.4).
Converges ==
    \A n \in Nodes, t \in Templates : <>[](Active(n, t) => Settled(n, t))

\* The same where records of the same content may have been there before:
\* the address is published, if not always by a record the node owns, as a
\* foreign record with the new content makes the provider refuse the update
\* of the node's own, which stays behind (record.go:219-223).
Serves ==
    \A n \in Nodes, t \in Templates : <>[](Active(n, t) => Served(n, t))

\* Passes are idempotent: in the end they write nothing any more
\* (DesignSpecification 4.4).
Quiesces == <>[][zone' = zone]_vars

-----------------------------------------------------------------------------
(* The promise (DesiredState) in terms of the calls.                       *)

Calling == {"create", "requery", "update"}

\* The templates a pass has still to bring about: none in dry-run mode.
Outstanding(n) ==
    IF snap[n].cfg.dry THEN {}
    ELSE IF pc[n] = "choose" THEN todo[n]
    ELSE IF pc[n] \in Calling THEN todo[n] \cup {cur[n]}
    ELSE {}

WantedTemplates(n) ==
    IF cfg[n].dry THEN {} ELSE {t \in Templates : cfg[n].tmpl[t] = "on"}

\* What stands for the variables of DesiredState.
Wanted  == [n \in Nodes |-> WantedTemplates(n)]
Due     == [n \in Nodes |-> {<<t, snap[n].addr[t]>> : t \in Outstanding(n)}]
Held    == [n \in Nodes |-> [t \in Templates |-> {r.content : r \in Own(n, t)}]]
Unowned == {r \in zone : r.by = Foreign}
Leaving == {n \in Nodes : pc[n] = "cleanup"}

Promise == INSTANCE DesiredState WITH
    Exclusive <- {w \in Writers : ExclusiveSlot(w[1], w[2])},
    wanted    <- Wanted,
    due       <- Due,
    held      <- Held,
    foreign   <- Unowned,
    leaving   <- Leaving

\* Whatever the interleaving of nodes, crashes and lost answers, the calls of
\* the agents amount to the steps of DesiredState: each template is written at
\* most once in a pass, with the address its pass saw and only if it is
\* enabled and the pass is no dry run, by a record that moves in one step.
KeepsPromise == Promise!Spec

-----------------------------------------------------------------------------
(* The inductive invariant behind OwnUnique, NoClobber and EntriesOwned.   *)

Addresses ==
    \A n \in Nodes, t \in Templates :
        addr[n][t] \in Published[n][t] /\ snap[n].addr[t] \in Published[n][t]

\* A record looks as its author makes it; only an operator can have changed
\* its content.
RecordShape(r) ==
    \/ /\ r.by = Foreign
       /\ r.content \in ForeignContents
       /\ r.comment \in ForeignComments
       /\ r.tags = {}
    \/ \E n \in Nodes, t \in Templates :
         /\ r.by = <<n, t>>
         /\ r.slot = SlotOf[n][t]
         /\ r.content \in Published[n][t] \cup ForeignContents
         /\ r.comment = DesiredComment(n, t)
         /\ r.tags = DesiredTags(n, t)

ZoneShape == \A r \in zone : r.id < nextId /\ RecordShape(r)

UniqueIds == \A r, s \in zone : r.id = s.id => r = s

\* From the listing that showed none until the create: there is none.
HoldsNone ==
    \A n \in Nodes : pc[n] \in {"create", "requery"} =>
        cur[n] \in Templates /\ Own(n, cur[n]) = {}

\* A duplicate is met only where the name is the template's own.
RequeryExclusive ==
    \A n \in Nodes : pc[n] = "requery" => ExclusiveSlot(n, cur[n])

\* The id an update will write to is that of the template's own record, of a
\* foreign one it adopts, or of none any more.
Adoptable(n, t, r) ==
    /\ r.by = Foreign
    /\ r.slot = SlotOf[n][t]
    /\ ExclusiveSlot(n, t)
    /\ Own(n, t) = {}

CandidateMine ==
    \A n \in Nodes : pc[n] = "update" =>
        /\ cur[n] \in Templates
        /\ \A r \in zone : r.id = cand[n] =>
              r.by = <<n, cur[n]>> \/ Adoptable(n, cur[n], r)

\* Ids are not given out twice, so an id once written down stays right.
IdsKnown ==
    \A n \in Nodes :
        /\ cand[n] < nextId
        /\ \A e \in file[n] \cup mem[n] : e.id < nextId

Inductive ==
    /\ TypeOK /\ Addresses
    /\ ZoneShape /\ UniqueIds /\ OwnUnique
    /\ HoldsNone /\ RequeryExclusive /\ CandidateMine
    /\ IdsKnown /\ EntriesOwned
=============================================================================
