-------------------------- MODULE ReconcileProofs --------------------------
(***************************************************************************)
(* Proofs about Reconcile, for any nodes, templates, names and contents.   *)
(* For comments that satisfy Separation: the invariant Inductive, and from *)
(* it OwnUnique, EntriesOwned and NoClobber.  For any provider and any     *)
(* comments: types and dry runs.  For the providers that write a record    *)
(* set as a whole and any comments: OwnUnique, and NoClobber where names   *)
(* are not shared.                                                         *)
(***************************************************************************)
EXTENDS Reconcile, TLAPS

-----------------------------------------------------------------------------
(* Recognition.                                                            *)

\* A node recognises the comment it writes: it holds the ownership pairs.
LEMMA SelfMatch ==
    ASSUME Separation, NEW n \in Nodes, NEW t \in Templates
    PROVE  MatchOwnershipByComment(DesiredComment(n, t), OwnershipOf(n, t))
<1> DEFINE c == DesiredComment(n, t)
<1>1. OwnershipOf(n, t) # {} /\ IsMap(OwnershipOf(n, t))
  BY DEF Separation
<1>2. c.form = "json" /\ OwnershipOf(n, t) = c.pairs
  BY <1>1 DEF OwnershipOf, ParseCommentAsOwnership
<1>3. MatchOwnershipByCommentJSON(c, OwnershipOf(n, t))
  BY <1>1, <1>2 DEF MatchOwnershipByCommentJSON, IsMap
<1> QED
  BY <1>1, <1>2, <1>3 DEF MatchOwnershipByComment

\* Among the records that look as their authors make them, a node recognises
\* at its name those it wrote itself, and no other.
LEMMA RecognisedIsOwn ==
    ASSUME Separation, NEW n \in Nodes, NEW t \in Templates,
           NEW r, RecordShape(r), r.slot = SlotOf[n][t],
           Recognises(n, t, r.comment, r.tags)
    PROVE  r.by = <<n, t>>
<1>1. CASE r.by = Foreign /\ r.comment \in ForeignComments /\ r.tags = {}
  BY <1>1 DEF Separation
<1>2. CASE \E m \in Nodes, u \in Templates :
             /\ r.by = <<m, u>> /\ r.slot = SlotOf[m][u]
             /\ r.comment = DesiredComment(m, u) /\ r.tags = DesiredTags(m, u)
  <2>1. PICK m \in Nodes, u \in Templates :
             /\ r.by = <<m, u>> /\ r.slot = SlotOf[m][u]
             /\ r.comment = DesiredComment(m, u) /\ r.tags = DesiredTags(m, u)
    BY <1>2
  <2>2. Recognises(n, t, DesiredComment(m, u), DesiredTags(m, u))
    BY <2>1
  <2>3. <<m, u>> = <<n, t>>
    BY <2>1, <2>2 DEF Separation
  <2> QED
    BY <2>1, <2>3
<1> QED
  BY <1>1, <1>2 DEF RecordShape

\* Cloudflare returns the records of a name as they are.
LEMMA ListingIsZone ==
    ASSUME Separation, zone \subseteq Record, NEW s
    PROVE  ListRecords(zone, s) = At(zone, s)
<1>1. ASSUME NEW r \in zone PROVE Returned(zone, r) = r
  <2>1. Kind = "cloudflare"
    BY DEF Separation
  <2>2. Returned(zone, r) = [r EXCEPT !.comment = r.comment, !.tags = r.tags]
    BY <2>1 DEF Returned
  <2>3. r \in Record
    BY <1>1
  <2> QED
    BY <2>2, <2>3 DEF Record
<1> QED
  BY <1>1 DEF ListRecords, At

Listing(n, t) ==
    FindOwnedRecord(ListRecords(zone, SlotOf[n][t]), SlotOf[n][t], OwnershipOf(n, t))

\* What a listing offers as owned is in the zone and the node's own.
LEMMA ListedIsOwn ==
    ASSUME Separation, TypeOK, ZoneShape,
           NEW n \in Nodes, NEW t \in Templates, NEW r \in Listing(n, t)
    PROVE  r \in zone /\ r.slot = SlotOf[n][t] /\ r.by = <<n, t>>
<1>1. OwnershipOf(n, t) # {}
  BY DEF Separation
<1>2. ListRecords(zone, SlotOf[n][t]) = At(zone, SlotOf[n][t])
  BY ListingIsZone DEF TypeOK
<1>3. /\ r \in At(zone, SlotOf[n][t])
      /\ Recognises(n, t, r.comment, r.tags)
  BY <1>1, <1>2 DEF Listing, FindOwnedRecord, Recognises
<1>4. r \in zone /\ r.slot = SlotOf[n][t] /\ RecordShape(r)
  BY <1>3 DEF At, ZoneShape
<1> QED
  BY <1>3, <1>4, RecognisedIsOwn

\* When a listing offers none, there is none.
LEMMA NoneListedIsNone ==
    ASSUME Separation, TypeOK, ZoneShape,
           NEW n \in Nodes, NEW t \in Templates, Listing(n, t) = {}
    PROVE  Own(n, t) = {}
<1> SUFFICES ASSUME NEW r \in zone, r.by = <<n, t>> PROVE FALSE
  BY DEF Own
<1>1. <<n, t>> # Foreign
  BY ReconcileAssumption DEF Writers
<1>2. r.slot = SlotOf[n][t] /\ r.comment = DesiredComment(n, t)
  <2>1. RecordShape(r)
    BY DEF ZoneShape
  <2>2. PICK m \in Nodes, u \in Templates :
          /\ r.by = <<m, u>> /\ r.slot = SlotOf[m][u]
          /\ r.comment = DesiredComment(m, u)
    BY <1>1, <2>1 DEF RecordShape
  <2>3. m = n /\ u = t
    BY <2>2
  <2> QED
    BY <2>2, <2>3
<1>3. MatchOwnershipByComment(r.comment, OwnershipOf(n, t))
  BY <1>2, SelfMatch
<1>4. ListRecords(zone, SlotOf[n][t]) = At(zone, SlotOf[n][t])
  BY ListingIsZone DEF TypeOK
<1>5. r \in At(zone, SlotOf[n][t])
  BY <1>2 DEF At
<1>6. r \in Listing(n, t)
  BY <1>2, <1>3, <1>4, <1>5 DEF Listing, FindOwnedRecord
<1> QED
  BY <1>6

-----------------------------------------------------------------------------
(* Types.                                                                  *)

\* The record a node wants is a record.
LEMMA DesiredTyped ==
    ASSUME TypeOK, NEW n \in Nodes, NEW t \in Templates, NEW id \in Nat
    PROVE  Desired(n, t, id) \in Record
<1>1. CommentOf[n][t] \in UserComment /\ TagsOf[n][t] \in SUBSET Pairs
  BY ReconcileAssumption
<1>2. DesiredComment(n, t) \in Comment
  BY <1>1 DEF DesiredComment, BuildOwnershipComment, UserComment, Comment
<1>3. DesiredTags(n, t) \in SUBSET Pairs
  BY <1>1 DEF DesiredTags
<1>4. SlotOf[n][t] \in Slots
  BY ReconcileAssumption
<1>5. snap[n].addr[t] \in Contents
  BY DEF TypeOK, Snapshot
<1> QED
  BY <1>2, <1>3, <1>4, <1>5 DEF Desired, Record, Writers

\* What an agent remembers between passes is of the right type and
\* publishable.
LEMMA IdleSnapshotTyped ==
    ASSUME NEW n \in Nodes
    PROVE  /\ IdleSnapshot(n) \in Snapshot
           /\ \A t \in Templates : IdleSnapshot(n).addr[t] \in Published[n][t]
<1>1. ASSUME NEW t \in Templates
      PROVE  /\ (CHOOSE c \in Published[n][t] : TRUE) \in Published[n][t]
             /\ Published[n][t] \subseteq Contents
  BY ReconcileAssumption
<1> QED
  BY <1>1 DEF IdleSnapshot, Snapshot, Config, Status

\* Noting an id in the state file adds that entry and no other.
LEMMA UpdateStateTyped ==
    ASSUME NEW entries \in SUBSET Entry, NEW t \in Templates, NEW id \in Nat
    PROVE  /\ UpdateState(entries, t, id) \in SUBSET Entry
           /\ \A e \in UpdateState(entries, t, id) :
                 e \in entries \/ (e.tmpl = t /\ e.id = id)
BY DEF UpdateState, Entry

-----------------------------------------------------------------------------
(* The invariant, node by node.                                            *)

NodeInv(n) ==
    /\ pc[n] \in {"create", "requery"} => cur[n] \in Templates /\ Own(n, cur[n]) = {}
    /\ pc[n] = "requery" => ExclusiveSlot(n, cur[n])
    /\ pc[n] = "update" =>
         /\ cur[n] \in Templates
         /\ \A r \in zone : r.id = cand[n] =>
               r.by = <<n, cur[n]>> \/ Adoptable(n, cur[n], r)
    /\ cand[n] < nextId
    /\ \A e \in file[n] \cup mem[n] :
         /\ e.id < nextId
         /\ \A r \in zone : r.id = e.id => r.by = <<n, e.tmpl>>

ZoneInv == ZoneShape /\ UniqueIds /\ OwnUnique

\* The invariant is a part about the zone and a part for each node.
LEMMA InductiveByNode ==
    Inductive <=> TypeOK /\ Addresses /\ ZoneInv /\ \A n \in Nodes : NodeInv(n)
BY DEF Inductive, ZoneInv, NodeInv, HoldsNone, RequeryExclusive, CandidateMine,
       IdsKnown, EntriesOwned

\* The same after a step.
LEMMA PrimedByNode ==
    ASSUME TypeOK', Addresses', ZoneInv', \A n \in Nodes : NodeInv(n)'
    PROVE  Inductive'
BY DEF Inductive, ZoneInv, NodeInv, HoldsNone, RequeryExclusive, CandidateMine,
       IdsKnown, EntriesOwned

\* The invariant holds at first.
LEMMA InitInductive == Init => Inductive
<1> SUFFICES ASSUME Init PROVE Inductive
  OBVIOUS
<1>1. TypeOK
  BY ReconcileAssumption, IdleSnapshotTyped
     DEF Init, TypeOK, Config, Status, Places
<1>2. Addresses
  BY IdleSnapshotTyped DEF Init, Addresses
<1>3. ZoneInv
  BY DEF Init, ZoneInv, ZoneShape, UniqueIds, OwnUnique
<1>4. ASSUME NEW n \in Nodes PROVE NodeInv(n)
  BY DEF Init, NodeInv
<1> QED
  BY <1>1, <1>2, <1>3, <1>4, InductiveByNode

\* A step that leaves the zone alone has only its own node to answer for.
LEMMA ZoneKept ==
    ASSUME Inductive, UNCHANGED <<zone, nextId>>, TypeOK', Addresses',
           NEW n \in Nodes, NodeInv(n)',
           \A m \in Nodes \ {n} :
               /\ pc'[m] = pc[m] /\ cur'[m] = cur[m] /\ cand'[m] = cand[m]
               /\ file'[m] = file[m] /\ mem'[m] = mem[m]
    PROVE  Inductive'
<1>1. ZoneInv'
  BY InductiveByNode DEF ZoneInv, ZoneShape, UniqueIds, OwnUnique
<1>2. ASSUME NEW m \in Nodes \ {n} PROVE NodeInv(m)'
  <2>1. NodeInv(m)
    BY InductiveByNode
  <2> QED
    BY <2>1 DEF NodeInv, Own, Adoptable
<1>3. \A m \in Nodes : NodeInv(m)'
  BY <1>2
<1> QED
  BY <1>1, <1>3, PrimedByNode

-----------------------------------------------------------------------------
(* Steps that leave the zone alone.                                        *)

\* A pass begins with the file and the addresses the invariant speaks of.
LEMMA BeginPassStep ==
    ASSUME Inductive, NEW n \in Nodes, BeginPass(n)
    PROVE  Inductive'
<1>1. TypeOK /\ Addresses /\ NodeInv(n)
  BY InductiveByNode
<1>2. TypeOK'
  BY <1>1 DEF TypeOK, BeginPass, NoFault, Snapshot, Places
<1>3. Addresses'
  BY <1>1 DEF TypeOK, BeginPass, Addresses
<1>4. NodeInv(n)'
  BY <1>1 DEF TypeOK, BeginPass, NodeInv
<1> QED
  BY <1>2, <1>3, <1>4, ZoneKept DEF BeginPass, TypeOK, Inductive

\* A template that is skipped leaves nothing behind but the count of faults.
LEMMA SkipStep ==
    ASSUME Inductive, NEW n \in Nodes, NEW t \in Templates, Skip(n, t)
    PROVE  Inductive'
<1>1. TypeOK /\ Addresses /\ NodeInv(n)
  BY InductiveByNode
<1>2. TypeOK'
  BY <1>1, ReconcileAssumption DEF TypeOK, Skip, CallFault, Fault
<1>3. Addresses'
  BY <1>1 DEF Skip, Addresses
<1>4. NodeInv(n)'
  BY <1>1 DEF Skip, NodeInv, Own, Adoptable
<1> QED
  BY <1>2, <1>3, <1>4, ZoneKept DEF Skip

\* What reconcileExisting leads to from a record that is the template's own,
\* or a foreign one it may adopt.
LEMMA ReconcileExistingStep ==
    ASSUME Separation, Inductive, NEW n \in Nodes, NEW t \in Templates, NEW r \in zone,
           r.by = <<n, t>> \/ Adoptable(n, t, r),
           ReconcileExisting(n, t, r),
           todo' = [todo EXCEPT ![n] = todo[n] \ {t}] \/ UNCHANGED todo,
           UNCHANGED <<zone, nextId, addr, cfg, file, snap, stop, faults, changes>>
    PROVE  Inductive'
<1> DEFINE want == Desired(n, t, r.id)
           same == r.content = want.content /\ r.comment = want.comment
<1>1. TypeOK /\ Addresses /\ ZoneInv /\ NodeInv(n)
  BY InductiveByNode
<1>2. r.id \in Nat /\ r.id < nextId /\ RecordShape(r) /\ nextId \in Nat
  BY <1>1 DEF TypeOK, Record, ZoneInv, ZoneShape
<1>3. Addresses'
  BY <1>1 DEF Addresses
<1>4. CASE /\ same /\ NextTemplate(n)
           /\ mem' = [mem EXCEPT ![n] = UpdateState(mem[n], t, r.id)]
  <2>1. r.by = <<n, t>>
    <3>1. SUFFICES ASSUME Adoptable(n, t, r) PROVE FALSE
      OBVIOUS
    <3>2. r.comment \in ForeignComments
      BY <3>1, <1>2, ReconcileAssumption DEF Adoptable, RecordShape, Writers
    <3>3. r.comment = DesiredComment(n, t)
      BY <1>4 DEF Desired
    <3> QED
      BY <3>2, <3>3, SelfMatch DEF Separation, Recognises
  <2>2. mem[n] \in SUBSET Entry
    BY <1>1 DEF TypeOK
  <2>3. /\ UpdateState(mem[n], t, r.id) \in SUBSET Entry
        /\ \A e \in UpdateState(mem[n], t, r.id) :
              e \in mem[n] \/ (e.tmpl = t /\ e.id = r.id)
    BY <2>2, <1>2, UpdateStateTyped
  <2>4. TypeOK'
    BY <1>1, <1>4, <2>3 DEF TypeOK, NextTemplate, Places
  <2>5. \A q \in zone : q.id = r.id => q.by = <<n, t>>
    BY <1>1, <2>1 DEF ZoneInv, UniqueIds
  <2>6. mem'[n] = UpdateState(mem[n], t, r.id) /\ pc'[n] = "choose" /\ cand'[n] = 0
    BY <1>1, <1>4 DEF TypeOK, NextTemplate
  <2>7. NodeInv(n)'
    BY <1>1, <1>2, <2>3, <2>5, <2>6 DEF NodeInv
  <2> QED
    BY <1>1, <1>3, <1>4, <2>4, <2>7, ZoneKept DEF NextTemplate, TypeOK
<1>5. CASE NextTemplate(n) /\ UNCHANGED mem
  <2>1. TypeOK'
    BY <1>1, <1>5 DEF TypeOK, NextTemplate, Places
  <2>2. NodeInv(n)'
    BY <1>1, <1>2, <1>5 DEF NodeInv, NextTemplate, TypeOK
  <2> QED
    BY <1>1, <1>3, <1>5, <2>1, <2>2, ZoneKept DEF NextTemplate, TypeOK
<1>6. CASE /\ pc' = [pc EXCEPT ![n] = "update"]
           /\ cur' = [cur EXCEPT ![n] = t]
           /\ cand' = [cand EXCEPT ![n] = r.id]
           /\ UNCHANGED mem
  <2>1. TypeOK'
    BY <1>1, <1>2, <1>6 DEF TypeOK, Places
  <2>2. pc'[n] = "update" /\ cur'[n] = t /\ cand'[n] = r.id
    BY <1>1, <1>6 DEF TypeOK
  <2>3. \A q \in zone : q.id = r.id => q = r
    BY <1>1 DEF ZoneInv, UniqueIds
  <2>4. NodeInv(n)'
    BY <1>1, <1>2, <1>6, <2>2, <2>3 DEF NodeInv, Own, Adoptable
  <2> QED
    BY <1>1, <1>3, <1>6, <2>1, <2>4, ZoneKept DEF TypeOK
<1> QED
  BY <1>4, <1>5, <1>6 DEF ReconcileExisting

\* A listing that shows an owned record shows the template's own.
LEMMA FindOwnedStep ==
    ASSUME Separation, Inductive, NEW n \in Nodes, NEW t \in Templates, FindOwned(n, t)
    PROVE  Inductive'
<1>1. PICK r \in Listing(n, t) : ReconcileExisting(n, t, r)
  BY DEF FindOwned, Listing
<1>2. r \in zone /\ r.by = <<n, t>>
  BY ListedIsOwn, InductiveByNode DEF ZoneInv
<1> QED
  BY <1>1, <1>2, ReconcileExistingStep DEF FindOwned, NoFault

\* A listing that shows none proves that the template has no record.
LEMMA FindNoneStep ==
    ASSUME Separation, Inductive, NEW n \in Nodes, NEW t \in Templates, FindNone(n, t)
    PROVE  Inductive'
<1>1. TypeOK /\ Addresses /\ ZoneShape /\ NodeInv(n)
  BY InductiveByNode DEF ZoneInv
<1>2. Own(n, t) = {}
  BY <1>1, NoneListedIsNone DEF FindNone, Listing
<1>3. TypeOK'
  <2>1. /\ pc' \in [Nodes -> Places]
        /\ cur' \in [Nodes -> Templates \cup {NoTemplate}]
        /\ cand' \in [Nodes -> Nat]
    <3>0. \/ NextTemplate(n)
          \/ /\ pc' = [pc EXCEPT ![n] = "create"]
             /\ cur' = [cur EXCEPT ![n] = t]
             /\ UNCHANGED cand
      BY Zenon DEF FindNone
    <3>1. CASE NextTemplate(n)
      BY <1>1, <3>1 DEF TypeOK, NextTemplate, Places
    <3>2. CASE /\ pc' = [pc EXCEPT ![n] = "create"]
               /\ cur' = [cur EXCEPT ![n] = t]
               /\ UNCHANGED cand
      BY <1>1, <3>2 DEF TypeOK, Places
    <3> QED
      BY <3>0, <3>1, <3>2
  <2> QED
    BY <1>1, <2>1 DEF TypeOK, FindNone, NoFault
<1>4. Addresses'
  BY <1>1 DEF FindNone, Addresses
<1>5. NodeInv(n)'
  <2>1. CASE snap[n].cfg.dry
    BY <1>1, <2>1 DEF FindNone, NextTemplate, NodeInv, TypeOK, Own, Adoptable
  <2>2. CASE ~snap[n].cfg.dry
    BY <1>1, <1>2, <2>2 DEF FindNone, NodeInv, TypeOK, Own, Adoptable
  <2> QED
    BY <2>1, <2>2
<1> QED
  BY <1>1, <1>3, <1>4, <1>5, ZoneKept DEF FindNone, NextTemplate, TypeOK

\* A record identical to the one to create, when the template has none, is
\* foreign and at a name of the template's own.
LEMMA DuplicateIsForeign ==
    ASSUME Separation, Inductive, NEW n \in Nodes, NEW t \in Templates,
           Own(n, t) = {}, NEW id, RefusedAsDuplicate(zone, Desired(n, t, id))
    PROVE  ExclusiveSlot(n, t)
<1>1. TypeOK /\ Addresses /\ ZoneShape
  BY InductiveByNode DEF ZoneInv
<1>2. PICK r \in zone : r.slot = SlotOf[n][t] /\ r.content = snap[n].addr[t]
  BY DEF RefusedAsDuplicate, Identical, Desired
<1>3. RecordShape(r) /\ r.by # <<n, t>>
  BY <1>1 DEF ZoneShape, Own
<1>4. r.content \in Published[n][t]
  BY <1>1, <1>2 DEF Addresses
<1> SUFFICES ASSUME ~ExclusiveSlot(n, t) PROVE FALSE
  OBVIOUS
<1>5. PICK m \in Nodes, u \in Templates :
         <<m, u>> # <<n, t>> /\ SlotOf[m][u] = SlotOf[n][t]
  BY DEF ExclusiveSlot, Writers
<1>6. ForeignContents \cap Published[n][t] = {}
  BY <1>5 DEF Separation
<1>7. r.content \notin ForeignContents
  BY <1>4, <1>6
<1>8. PICK k \in Nodes, v \in Templates :
         r.by = <<k, v>> /\ r.slot = SlotOf[k][v] /\ r.content \in Published[k][v]
  BY <1>3, <1>7 DEF RecordShape
<1>9. Published[k][v] \cap Published[n][t] = {}
  BY <1>2, <1>3, <1>8 DEF Separation
<1> QED
  BY <1>4, <1>8, <1>9

\* A create refused as a duplicate met a foreign record at a name of the
\* template's own.
LEMMA CreateRefusedStep ==
    ASSUME Separation, Inductive, NEW n \in Nodes, CreateRefused(n)
    PROVE  Inductive'
<1>1. TypeOK /\ Addresses /\ NodeInv(n)
  BY InductiveByNode
<1>2. cur[n] \in Templates /\ Own(n, cur[n]) = {}
  BY <1>1 DEF CreateRefused, NodeInv
<1>3. ExclusiveSlot(n, cur[n])
  BY <1>2, DuplicateIsForeign DEF CreateRefused
<1>4. TypeOK'
  BY <1>1 DEF TypeOK, CreateRefused, NoFault, Places
<1>5. Addresses'
  BY <1>1 DEF CreateRefused, Addresses
<1>6. NodeInv(n)'
  BY <1>1, <1>2, <1>3 DEF CreateRefused, NodeInv, TypeOK, Own
<1> QED
  BY <1>1, <1>4, <1>5, <1>6, ZoneKept DEF CreateRefused, TypeOK

\* Back at the loop over the templates with nothing else changed.
LEMMA NextTemplateStep ==
    ASSUME Inductive, NEW n \in Nodes, NextTemplate(n),
           faults' \in 0..MaxFaults, changes' \in 0..MaxChanges,
           UNCHANGED <<zone, nextId, addr, cfg, file, snap, todo, mem, stop>>
    PROVE  Inductive'
<1>1. TypeOK /\ Addresses /\ NodeInv(n) /\ nextId \in Nat \ {0}
  BY InductiveByNode DEF TypeOK
<1>2. TypeOK'
  BY <1>1 DEF TypeOK, NextTemplate, Places
<1>3. Addresses'
  BY <1>1 DEF Addresses
<1>4. NodeInv(n)'
  BY <1>1 DEF NodeInv, NextTemplate, TypeOK
<1> QED
  BY <1>1, <1>2, <1>3, <1>4, ZoneKept DEF NextTemplate, TypeOK

\* The counts of faults and changes stay within their bounds.
LEMMA FaultTyped ==
    ASSUME TypeOK, NEW n \in Nodes, CallFault(n) \/ NoFault \/ Fault \/ Change
    PROVE  faults' \in 0..MaxFaults /\ changes' \in 0..MaxChanges
BY ReconcileAssumption DEF TypeOK, CallFault, NoFault, Fault, Change

\* After a refused create, what the second listing leads to is the template's
\* own record or a foreign one under its exclusive name.
LEMMA RequeryStep ==
    ASSUME Separation, Inductive, NEW n \in Nodes, Requery(n)
    PROVE  Inductive'
<1> DEFINE t == cur[n]
           listed == ListRecords(zone, SlotOf[n][t])
<1>1. TypeOK /\ ZoneShape /\ NodeInv(n)
  BY InductiveByNode DEF ZoneInv
<1>2. t \in Templates /\ Own(n, t) = {} /\ ExclusiveSlot(n, t)
  BY <1>1 DEF Requery, NodeInv
<1>3. listed = At(zone, SlotOf[n][t])
  BY <1>1, ListingIsZone DEF TypeOK
<1>4. ASSUME NEW r \in listed PROVE r \in zone /\ Adoptable(n, t, r)
  <2>1. r \in zone /\ r.slot = SlotOf[n][t] /\ RecordShape(r)
    BY <1>1, <1>3 DEF At, ZoneShape
  <2>2. r.by # <<n, t>>
    BY <1>2, <2>1 DEF Own
  <2>3. r.by = Foreign
    BY <1>2, <2>1, <2>2 DEF RecordShape, ExclusiveSlot, Writers
  <2> QED
    BY <1>2, <2>1, <2>3 DEF Adoptable
<1>5. CASE \E r \in listed : ReconcileExisting(n, t, r)
  <2>1. PICK r \in listed : ReconcileExisting(n, t, r)
    BY <1>5
  <2> QED
    BY <1>2, <1>4, <2>1, ReconcileExistingStep DEF Requery, NoFault
<1>6. CASE NextTemplate(n) /\ UNCHANGED mem
  BY <1>1, <1>6, FaultTyped, NextTemplateStep DEF Requery
<1>7. FindOwnedRecord(listed, SlotOf[n][t], OwnershipOf(n, t)) \subseteq listed
  BY DEF FindOwnedRecord
<1>8. \/ \E r \in listed : ReconcileExisting(n, t, r)
      \/ NextTemplate(n) /\ UNCHANGED mem
  <2> DEFINE owned == FindOwnedRecord(listed, SlotOf[n][t], OwnershipOf(n, t))
             candidates == IF owned # {} THEN owned ELSE listed
  <2>1. \/ \E r \in candidates : ReconcileExisting(n, t, r)
        \/ candidates = {} /\ NextTemplate(n) /\ UNCHANGED mem
    BY DEF Requery
  <2>2. candidates \subseteq listed
    BY <1>7
  <2> HIDE DEF candidates, listed
  <2> QED
    BY <2>1, <2>2
<1> QED
  BY <1>5, <1>6, <1>8

\* A refused update changes nothing but the place of the agent.
LEMMA UpdateRefusedStep ==
    ASSUME Inductive, NEW n \in Nodes, UpdateRefused(n)
    PROVE  Inductive'
BY InductiveByNode, FaultTyped, NextTemplateStep DEF UpdateRefused

\* Nor does a failed call.
LEMMA CallFailsStep ==
    ASSUME Inductive, NEW n \in Nodes, CallFails(n)
    PROVE  Inductive'
BY InductiveByNode, FaultTyped, NextTemplateStep DEF CallFails

\* Pruning and saving adds no entry to the state file.
LEMMA FinishPassStep ==
    ASSUME Inductive, NEW n \in Nodes, FinishPass(n)
    PROVE  Inductive'
<1>1. TypeOK /\ Addresses /\ NodeInv(n)
  BY InductiveByNode
<1>2. PruneOrphans(mem[n], snap[n].cfg) \subseteq mem[n]
  BY DEF PruneOrphans
<1>3. faults' \in 0..MaxFaults /\ changes' \in 0..MaxChanges
  BY <1>1, FaultTyped DEF FinishPass
<1>4. file'[n] \subseteq mem[n] \cup file[n] /\ file' \in [Nodes -> SUBSET Entry]
  BY <1>1, <1>2 DEF FinishPass, TypeOK
<1>5. TypeOK'
  BY <1>1, <1>3, <1>4, IdleSnapshotTyped DEF FinishPass, TypeOK, Places
<1>6. Addresses'
  BY <1>1, IdleSnapshotTyped DEF FinishPass, Addresses, TypeOK
<1>7. NodeInv(n)'
  BY <1>1, <1>4 DEF FinishPass, NodeInv, TypeOK
<1> QED
  BY <1>1, <1>5, <1>6, <1>7, ZoneKept DEF FinishPass, TypeOK

\* The signal, and the begin and the end of a cleanup.
LEMMA ShutdownStep ==
    ASSUME Inductive, NEW n \in Nodes,
           Signal(n) \/ BeginCleanup(n) \/ FinishCleanup(n)
    PROVE  Inductive'
<1>1. TypeOK /\ Addresses /\ NodeInv(n)
  BY InductiveByNode
<1>2. Addresses'
  BY <1>1 DEF Addresses, Signal, BeginCleanup, FinishCleanup
<1>3. faults' \in 0..MaxFaults /\ changes' \in 0..MaxChanges
  BY <1>1, FaultTyped DEF Signal, BeginCleanup, FinishCleanup
<1>4. CASE Signal(n)
  <2>1. TypeOK' /\ NodeInv(n)'
    BY <1>1, <1>3, <1>4 DEF Signal, TypeOK, NodeInv, Own, Adoptable
  <2> QED
    BY <1>2, <1>4, <2>1, ZoneKept DEF Signal
<1>5. CASE BeginCleanup(n)
  <2>0. /\ {e.tmpl : e \in file[n]} \subseteq Templates
        /\ file[n] \in SUBSET Entry
    BY <1>1 DEF TypeOK, Entry
  <2>a. /\ pc' \in [Nodes -> Places]
        /\ todo' \in [Nodes -> SUBSET Templates]
        /\ mem' \in [Nodes -> SUBSET Entry]
    <3>1. CASE /\ pc' = [pc EXCEPT ![n] = "cleanup"]
               /\ todo' = [todo EXCEPT ![n] = {e.tmpl : e \in file[n]}]
               /\ mem' = [mem EXCEPT ![n] = file[n]]
      BY <1>1, <2>0, <3>1 DEF TypeOK, Places
    <3>2. CASE pc' = [pc EXCEPT ![n] = "stopped"] /\ UNCHANGED <<todo, mem>>
      BY <1>1, <3>2 DEF TypeOK, Places
    <3> QED
      BY <1>5, <3>1, <3>2, Zenon DEF BeginCleanup
  <2>1. TypeOK'
    BY <1>1, <1>3, <1>5, <2>a DEF BeginCleanup, TypeOK
  <2>2. NodeInv(n)'
    BY <1>1, <1>5 DEF BeginCleanup, TypeOK, NodeInv
  <2> QED
    BY <1>1, <1>2, <1>5, <2>1, <2>2, ZoneKept DEF BeginCleanup, TypeOK
<1>6. CASE FinishCleanup(n)
  <2>1. TypeOK'
    BY <1>1, <1>3, <1>6 DEF FinishCleanup, TypeOK, Places
  <2>2. NodeInv(n)'
    BY <1>1, <1>6 DEF FinishCleanup, TypeOK, NodeInv
  <2> QED
    BY <1>1, <1>2, <1>6, <2>1, <2>2, ZoneKept DEF FinishCleanup, TypeOK
<1> QED
  BY <1>4, <1>5, <1>6

\* A crash forgets everything but the state file; a restart adds nothing.
LEMMA CrashStep ==
    ASSUME Inductive, NEW n \in Nodes, Crash(n) \/ Restart(n)
    PROVE  Inductive'
<1>1. TypeOK /\ Addresses /\ NodeInv(n)
  BY InductiveByNode
<1>2. faults' \in 0..MaxFaults /\ changes' \in 0..MaxChanges
  BY <1>1, FaultTyped DEF Crash, Restart
<1>3. Addresses'
  BY <1>1, IdleSnapshotTyped DEF Addresses, Crash, Restart, TypeOK
<1>4. TypeOK'
  <2>1. CASE Crash(n)
    <3>1. IdleSnapshot(n) \in Snapshot
      BY IdleSnapshotTyped
    <3>2. /\ pc' \in [Nodes -> Places]
          /\ snap' \in [Nodes -> Snapshot]
          /\ todo' \in [Nodes -> SUBSET Templates]
          /\ mem' \in [Nodes -> SUBSET Entry]
      BY <1>1, <2>1, <3>1 DEF Crash, TypeOK, Places
    <3> QED
      BY <1>1, <1>2, <2>1, <3>2 DEF Crash, TypeOK
  <2>2. CASE Restart(n)
    BY <1>1, <1>2, <2>2 DEF Restart, TypeOK, Places
  <2> QED
    BY <2>1, <2>2
<1>5. NodeInv(n)'
  BY <1>1 DEF Crash, Restart, TypeOK, NodeInv
<1> QED
  BY <1>1, <1>3, <1>4, <1>5, ZoneKept DEF Crash, Restart, TypeOK

\* Signals and changes of addresses and configuration.
LEMMA EnvironmentStepKeeps ==
    ASSUME Inductive, NEW n \in Nodes, EnvironmentStep(n)
    PROVE  Inductive'
<1>1. TypeOK /\ Addresses /\ NodeInv(n)
  BY InductiveByNode
<1>2. ASSUME NEW t \in Templates, AddressChange(n, t) PROVE Inductive'
  <2>1. PICK c \in Published[n][t] : addr' = [addr EXCEPT ![n][t] = c]
    BY <1>2 DEF AddressChange
  <2>2. Published[n][t] \subseteq Contents
    BY ReconcileAssumption
  <2>3. TypeOK'
    BY <1>1, <1>2, <2>1, <2>2, FaultTyped DEF AddressChange, TypeOK
  <2>4. Addresses'
    BY <1>1, <1>2, <2>1 DEF AddressChange, TypeOK, Addresses
  <2>5. NodeInv(n)'
    BY <1>1, <1>2 DEF AddressChange, NodeInv, Own, Adoptable
  <2> QED
    BY <1>2, <2>3, <2>4, <2>5, ZoneKept DEF AddressChange
<1>3. ASSUME NEW t \in Templates, ConfigChange(n, t) PROVE Inductive'
  <2>0. PICK s \in Status : cfg' = [cfg EXCEPT ![n].tmpl[t] = s]
    BY <1>3 DEF ConfigChange
  <2>a. cfg' \in [Nodes -> Config]
    BY <1>1, <2>0 DEF TypeOK, Config
  <2>1. TypeOK'
    BY <1>1, <1>3, <2>a, FaultTyped DEF ConfigChange, TypeOK
  <2>2. Addresses' /\ NodeInv(n)'
    BY <1>1, <1>3 DEF ConfigChange, Addresses, NodeInv, Own, Adoptable
  <2> QED
    BY <1>3, <2>1, <2>2, ZoneKept DEF ConfigChange
<1>4. ASSUME DryRunChange(n) PROVE Inductive'
  <2>1. TypeOK'
    BY <1>1, <1>4, FaultTyped DEF DryRunChange, TypeOK, Config
  <2>2. Addresses' /\ NodeInv(n)'
    BY <1>1, <1>4 DEF DryRunChange, Addresses, NodeInv, Own, Adoptable
  <2> QED
    BY <1>4, <2>1, <2>2, ZoneKept DEF DryRunChange
<1> QED
  BY <1>2, <1>3, <1>4, ShutdownStep DEF EnvironmentStep

-----------------------------------------------------------------------------
(* Steps that write to the zone.                                           *)

\* A create adds the only record of its template, under a fresh id.
LEMMA CreateStep ==
    ASSUME Separation, Inductive, NEW n \in Nodes, Create(n)
    PROVE  Inductive'
<1> DEFINE t == cur[n]
           rec == Desired(n, t, NewId)
<1>1. TypeOK /\ Addresses /\ ZoneInv /\ NodeInv(n) /\ \A m \in Nodes : NodeInv(m)
  BY InductiveByNode
<1>2. Kind = "cloudflare" /\ NewId = nextId /\ ~WritesWholeSet
  BY DEF Separation, NewId, WritesWholeSet
<1>3. /\ zone' = zone \cup {rec}
      /\ nextId' = nextId + 1
      /\ nextId \in Nat \ {0}
  BY <1>1, <1>2 DEF Create, AfterCreate, TypeOK
<1>4. t \in Templates /\ Own(n, t) = {} /\ pc[n] = "create"
  BY <1>1 DEF Create, NodeInv
<1>5. rec \in Record
  BY <1>1, <1>2, <1>3, <1>4, DesiredTyped
<1>6. /\ rec.id = nextId /\ rec.by = <<n, t>> /\ rec.slot = SlotOf[n][t]
      /\ rec.content \in Published[n][t]
      /\ rec.comment = DesiredComment(n, t) /\ rec.tags = DesiredTags(n, t)
  BY <1>1, <1>2, <1>4 DEF Desired, Addresses
<1>7. RecordShape(rec)
  BY <1>4, <1>6 DEF RecordShape
<1>8. \A r \in zone : r.id \in Nat /\ r.id < nextId
  BY <1>1 DEF ZoneInv, ZoneShape, TypeOK, Record
<1> HIDE DEF rec
<1>9. ZoneInv'
  <2>1. ZoneShape'
    BY <1>1, <1>3, <1>6, <1>7, <1>8 DEF ZoneInv, ZoneShape, RecordShape
  <2>2. UniqueIds'
    BY <1>1, <1>3, <1>6, <1>8 DEF ZoneInv, UniqueIds
  <2>3. OwnUnique'
    BY <1>1, <1>3, <1>4, <1>6 DEF ZoneInv, OwnUnique, Own
  <2> QED
    BY <2>1, <2>2, <2>3 DEF ZoneInv
<1>10. mem'[n] = mem[n] \/ mem'[n] = UpdateState(mem[n], t, nextId)
  BY <1>1, <1>2 DEF Create, Desired, TypeOK
<1>11. /\ mem[n] \in SUBSET Entry
       /\ UpdateState(mem[n], t, nextId) \in SUBSET Entry
       /\ \A e \in UpdateState(mem[n], t, nextId) :
             e \in mem[n] \/ (e.tmpl = t /\ e.id = nextId)
  BY <1>1, <1>3, <1>4, UpdateStateTyped DEF TypeOK
<1>12. mem' \in [Nodes -> SUBSET Entry] /\ \A m \in Nodes \ {n} : mem'[m] = mem[m]
  BY <1>1, <1>2, <1>11 DEF Create, Desired, TypeOK
<1>13. faults' \in 0..MaxFaults /\ changes' \in 0..MaxChanges
  BY <1>1, FaultTyped DEF Create
<1>14. TypeOK'
  BY <1>1, <1>3, <1>5, <1>12, <1>13 DEF Create, TypeOK, NextTemplate, Places
<1>15. Addresses'
  BY <1>1 DEF Create, Addresses
<1>16. NodeInv(n)'
  <2>1. pc'[n] = "choose" /\ cand'[n] = 0 /\ file'[n] = file[n]
    BY <1>1 DEF Create, NextTemplate, TypeOK
  <2>2. ASSUME NEW e \in file'[n] \cup mem'[n]
        PROVE  /\ e.id < nextId'
               /\ \A r \in zone' : r.id = e.id => r.by = <<n, e.tmpl>>
    <3>1. CASE e \in file[n] \cup mem[n]
      <4>1. e.id \in Nat /\ e.id < nextId
        BY <1>1, <3>1 DEF NodeInv, TypeOK, Entry
      <4> QED
        BY <1>1, <1>3, <1>6, <3>1, <4>1 DEF NodeInv
    <3>2. CASE e.tmpl = t /\ e.id = nextId
      BY <1>3, <1>6, <1>8, <3>2
    <3> QED
      BY <1>10, <1>11, <2>1, <3>1, <3>2
  <2> QED
    BY <1>3, <2>1, <2>2 DEF NodeInv
<1>17. ASSUME NEW m \in Nodes \ {n} PROVE NodeInv(m)'
  <2>1. /\ pc'[m] = pc[m] /\ cur'[m] = cur[m] /\ cand'[m] = cand[m]
        /\ file'[m] = file[m] /\ mem'[m] = mem[m]
    BY <1>1, <1>12 DEF Create, NextTemplate, TypeOK
  <2>2. NodeInv(m)
    BY <1>1
  <2>3. cand[m] \in Nat /\ \A e \in file[m] \cup mem[m] : e.id \in Nat
    BY <1>1 DEF TypeOK, Entry
  <2>4. \A u \in Templates : Own(m, u)' = Own(m, u)
    BY <1>3, <1>6 DEF Own
  <2> QED
    BY <1>3, <1>6, <2>1, <2>2, <2>3, <2>4 DEF NodeInv, Adoptable
<1> QED
  BY <1>9, <1>14, <1>15, <1>16, <1>17, PrimedByNode

\* An update replaces the template's own record, or a foreign one that no
\* other node can have in hand.
LEMMA UpdateStep ==
    ASSUME Separation, Inductive, NEW n \in Nodes, Update(n)
    PROVE  Inductive'
<1> DEFINE t == cur[n]
           rec == Desired(n, t, cand[n])
<1>1. TypeOK /\ Addresses /\ ZoneInv /\ NodeInv(n) /\ \A m \in Nodes : NodeInv(m)
  BY InductiveByNode
<1>2. Kind = "cloudflare" /\ ~WritesWholeSet
  BY DEF Separation, WritesWholeSet
<1>3. /\ t \in Templates /\ cand[n] \in Nat /\ cand[n] < nextId /\ pc[n] = "update"
      /\ nextId' = nextId /\ nextId \in Nat \ {0}
  BY <1>1 DEF Update, NodeInv, TypeOK
<1>4. rec \in Record
  BY <1>1, <1>3, DesiredTyped
<1>5. /\ rec.id = cand[n] /\ rec.by = <<n, t>> /\ rec.slot = SlotOf[n][t]
      /\ rec.content \in Published[n][t]
      /\ rec.comment = DesiredComment(n, t) /\ rec.tags = DesiredTags(n, t)
  BY <1>1, <1>3 DEF Desired, Addresses
<1>6. zone' = {r \in zone : r.id # cand[n]} \cup {rec}
  BY <1>2, <1>5 DEF Update, AfterUpdate, UpdateTarget
<1>7. PICK q \in zone : q.id = cand[n]
  BY <1>2, <1>5 DEF Update, UpdateAccepted, UpdateTarget
<1>8. q.by = <<n, t>> \/ Adoptable(n, t, q)
  BY <1>1, <1>3, <1>7 DEF NodeInv
<1>9. RecordShape(rec)
  BY <1>3, <1>5 DEF RecordShape
<1>10. mem'[n] = mem[n] \/ mem'[n] = UpdateState(mem[n], t, cand[n])
  BY <1>1 DEF Update, Desired, TypeOK
<1>11. /\ mem[n] \in SUBSET Entry
       /\ UpdateState(mem[n], t, cand[n]) \in SUBSET Entry
       /\ \A e \in UpdateState(mem[n], t, cand[n]) :
             e \in mem[n] \/ (e.tmpl = t /\ e.id = cand[n])
  BY <1>1, <1>3, UpdateStateTyped DEF TypeOK
<1>12. mem' \in [Nodes -> SUBSET Entry] /\ \A m \in Nodes \ {n} : mem'[m] = mem[m]
  BY <1>1, <1>11 DEF Update, Desired, TypeOK
<1> HIDE DEF rec
<1>13. faults' \in 0..MaxFaults /\ changes' \in 0..MaxChanges
  BY <1>1, FaultTyped DEF Update
<1>14. TypeOK'
  BY <1>1, <1>4, <1>6, <1>12, <1>13 DEF Update, TypeOK, NextTemplate, Places
<1>15. Addresses'
  BY <1>1 DEF Update, Addresses
<1>16. ASSUME NEW r \in zone, r.by = <<n, t>> PROVE r = q
  <2>1. r.by # Foreign
    BY <1>3, <1>16, ReconcileAssumption DEF Writers
  <2>2. CASE q.by = <<n, t>>
    BY <1>1, <1>7, <1>16, <2>1, <2>2 DEF ZoneInv, OwnUnique
  <2>3. CASE Adoptable(n, t, q)
    <3>1. {s \in zone : s.by = <<n, t>>} = {}
      BY <2>3 DEF Adoptable, Own
    <3> QED
      BY <1>16, <3>1
  <2> QED
    BY <1>8, <2>2, <2>3
<1>17. ZoneInv'
  <2>1. ZoneShape'
    BY <1>1, <1>3, <1>5, <1>6, <1>9 DEF ZoneInv, ZoneShape, RecordShape
  <2>2. UniqueIds'
    BY <1>1, <1>5, <1>6 DEF ZoneInv, UniqueIds
  <2>3. OwnUnique'
    BY <1>1, <1>5, <1>6, <1>7, <1>16 DEF ZoneInv, OwnUnique
  <2> QED
    BY <2>1, <2>2, <2>3 DEF ZoneInv
<1>18. NodeInv(n)'
  <2>1. pc'[n] = "choose" /\ cand'[n] = 0 /\ file'[n] = file[n]
    BY <1>1 DEF Update, NextTemplate, TypeOK
  <2>2. ASSUME NEW e \in file'[n] \cup mem'[n]
        PROVE  /\ e.id < nextId'
               /\ \A r \in zone' : r.id = e.id => r.by = <<n, e.tmpl>>
    <3>1. CASE e \in file[n] \cup mem[n]
      <4>1. e.id < nextId /\ \A r \in zone : r.id = e.id => r.by = <<n, e.tmpl>>
        BY <1>1, <3>1 DEF NodeInv
      <4>2. e.id = cand[n] => q.by = <<n, e.tmpl>>
        BY <1>7, <4>1
      <4>3. <<n, e.tmpl>> # Foreign
        BY <1>1, <3>1, ReconcileAssumption DEF TypeOK, Entry, Writers
      <4>4. e.id = cand[n] => rec.by = <<n, e.tmpl>>
        BY <1>5, <1>8, <4>2, <4>3 DEF Adoptable
      <4> QED
        BY <1>3, <1>5, <1>6, <4>1, <4>4
    <3>2. CASE e.tmpl = t /\ e.id = cand[n]
      BY <1>3, <1>5, <1>6, <3>2
    <3> QED
      BY <1>10, <1>11, <2>1, <3>1, <3>2
  <2> QED
    BY <1>3, <2>1, <2>2 DEF NodeInv
<1>19. ASSUME NEW m \in Nodes \ {n} PROVE NodeInv(m)'
  <2>1. /\ pc'[m] = pc[m] /\ cur'[m] = cur[m] /\ cand'[m] = cand[m]
        /\ file'[m] = file[m] /\ mem'[m] = mem[m]
    BY <1>1, <1>12 DEF Update, NextTemplate, TypeOK
  <2>2. NodeInv(m)
    BY <1>1
  <2>3. \A u \in Templates : Own(m, u) = {} => Own(m, u)' = {}
    BY <1>5, <1>6 DEF Own
  <2>4. ASSUME pc[m] = "update" PROVE cand[m] # cand[n]
    <3>1. SUFFICES ASSUME cand[m] = cand[n] PROVE FALSE
      OBVIOUS
    <3>2. cur[m] \in Templates /\ (q.by = <<m, cur[m]>> \/ Adoptable(m, cur[m], q))
      BY <1>7, <2>2, <2>4, <3>1 DEF NodeInv
    <3>3. <<m, cur[m]>> # Foreign /\ <<n, t>> # Foreign
      BY <1>3, <3>2, ReconcileAssumption DEF Writers
    <3>4. <<m, cur[m]>> # <<n, t>>
      OBVIOUS
    <3>5. Adoptable(m, cur[m], q) /\ Adoptable(n, t, q)
      BY <1>8, <3>2, <3>3, <3>4 DEF Adoptable
    <3>6. SlotOf[m][cur[m]] = SlotOf[n][t] /\ ExclusiveSlot(n, t)
      BY <3>5 DEF Adoptable
    <3>7. <<m, cur[m]>> \in Writers \ {<<n, t>>}
      BY <3>2, <3>4 DEF Writers
    <3>8. SlotOf[<<m, cur[m]>>[1]][<<m, cur[m]>>[2]] # SlotOf[n][t]
      BY <3>6, <3>7 DEF ExclusiveSlot
    <3> QED
      BY <3>6, <3>8
  <2>5. ASSUME NEW e \in file[m] \cup mem[m] PROVE e.id # cand[n]
    <3>1. SUFFICES ASSUME e.id = cand[n] PROVE FALSE
      OBVIOUS
    <3>2. q.by = <<m, e.tmpl>>
      BY <1>7, <2>2, <3>1 DEF NodeInv
    <3>3. <<m, e.tmpl>> # Foreign
      BY <1>1, ReconcileAssumption DEF TypeOK, Entry, Writers
    <3> QED
      BY <1>8, <3>2, <3>3 DEF Adoptable
  <2>6. /\ pc[m] \in {"create", "requery"} =>
              cur[m] \in Templates /\ {r \in zone' : r.by = <<m, cur[m]>>} = {}
        /\ pc[m] = "requery" => ExclusiveSlot(m, cur[m])
        /\ cand[m] < nextId
    BY <1>5, <1>6, <2>2 DEF NodeInv, Own
  <2>7. pc[m] = "update" =>
          /\ cur[m] \in Templates
          /\ \A r \in zone' : r.id = cand[m] =>
                r.by = <<m, cur[m]>> \/ Adoptable(m, cur[m], r)'
    BY <1>5, <1>6, <2>1, <2>2, <2>3, <2>4 DEF NodeInv, Adoptable
  <2>8. \A e \in file[m] \cup mem[m] :
          /\ e.id < nextId
          /\ \A r \in zone' : r.id = e.id => r.by = <<m, e.tmpl>>
    BY <1>5, <1>6, <2>2, <2>5 DEF NodeInv
  <2> QED
    BY <1>3, <2>1, <2>6, <2>7, <2>8 DEF NodeInv, Own, Adoptable
<1> QED
  BY <1>14, <1>15, <1>17, <1>18, <1>19, PrimedByNode

\* A step that leaves every agent where it is, and after which each record is
\* one there was before, with its id, name and author, or a foreign one under
\* a fresh id: deletions and the operator's changes.
LEMMA AgentsKept ==
    ASSUME Inductive, UNCHANGED <<pc, cur, cand, file, mem>>,
           nextId' \in Nat, nextId <= nextId',
           \A r \in zone' :
               \/ \E q \in zone : q.id = r.id /\ q.slot = r.slot /\ q.by = r.by
               \/ r.id = nextId /\ r.by = Foreign,
           NEW n \in Nodes
    PROVE  NodeInv(n)'
<1>1. TypeOK /\ NodeInv(n)
  BY InductiveByNode
<1>2. cand[n] \in Nat /\ nextId \in Nat /\ \A e \in file[n] \cup mem[n] : e.id \in Nat
  BY <1>1 DEF TypeOK, Entry
<1>3. \A u \in Templates : <<n, u>> # Foreign
  BY ReconcileAssumption DEF Writers
<1>4. ASSUME NEW u \in Templates, Own(n, u) = {} PROVE {r \in zone' : r.by = <<n, u>>} = {}
  BY <1>3, <1>4 DEF Own
<1>5. pc[n] \in {"create", "requery"} =>
        cur[n] \in Templates /\ {r \in zone' : r.by = <<n, cur[n]>>} = {}
  BY <1>1, <1>4 DEF NodeInv
<1>6. ASSUME pc[n] = "update", NEW r \in zone', r.id = cand[n]
      PROVE  \/ r.by = <<n, cur[n]>>
             \/ /\ r.by = Foreign /\ r.slot = SlotOf[n][cur[n]] /\ ExclusiveSlot(n, cur[n])
                /\ {s \in zone' : s.by = <<n, cur[n]>>} = {}
  <2>1. cur[n] \in Templates /\ cand[n] # nextId
    BY <1>1, <1>2, <1>6 DEF NodeInv
  <2>2. PICK q \in zone : q.id = r.id /\ q.slot = r.slot /\ q.by = r.by
    BY <1>6, <2>1
  <2>3. q.by = <<n, cur[n]>> \/ Adoptable(n, cur[n], q)
    BY <1>1, <1>6, <2>2 DEF NodeInv
  <2> QED
    BY <1>4, <2>1, <2>2, <2>3 DEF Adoptable
<1>7. ASSUME NEW e \in file[n] \cup mem[n]
      PROVE  e.id < nextId' /\ \A r \in zone' : r.id = e.id => r.by = <<n, e.tmpl>>
  <2>1. e.id < nextId /\ \A q \in zone : q.id = e.id => q.by = <<n, e.tmpl>>
    BY <1>1 DEF NodeInv
  <2>2. e.id # nextId
    BY <1>2, <2>1
  <2> QED
    BY <1>2, <2>1, <2>2
<1>8. cand[n] < nextId' /\ (pc[n] = "requery" => ExclusiveSlot(n, cur[n]))
  BY <1>1, <1>2 DEF NodeInv
<1>9. pc[n] = "update" => cur[n] \in Templates
  BY <1>1 DEF NodeInv
<1> QED
  BY <1>5, <1>6, <1>7, <1>8, <1>9 DEF NodeInv, Own, Adoptable

\* A deletion, by a cleanup or an operator, disturbs nobody's part.
LEMMA DeletionKeeps ==
    ASSUME Inductive, zone' \subseteq zone, TypeOK',
           UNCHANGED <<nextId, addr, cfg, file, pc, snap, cur, cand, mem, stop>>
    PROVE  Inductive'
<1>1. ZoneInv'
  BY InductiveByNode DEF ZoneInv, ZoneShape, UniqueIds, OwnUnique
<1>2. Addresses'
  BY InductiveByNode DEF Addresses
<1>3. nextId' \in Nat /\ nextId <= nextId'
  BY InductiveByNode DEF TypeOK
<1>4. ASSUME NEW n \in Nodes PROVE NodeInv(n)'
  BY <1>3, AgentsKept
<1> QED
  BY <1>1, <1>2, <1>4, PrimedByNode

\* The deletion of one record by the cleanup.
LEMMA CleanupDeleteStep ==
    ASSUME Inductive, NEW n \in Nodes, NEW e \in mem[n], CleanupDelete(n, e)
    PROVE  Inductive'
<1>1. TypeOK
  BY InductiveByNode
<1>2. zone' \subseteq zone
  BY DEF CleanupDelete, AfterDelete
<1>3. faults' \in 0..MaxFaults /\ changes' \in 0..MaxChanges
  BY <1>1, FaultTyped DEF CleanupDelete
<1>4. TypeOK'
  BY <1>1, <1>2, <1>3 DEF CleanupDelete, TypeOK
<1> QED
  BY <1>2, <1>4, DeletionKeeps DEF CleanupDelete

\* What the operator does to the zone.
LEMMA OperatorStep ==
    ASSUME Separation, Inductive, Operator
    PROVE  Inductive'
<1>1. TypeOK /\ Addresses /\ ZoneInv
  BY InductiveByNode
<1>2. UNCHANGED <<addr, cfg, file, pc, snap, todo, cur, cand, mem, stop>>
  BY DEF Operator, Agents
<1>3. faults' \in 0..MaxFaults /\ changes' \in 0..MaxChanges
  BY <1>1, ReconcileAssumption DEF Operator, Change, TypeOK
<1>4. nextId \in Nat \ {0} /\ \A r \in zone : r \in Record /\ r.id < nextId /\ RecordShape(r)
  BY <1>1 DEF TypeOK, ZoneInv, ZoneShape
<1>5. Addresses'
  BY <1>1, <1>2 DEF Addresses
<1>6. CASE ForeignDelete
  <2>1. zone' \subseteq zone /\ nextId' = nextId
    BY <1>6 DEF ForeignDelete
  <2>2. TypeOK'
    BY <1>1, <1>2, <1>3, <2>1 DEF TypeOK
  <2> QED
    BY <1>2, <2>1, <2>2, DeletionKeeps
<1>7. CASE ForeignEdit
  <2>1. PICK r \in zone, c \in ForeignContents :
          /\ zone' = (zone \ {r}) \cup {[r EXCEPT !.content = c]}
          /\ nextId' = nextId
    BY <1>7 DEF ForeignEdit
  <2> DEFINE new == [r EXCEPT !.content = c]
  <2>2. /\ new \in Record
        /\ new.id = r.id /\ new.slot = r.slot /\ new.by = r.by /\ new.content = c
        /\ new.comment = r.comment /\ new.tags = r.tags
    BY <1>4, ReconcileAssumption DEF Record
  <2>3. RecordShape(new)
    BY <1>4, <2>2 DEF RecordShape
  <2> HIDE DEF new
  <2>4. zone' = (zone \ {r}) \cup {new}
    BY <2>1 DEF new
  <2>5. TypeOK'
    BY <1>1, <1>2, <1>3, <2>1, <2>2, <2>4 DEF TypeOK
  <2>6. ZoneShape'
    BY <1>4, <2>1, <2>2, <2>3, <2>4 DEF ZoneShape, RecordShape
  <2>7. UniqueIds' /\ OwnUnique'
    BY <1>1, <2>2, <2>4 DEF ZoneInv, UniqueIds, OwnUnique
  <2>8. ASSUME NEW n \in Nodes PROVE NodeInv(n)'
    BY <1>2, <1>4, <2>1, <2>2, <2>4, AgentsKept
  <2> QED
    BY <1>5, <2>5, <2>6, <2>7, <2>8, PrimedByNode DEF ZoneInv
<1>8. CASE ForeignAdd
  <2>1. Kind = "cloudflare" /\ NewId = nextId
    BY DEF Separation, NewId
  <2>2. PICK s \in Slots, c \in ForeignContents, m \in ForeignComments :
          /\ zone' = zone \cup {[id |-> nextId, slot |-> s, content |-> c, comment |-> m,
                                 tags |-> {}, by |-> Foreign]}
          /\ nextId' = nextId + 1
    BY <1>8, <2>1 DEF ForeignAdd
  <2> DEFINE new == [id |-> nextId, slot |-> s, content |-> c, comment |-> m,
                     tags |-> {}, by |-> Foreign]
  <2>3. /\ new \in Record
        /\ new.id = nextId /\ new.slot = s /\ new.by = Foreign
    BY <1>4, ReconcileAssumption DEF Record
  <2>4. RecordShape(new)
    BY DEF RecordShape
  <2> HIDE DEF new
  <2>5. zone' = zone \cup {new}
    BY <2>2 DEF new
  <2>6. TypeOK'
    BY <1>1, <1>2, <1>3, <1>4, <2>2, <2>3, <2>5 DEF TypeOK
  <2>7. \A r \in zone : r.id \in Nat /\ r.id # nextId
    BY <1>4 DEF Record
  <2>8. ZoneShape'
    BY <1>4, <2>2, <2>3, <2>4, <2>5, <2>7 DEF ZoneShape, RecordShape
  <2>9. UniqueIds' /\ OwnUnique'
    BY <1>1, <2>3, <2>5, <2>7 DEF ZoneInv, UniqueIds, OwnUnique
  <2>10. ASSUME NEW n \in Nodes PROVE NodeInv(n)'
    BY <1>2, <1>4, <2>2, <2>3, <2>5, AgentsKept
  <2> QED
    BY <1>5, <2>6, <2>8, <2>9, <2>10, PrimedByNode DEF ZoneInv
<1> QED
  BY <1>6, <1>7, <1>8 DEF Operator

-----------------------------------------------------------------------------
(* The theorems.                                                           *)

\* Every action keeps the invariant.
LEMMA NextInductive ==
    ASSUME Separation, Inductive, [Next]_vars
    PROVE  Inductive'
<1>1. ASSUME NEW n \in Nodes, PassStep(n) PROVE Inductive'
  BY <1>1, BeginPassStep, SkipStep, FindOwnedStep, FindNoneStep, CreateStep,
     CreateRefusedStep, RequeryStep, UpdateStep, UpdateRefusedStep, CallFailsStep,
     FinishPassStep DEF PassStep
<1>2. ASSUME NEW n \in Nodes, CleanupStep(n) PROVE Inductive'
  BY <1>2, ShutdownStep, CleanupDeleteStep DEF CleanupStep
<1>3. CASE Operator
  BY <1>3, OperatorStep
<1>4. CASE UNCHANGED vars
  <2>1. TypeOK' /\ Addresses' /\ ZoneInv'
    BY <1>4, InductiveByNode
       DEF vars, TypeOK, Addresses, ZoneInv, ZoneShape, UniqueIds, OwnUnique
  <2>2. ASSUME NEW n \in Nodes PROVE NodeInv(n)'
    BY <1>4, InductiveByNode DEF vars, NodeInv, Own, Adoptable
  <2> QED
    BY <2>1, <2>2, PrimedByNode
<1> QED
  BY <1>1, <1>2, <1>3, <1>4, CrashStep, EnvironmentStepKeeps DEF Next

\* The inductive invariant holds for any nodes, templates and zone contents
\* that Separation admits, and any number of faults and changes.
THEOREM InductiveHolds ==
    ASSUME Separation
    PROVE  Spec => []Inductive
<1>1. Inductive /\ [Next]_vars => Inductive'
  BY NextInductive
<1> QED
  BY <1>1, InitInductive, PTL DEF Spec

\* Whatever is lost, fails or crashes, no template ever has two records.
THEOREM OneRecordPerTemplate ==
    ASSUME Separation
    PROVE  Spec => []OwnUnique
<1>1. Inductive => OwnUnique
  BY DEF Inductive
<1> QED
  BY <1>1, InductiveHolds, PTL

\* An id in a state file is that of the template's own record, or of none, so
\* that the cleanup deletes what is the node's.
THEOREM StateFileNamesOwn ==
    ASSUME Separation
    PROVE  Spec => []EntriesOwned
<1>1. Inductive => EntriesOwned
  BY DEF Inductive
<1> QED
  BY <1>1, InductiveHolds, PTL

\* The actions of an agent that make a record disappear: an update, which
\* replaces its candidate, and a deletion by an id of the state file.
LEMMA OnlyWritersRemove ==
    ASSUME Separation, NEW m \in Nodes,
           PassStep(m) \/ CleanupStep(m) \/ Crash(m) \/ Restart(m) \/ EnvironmentStep(m),
           NEW r \in zone \ zone'
    PROVE  \/ Update(m) /\ r.id = cand[m]
           \/ \E e \in mem[m] : CleanupDelete(m, e) /\ r.id = e.id
<1>1. Kind = "cloudflare" /\ ~WritesWholeSet
  BY DEF Separation, WritesWholeSet
<1>2. CASE PassStep(m)
  <2>1. ASSUME NEW t \in Templates, Skip(m, t) \/ FindOwned(m, t) \/ FindNone(m, t)
        PROVE  FALSE
    BY <2>1 DEF Skip, FindOwned, FindNone
  <2>2. CASE Create(m)
    BY <1>1, <2>2 DEF Create, AfterCreate
  <2>3. CASE Update(m)
    BY <1>1, <2>3 DEF Update, AfterUpdate, UpdateTarget, Desired
  <2>4. CASE \/ BeginPass(m) \/ CreateRefused(m) \/ Requery(m) \/ UpdateRefused(m)
             \/ CallFails(m) \/ FinishPass(m)
    BY <2>4 DEF BeginPass, CreateRefused, Requery, UpdateRefused, CallFails, FinishPass
  <2> QED
    BY <1>2, <2>1, <2>2, <2>3, <2>4 DEF PassStep
<1>3. CASE CleanupStep(m)
  <2>1. ASSUME NEW e \in mem[m], CleanupDelete(m, e) PROVE r.id = e.id
    BY <2>1 DEF CleanupDelete, AfterDelete
  <2> QED
    BY <1>3, <2>1 DEF CleanupStep, BeginCleanup, FinishCleanup
<1>4. CASE Crash(m) \/ Restart(m)
  BY <1>4 DEF Crash, Restart
<1>5. CASE EnvironmentStep(m)
  BY <1>5 DEF EnvironmentStep, Signal, DryRunChange, AddressChange, ConfigChange
<1> QED
  BY <1>2, <1>3, <1>4, <1>5

\* One step of the system: the agent that moves loses a record only of its own
\* node or of no node.
LEMMA RemovalIsOwn ==
    ASSUME Separation, Inductive, Next, NEW n \in Nodes, Moved(n),
           NEW r \in zone \ zone'
    PROVE  r.by = Foreign \/ r.by[1] = n
<1>1. TypeOK
  BY InductiveByNode
<1>2. CASE Operator
  BY <1>2 DEF Operator, Agents, Moved
<1>3. ASSUME NEW m \in Nodes,
             PassStep(m) \/ CleanupStep(m) \/ Crash(m) \/ Restart(m) \/ EnvironmentStep(m)
      PROVE  r.by = Foreign \/ r.by[1] = n
  <2>1. CASE Update(m) /\ r.id = cand[m]
    <3>1. m = n
      BY <1>1, <2>1 DEF Update, NextTemplate, Moved, TypeOK
    <3>2. r.by = <<m, cur[m]>> \/ r.by = Foreign
      BY <2>1 DEF Inductive, CandidateMine, Update, Adoptable
    <3> QED
      BY <3>1, <3>2
  <2>2. CASE \E e \in mem[m] : CleanupDelete(m, e) /\ r.id = e.id
    <3>1. PICK e \in mem[m] : CleanupDelete(m, e) /\ r.id = e.id
      BY <2>2
    <3>2. m = n
      BY <1>1, <3>1 DEF CleanupDelete, Moved, TypeOK
    <3>3. r.by = <<m, e.tmpl>>
      BY <3>1 DEF Inductive, EntriesOwned
    <3> QED
      BY <3>2, <3>3
  <2> QED
    BY <1>3, <2>1, <2>2, OnlyWritersRemove
<1> QED
  BY <1>2, <1>3 DEF Next

\* No agent ever takes away a record that another node wrote.
THEOREM NobodyClobbers ==
    ASSUME Separation
    PROVE  Spec => NoClobber
<1> DEFINE Step == \A n \in Nodes : Moved(n) =>
                     \A r \in zone \ zone' : r.by = Foreign \/ r.by[1] = n
<1>1. Inductive /\ [Next]_vars => [Step]_vars
  BY RemovalIsOwn
<1>2. Spec => [][Step]_vars
  BY <1>1, InductiveHolds, PTL DEF Spec
<1> QED
  BY <1>2 DEF NoClobber

-----------------------------------------------------------------------------
(* Whatever the provider and the comments.                                 *)

\* Each variable has its type, and a call is made for a template.
Typed == TypeOK /\ \A n \in Nodes : pc[n] \in Calling => cur[n] \in Templates

\* The part of it that a step of node n can disturb.
AgentTyped(n) ==
    /\ file[n] \in SUBSET Entry /\ pc[n] \in Places /\ snap[n] \in Snapshot
    /\ todo[n] \in SUBSET Templates /\ cur[n] \in Templates \cup {NoTemplate}
    /\ cand[n] \in Nat /\ mem[n] \in SUBSET Entry
    /\ pc[n] \in Calling => cur[n] \in Templates

\* A listing gives records of the zone, with their ids, names and contents.
LEMMA ListedTyped ==
    ASSUME TypeOK, NEW s, NEW r \in ListRecords(zone, s)
    PROVE  r.id \in Nat
<1>1. PICK q \in zone : r = Returned(zone, q)
  BY DEF ListRecords, At
<1>2. q \in Record
  BY DEF TypeOK
<1>3. Returned(zone, q).id = q.id
  BY <1>2 DEF Returned, Record
<1> QED
  BY <1>1, <1>2, <1>3 DEF Record

\* What reconcileExisting leaves behind in the agent is typed.
LEMMA ReconcileExistingTyped ==
    ASSUME Typed, NEW n \in Nodes, NEW t \in Templates, NEW r, r.id \in Nat,
           ReconcileExisting(n, t, r), UNCHANGED <<file, snap>>,
           todo' = [todo EXCEPT ![n] = todo[n] \ {t}] \/ UNCHANGED todo
    PROVE  AgentTyped(n)'
<1>1. UpdateState(mem[n], t, r.id) \in SUBSET Entry
  BY UpdateStateTyped DEF Typed, TypeOK
<1>2. /\ pc'[n] \in Places /\ cur'[n] \in Templates \cup {NoTemplate} /\ cand'[n] \in Nat
      /\ pc'[n] \in Calling => cur'[n] \in Templates
  BY DEF Typed, TypeOK, ReconcileExisting, NextTemplate, Places, Calling
<1>3. mem'[n] \in SUBSET Entry
  BY <1>1 DEF Typed, TypeOK, ReconcileExisting
<1> QED
  BY <1>2, <1>3 DEF Typed, TypeOK, AgentTyped

\* A step of an agent leaves it typed.
LEMMA AgentStepTyped ==
    ASSUME Typed, NEW n \in Nodes, PassStep(n) \/ CleanupStep(n) \/ Crash(n) \/ Restart(n)
    PROVE  AgentTyped(n)'
<1>1. AgentTyped(n) /\ addr[n] \in [Templates -> Contents] /\ cfg[n] \in Config
  BY DEF Typed, TypeOK, AgentTyped
<1>2. CASE BeginPass(n)
  BY <1>1, <1>2 DEF Typed, TypeOK, BeginPass, AgentTyped, Snapshot, Places, Calling
<1>3. ASSUME NEW t \in Templates, Skip(n, t) PROVE AgentTyped(n)'
  BY <1>1, <1>3 DEF Typed, TypeOK, Skip, AgentTyped
<1>4. ASSUME NEW t \in Templates, FindOwned(n, t) PROVE AgentTyped(n)'
  <2>1. PICK r \in ListRecords(zone, SlotOf[n][t]) : ReconcileExisting(n, t, r)
    BY <1>4 DEF FindOwned, FindOwnedRecord
  <2> QED
    BY <1>4, <2>1, ListedTyped, ReconcileExistingTyped DEF FindOwned, Typed
<1>5. ASSUME NEW t \in Templates, FindNone(n, t) PROVE AgentTyped(n)'
  BY <1>1, <1>5 DEF Typed, TypeOK, FindNone, NextTemplate, AgentTyped, Places, Calling
<1>6. CASE Create(n)
  <2>1. cur[n] \in Templates /\ NewId \in Nat
    BY <1>6 DEF Typed, TypeOK, Create, Calling, NewId, DerivedId
  <2>2. UpdateState(mem[n], cur[n], NewId) \in SUBSET Entry
    BY <1>1, <2>1, UpdateStateTyped DEF AgentTyped
  <2> QED
    BY <1>1, <1>6, <2>2
       DEF Typed, TypeOK, Create, NextTemplate, AgentTyped, Places, Calling, Desired
<1>7. CASE CreateRefused(n)
  BY <1>1, <1>7 DEF Typed, TypeOK, CreateRefused, AgentTyped, Places, Calling
<1>8. CASE Requery(n)
  <2> DEFINE listed == ListRecords(zone, SlotOf[n][cur[n]])
  <2>1. \/ \E r \in listed : ReconcileExisting(n, cur[n], r)
        \/ NextTemplate(n) /\ UNCHANGED mem
    BY <1>8 DEF Requery, FindOwnedRecord
  <2>2. cur[n] \in Templates /\ UNCHANGED <<file, snap, todo>>
    BY <1>8 DEF Typed, Requery, Calling
  <2>3. CASE \E r \in listed : ReconcileExisting(n, cur[n], r)
    BY <2>2, <2>3, ListedTyped, ReconcileExistingTyped DEF Typed
  <2>4. CASE NextTemplate(n) /\ UNCHANGED mem
    BY <1>1, <2>2, <2>4 DEF Typed, TypeOK, NextTemplate, AgentTyped, Places, Calling
  <2> QED
    BY <2>1, <2>3, <2>4
<1>9. CASE Update(n)
  <2>1. cur[n] \in Templates /\ cand[n] \in Nat
    BY <1>9 DEF Typed, TypeOK, Update, Calling
  <2>2. UpdateState(mem[n], cur[n], cand[n]) \in SUBSET Entry
    BY <1>1, <2>1, UpdateStateTyped DEF AgentTyped
  <2> QED
    BY <1>1, <1>9, <2>2
       DEF Typed, TypeOK, Update, NextTemplate, AgentTyped, Places, Calling, Desired
<1>10. CASE UpdateRefused(n) \/ CallFails(n)
  BY <1>1, <1>10
     DEF Typed, TypeOK, UpdateRefused, CallFails, NextTemplate, AgentTyped, Places, Calling
<1>11. CASE FinishPass(n)
  <2>1. PruneOrphans(mem[n], snap[n].cfg) \in SUBSET Entry
    BY <1>1 DEF AgentTyped, PruneOrphans
  <2> QED
    BY <1>1, <1>11, <2>1, IdleSnapshotTyped
       DEF Typed, TypeOK, FinishPass, AgentTyped, Places, Calling
<1>12. CASE CleanupStep(n)
  BY <1>1, <1>12 DEF Typed, TypeOK, CleanupStep, BeginCleanup, CleanupDelete,
     FinishCleanup, AgentTyped, Places, Calling, Entry
<1>13. CASE Crash(n) \/ Restart(n)
  BY <1>1, <1>13, IdleSnapshotTyped
     DEF Typed, TypeOK, Crash, Restart, AgentTyped, Places, Calling
<1> QED
  BY <1>2, <1>3, <1>4, <1>5, <1>6, <1>7, <1>8, <1>9, <1>10, <1>11, <1>12, <1>13
     DEF PassStep

\* So does a step of its environment, which changes what the next pass reads.
LEMMA EnvironmentTyped ==
    ASSUME Typed, NEW n \in Nodes, EnvironmentStep(n)
    PROVE  /\ addr' \in [Nodes -> [Templates -> Contents]]
           /\ cfg' \in [Nodes -> Config]
           /\ stop' \in [Nodes -> BOOLEAN]
           /\ UNCHANGED <<zone, nextId, file, pc, snap, todo, cur, cand, mem>>
<1>1. CASE Signal(n)
  BY <1>1 DEF Typed, TypeOK, Signal
<1>2. CASE DryRunChange(n)
  <2>1. cfg[n] \in Config /\ UNCHANGED <<addr, stop>>
    BY <1>2 DEF Typed, TypeOK, DryRunChange
  <2>2. [cfg[n] EXCEPT !.dry = ~cfg[n].dry] \in Config
    BY <2>1 DEF Config
  <2>3. cfg' = [cfg EXCEPT ![n] = [cfg[n] EXCEPT !.dry = ~cfg[n].dry]]
    BY <1>2 DEF DryRunChange
  <2> QED
    BY <1>2, <2>1, <2>2, <2>3 DEF Typed, TypeOK, DryRunChange
<1>3. ASSUME NEW t \in Templates, AddressChange(n, t)
      PROVE  addr' \in [Nodes -> [Templates -> Contents]]
  <2>1. PICK c \in Published[n][t] : addr' = [addr EXCEPT ![n][t] = c]
    BY <1>3 DEF AddressChange
  <2>2. Published[n][t] \subseteq Contents
    BY ReconcileAssumption
  <2> QED
    BY <2>1, <2>2 DEF Typed, TypeOK
<1>4. ASSUME NEW t \in Templates, ConfigChange(n, t)
      PROVE  cfg' \in [Nodes -> Config]
  <2>1. PICK s \in Status : cfg' = [cfg EXCEPT ![n].tmpl[t] = s]
    BY <1>4 DEF ConfigChange
  <2> QED
    BY <2>1 DEF Typed, TypeOK, Config
<1> QED
  BY <1>1, <1>2, <1>3, <1>4
     DEF Typed, TypeOK, EnvironmentStep, AddressChange, ConfigChange

\* The zone and the count of its ids after a step of an agent.
LEMMA ZoneTyped ==
    ASSUME Typed, NEW n \in Nodes, PassStep(n) \/ CleanupStep(n) \/ Crash(n) \/ Restart(n)
    PROVE  zone' \subseteq Record /\ nextId' \in Nat \ {0}
<1>1. zone \subseteq Record /\ nextId \in Nat \ {0}
  BY DEF Typed, TypeOK
<1>2. CASE Create(n)
  <2>1. Desired(n, cur[n], NewId) \in Record
    BY <1>2, DesiredTyped DEF Typed, TypeOK, Create, Calling, NewId, DerivedId
  <2> QED
    BY <1>1, <1>2, <2>1 DEF Create, AfterCreate, At
<1>3. CASE Update(n)
  <2>1. Desired(n, cur[n], cand[n]) \in Record
    BY <1>3, DesiredTyped DEF Typed, TypeOK, Update, Calling
  <2> QED
    BY <1>1, <1>3, <2>1 DEF Update, AfterUpdate, AfterCreate, UpdateTarget, At
<1>4. ASSUME NEW e \in mem[n], CleanupDelete(n, e) PROVE zone' \subseteq zone /\ nextId' = nextId
  BY <1>4 DEF CleanupDelete, AfterDelete
<1>5. ASSUME ~Create(n), ~Update(n), \A e \in mem[n] : ~CleanupDelete(n, e)
      PROVE  UNCHANGED <<zone, nextId>>
  BY <1>5 DEF PassStep, BeginPass, Skip, FindOwned, FindNone, CreateRefused, Requery,
     UpdateRefused, CallFails, FinishPass, CleanupStep, BeginCleanup, FinishCleanup,
     Crash, Restart
<1> QED
  BY <1>1, <1>2, <1>3, <1>4, <1>5

\* And after a step of the operator.
LEMMA OperatorTyped ==
    ASSUME Typed, Operator
    PROVE  zone' \subseteq Record /\ nextId' \in Nat \ {0}
<1>1. zone \subseteq Record /\ nextId \in Nat \ {0}
  BY DEF Typed, TypeOK
<1>2. CASE ForeignDelete
  BY <1>1, <1>2 DEF ForeignDelete
<1>3. CASE ForeignEdit
  <2>1. PICK r \in zone, c \in ForeignContents :
            zone' = (zone \ {r}) \cup {[r EXCEPT !.content = c]} /\ nextId' = nextId
    BY <1>3 DEF ForeignEdit
  <2>2. [r EXCEPT !.content = c] \in Record
    BY <1>1, ReconcileAssumption DEF Record
  <2> QED
    BY <1>1, <2>1, <2>2
<1>4. CASE ForeignAdd
  <2>1. NewId \in Nat
    BY <1>1 DEF NewId, DerivedId
  <2> QED
    BY <1>1, <1>4, <2>1, ReconcileAssumption DEF ForeignAdd, Record
<1> QED
  BY <1>2, <1>3, <1>4 DEF Operator

\* A step of an agent is its own business.
LEMMA OneAgent ==
    ASSUME Typed, NEW n \in Nodes, PassStep(n) \/ CleanupStep(n) \/ Crash(n) \/ Restart(n)
    PROVE  /\ file' = [file EXCEPT ![n] = file'[n]] /\ pc' = [pc EXCEPT ![n] = pc'[n]]
           /\ snap' = [snap EXCEPT ![n] = snap'[n]] /\ todo' = [todo EXCEPT ![n] = todo'[n]]
           /\ cur' = [cur EXCEPT ![n] = cur'[n]] /\ cand' = [cand EXCEPT ![n] = cand'[n]]
           /\ mem' = [mem EXCEPT ![n] = mem'[n]]
<1>1. CASE BeginPass(n) \/ FinishPass(n) \/ \E t \in Templates : Skip(n, t)
  BY <1>1 DEF Typed, TypeOK, BeginPass, FinishPass, Skip
<1>2. CASE \E t \in Templates : FindOwned(n, t) \/ FindNone(n, t)
  BY <1>2 DEF Typed, TypeOK, FindOwned, FindNone, ReconcileExisting, NextTemplate
<1>3. CASE Create(n) \/ CreateRefused(n) \/ Requery(n)
  BY <1>3 DEF Typed, TypeOK, Create, CreateRefused, Requery, ReconcileExisting, NextTemplate
<1>4. CASE Update(n) \/ UpdateRefused(n) \/ CallFails(n)
  BY <1>4 DEF Typed, TypeOK, Update, UpdateRefused, CallFails, NextTemplate
<1>5. CASE CleanupStep(n) \/ Crash(n) \/ Restart(n)
  BY <1>5 DEF Typed, TypeOK, CleanupStep, BeginCleanup, CleanupDelete, FinishCleanup,
     Crash, Restart
<1> QED
  BY <1>1, <1>2, <1>3, <1>4, <1>5 DEF PassStep

\* Types are kept by every step, with any provider and any comments.
LEMMA TypedStep ==
    ASSUME Typed, [Next]_vars
    PROVE  Typed'
<1>1. ASSUME zone' \subseteq Record, nextId' \in Nat \ {0},
             addr' \in [Nodes -> [Templates -> Contents]], cfg' \in [Nodes -> Config],
             stop' \in [Nodes -> BOOLEAN], UNCHANGED <<file, pc, snap, todo, cur, cand, mem>>,
             faults' \in 0..MaxFaults, changes' \in 0..MaxChanges
      PROVE  Typed'
  BY <1>1 DEF Typed, TypeOK
<1>2. CASE UNCHANGED vars
  BY <1>2 DEF vars, Typed, TypeOK
<1>3. CASE Operator
  <2>1. faults' \in 0..MaxFaults /\ changes' \in 0..MaxChanges
    BY <1>3, ReconcileAssumption DEF Operator, Change, Typed, TypeOK
  <2> QED
    BY <1>1, <1>3, <2>1, OperatorTyped DEF Operator, Agents, Typed, TypeOK
<1>4. ASSUME NEW n \in Nodes, EnvironmentStep(n) PROVE Typed'
  <2>1. faults' \in 0..MaxFaults /\ changes' \in 0..MaxChanges
    BY <1>4, FaultTyped
       DEF Typed, EnvironmentStep, Signal, DryRunChange, AddressChange, ConfigChange
  <2> QED
    BY <1>1, <1>4, <2>1, EnvironmentTyped DEF Typed, TypeOK
<1>5. ASSUME NEW n \in Nodes, PassStep(n) \/ CleanupStep(n) \/ Crash(n) \/ Restart(n)
      PROVE  Typed'
  <2>1. faults' \in 0..MaxFaults /\ changes' \in 0..MaxChanges
    BY <1>5, FaultTyped
       DEF Typed, PassStep, BeginPass, Skip, FindOwned, FindNone, Create, CreateRefused,
       Requery, Update, UpdateRefused, CallFails, FinishPass, CleanupStep, BeginCleanup,
       CleanupDelete, FinishCleanup, Crash, Restart
  <2>2. /\ file' = [file EXCEPT ![n] = file'[n]] /\ pc' = [pc EXCEPT ![n] = pc'[n]]
        /\ snap' = [snap EXCEPT ![n] = snap'[n]] /\ todo' = [todo EXCEPT ![n] = todo'[n]]
        /\ cur' = [cur EXCEPT ![n] = cur'[n]] /\ cand' = [cand EXCEPT ![n] = cand'[n]]
        /\ mem' = [mem EXCEPT ![n] = mem'[n]]
    BY <1>5, OneAgent
  <2>3. AgentTyped(n)' /\ zone' \subseteq Record /\ nextId' \in Nat \ {0}
    BY <1>5, AgentStepTyped, ZoneTyped
  <2>4. UNCHANGED <<addr, cfg>> /\ stop' \in [Nodes -> BOOLEAN]
    BY <1>5 DEF Typed, TypeOK, PassStep, BeginPass, Skip, FindOwned, FindNone, Create,
       CreateRefused, Requery, Update, UpdateRefused, CallFails, FinishPass, CleanupStep,
       BeginCleanup, CleanupDelete, FinishCleanup, Crash, Restart
  <2>5. TypeOK'
    BY <2>1, <2>2, <2>3, <2>4 DEF Typed, TypeOK, AgentTyped
  <2>6. ASSUME NEW m \in Nodes, pc'[m] \in Calling PROVE cur'[m] \in Templates
    BY <2>2, <2>3, <2>6 DEF Typed, TypeOK, AgentTyped
  <2> QED
    BY <2>5, <2>6 DEF Typed
<1> QED
  BY <1>2, <1>3, <1>4, <1>5 DEF Next

\* So they hold at every time.
LEMMA TypedHolds == Spec => []Typed
<1>1. Init => Typed
  BY ReconcileAssumption, IdleSnapshotTyped
     DEF Init, Typed, TypeOK, Config, Status, Places, Calling
<1>2. Typed /\ [Next]_vars => Typed'
  BY TypedStep
<1> QED
  BY <1>1, <1>2, PTL DEF Spec

\* Every variable keeps its type, whatever the provider and the comments.
THEOREM TypeCorrect == Spec => []TypeOK
<1>1. Typed => TypeOK
  BY DEF Typed
<1> QED
  BY <1>1, TypedHolds, PTL

\* A call is made for a template that was taken off the list of the pass, and
\* not in a dry run.
InHand ==
    \A n \in Nodes : pc[n] \in Calling => cur[n] \notin todo[n] /\ ~snap[n].cfg.dry

\* No step leads to a call other than that for the template just taken.
LEMMA InHandStep ==
    ASSUME TypeOK, InHand, [Next]_vars
    PROVE  InHand'
<1> DEFINE Fits(m) == pc[m] \in Calling => cur[m] \notin todo[m] /\ ~snap[m].cfg.dry
           Kept(m) == /\ pc'[m] = pc[m] /\ cur'[m] = cur[m]
                      /\ todo'[m] = todo[m] /\ snap'[m] = snap[m]
<1>1. \A m \in Nodes : Fits(m)
  BY DEF InHand
<1>2. ASSUME \A m \in Nodes : Kept(m) \/ Fits(m)' PROVE InHand'
  BY <1>1, <1>2 DEF InHand
<1>3. CASE UNCHANGED vars
  BY <1>2, <1>3 DEF vars
<1>4. CASE Operator
  BY <1>2, <1>4 DEF Operator, Agents
<1>5. ASSUME NEW n \in Nodes, PassStep(n) PROVE InHand'
  <2>1. \A m \in Nodes \ {n} : Kept(m)
    BY <1>5 DEF TypeOK, PassStep, BeginPass, Skip, FindOwned, FindNone, Create,
       CreateRefused, Requery, Update, UpdateRefused, CallFails, FinishPass,
       NextTemplate, ReconcileExisting
  <2>2. Fits(n)'
    BY <1>1, <1>5 DEF TypeOK, PassStep, BeginPass, Skip, FindOwned, FindNone, Create,
       CreateRefused, Requery, Update, UpdateRefused, CallFails, FinishPass,
       NextTemplate, ReconcileExisting, Calling
  <2> QED
    BY <1>2, <2>1, <2>2
<1>6. ASSUME NEW n \in Nodes, CleanupStep(n) \/ Crash(n) \/ Restart(n) \/ EnvironmentStep(n)
      PROVE  InHand'
  <2>1. \A m \in Nodes \ {n} : Kept(m)
    BY <1>6 DEF TypeOK, CleanupStep, BeginCleanup, CleanupDelete, FinishCleanup,
       Crash, Restart, EnvironmentStep, Signal, DryRunChange, AddressChange, ConfigChange
  <2>2. Kept(n) \/ Fits(n)'
    BY <1>6 DEF TypeOK, CleanupStep, BeginCleanup, CleanupDelete, FinishCleanup,
       Crash, Restart, EnvironmentStep, Signal, DryRunChange, AddressChange, ConfigChange,
       Calling
  <2> QED
    BY <1>2, <2>1, <2>2
<1> QED
  BY <1>3, <1>4, <1>5, <1>6 DEF Next

\* A call that writes is the step of an agent in its pass, or a deletion of
\* its cleanup.
LEMMA WhoWrites ==
    ASSUME NEW n \in Nodes, zone' # zone,
           PassStep(n) \/ CleanupStep(n) \/ Crash(n) \/ Restart(n) \/ EnvironmentStep(n)
    PROVE  pc[n] \in Calling \/ pc[n] = "cleanup"
BY DEF PassStep, BeginPass, Skip, FindOwned, FindNone, Create, CreateRefused, Requery,
   Update, UpdateRefused, CallFails, FinishPass, CleanupStep, BeginCleanup, CleanupDelete,
   FinishCleanup, Crash, Restart, EnvironmentStep, Signal, DryRunChange, AddressChange,
   ConfigChange, Calling

\* The agent of node m moves in its own steps only.
LEMMA WhoMoves ==
    ASSUME Typed, NEW n \in Nodes, NEW m \in Nodes, Moved(m),
           PassStep(n) \/ CleanupStep(n) \/ Crash(n) \/ Restart(n) \/ EnvironmentStep(n)
    PROVE  m = n
<1>1. CASE PassStep(n) \/ CleanupStep(n) \/ Crash(n) \/ Restart(n)
  BY <1>1, OneAgent DEF Moved, Typed, TypeOK
<1>2. CASE EnvironmentStep(n)
  BY <1>2 DEF Moved, EnvironmentStep, Signal, DryRunChange, AddressChange, ConfigChange
<1> QED
  BY <1>1, <1>2

\* A pass that began in a dry run leaves the zone as it is, whatever the
\* provider, and also when dryRun is switched off before it ends: all of
\* DryRunWritesNothing but for the cleanup (the run "dryrun").
DryPass ==
    [][\A n \in Nodes :
         Moved(n) /\ pc[n] # "cleanup" /\ snap[n].cfg.dry => zone' = zone]_vars

THEOREM DryPassWritesNothing == Spec => DryPass
<1> DEFINE Step == \A n \in Nodes :
                       Moved(n) /\ pc[n] # "cleanup" /\ snap[n].cfg.dry => zone' = zone
<1>1. Init => InHand
  BY DEF Init, InHand, Calling
<1>2. Typed /\ InHand /\ [Next]_vars => InHand'
  BY InHandStep DEF Typed
<1>3. Typed /\ InHand /\ [Next]_vars => [Step]_vars
  <2> SUFFICES ASSUME Typed, InHand, Next PROVE Step
    OBVIOUS
  <2> SUFFICES ASSUME NEW n \in Nodes, Moved(n), pc[n] # "cleanup", snap[n].cfg.dry
               PROVE  zone' = zone
    OBVIOUS
  <2>1. ~Operator
    BY DEF Operator, Agents, Moved
  <2>2. PassStep(n) \/ CleanupStep(n) \/ Crash(n) \/ Restart(n) \/ EnvironmentStep(n)
    BY <2>1, WhoMoves DEF Next
  <2>3. pc[n] \notin Calling
    BY DEF InHand
  <2> QED
    BY <2>2, <2>3, WhoWrites
<1>4. Spec => [][Step]_vars
  BY <1>1, <1>2, <1>3, TypedHolds, PTL DEF Spec
<1> QED
  BY <1>4 DEF DryPass

-----------------------------------------------------------------------------
(* The providers that write a record set as a whole.                       *)

\* A set holds what one agent wrote and what people added to it, and it is the
\* set of that agent's template.
OneWriter ==
    /\ \A r, s \in zone :
           r.slot = s.slot /\ r.by # Foreign /\ s.by # Foreign => r = s
    /\ \A n \in Nodes, t \in Templates :
           \A r \in zone : r.by = <<n, t>> => r.slot = SlotOf[n][t]

\* A call writes the set of its template and leaves the others alone.
LEMMA SetWritten ==
    ASSUME WritesWholeSet, Typed, OneWriter, NEW n \in Nodes, Create(n) \/ Update(n)
    PROVE  /\ OneWriter'
           /\ \A r \in zone \ zone' : r.slot = SlotOf[n][cur[n]]
<1>1. PICK id \in Nat :
          zone' = (zone \ At(zone, SlotOf[n][cur[n]])) \cup {Desired(n, cur[n], id)}
  BY DEF Typed, TypeOK, Create, Update, AfterCreate, AfterUpdate, Desired,
     NewId, DerivedId
<1> DEFINE new == Desired(n, cur[n], id)
<1>2. new.slot = SlotOf[n][cur[n]] /\ new.by = <<n, cur[n]>>
  BY DEF Desired
<1>3. cur[n] \in Templates
  BY DEF Typed, Create, Update, Calling
<1>4. zone' = (zone \ At(zone, SlotOf[n][cur[n]])) \cup {new}
  BY <1>1
<1> HIDE DEF new
<1>5. \A r \in zone' : r = new \/ (r \in zone /\ r.slot # SlotOf[n][cur[n]])
  BY <1>4 DEF At
<1> QED
  BY <1>2, <1>3, <1>4, <1>5 DEF OneWriter, At

\* What people do adds no second writer.
LEMMA SetEdited ==
    ASSUME Typed, OneWriter, Operator
    PROVE  OneWriter'
<1>1. CASE ForeignDelete
  BY <1>1 DEF ForeignDelete, OneWriter
<1>2. CASE ForeignEdit
  <2>1. PICK r \in zone, c \in ForeignContents :
            zone' = (zone \ {r}) \cup {[r EXCEPT !.content = c]}
    BY <1>2 DEF ForeignEdit
  <2> DEFINE new == [r EXCEPT !.content = c]
  <2>2. new.slot = r.slot /\ new.by = r.by
    BY DEF Typed, TypeOK, Record
  <2>3. zone' = (zone \ {r}) \cup {new}
    BY <2>1
  <2> HIDE DEF new
  <2> QED
    BY <2>2, <2>3 DEF OneWriter
<1>3. CASE ForeignAdd
  <2>1. PICK new : zone' = zone \cup {new} /\ new.by = Foreign
    BY <1>3 DEF ForeignAdd
  <2>2. \A n \in Nodes, t \in Templates : <<n, t>> # Foreign
    BY ReconcileAssumption DEF Writers
  <2> QED
    BY <2>1, <2>2 DEF OneWriter
<1> QED
  BY <1>1, <1>2, <1>3 DEF Operator

\* The other steps of an agent write nothing; a deletion names no record of
\* such a provider.
LEMMA SetKept ==
    ASSUME WritesWholeSet, NEW n \in Nodes, ~Create(n), ~Update(n),
           PassStep(n) \/ CleanupStep(n) \/ Crash(n) \/ Restart(n) \/ EnvironmentStep(n)
    PROVE  zone' = zone
<1>1. \A id : ~DeleteAccepted(zone, id)
  BY DEF DeleteAccepted, WritesWholeSet
<1> QED
  BY <1>1 DEF PassStep, BeginPass, Skip, FindOwned, FindNone, CreateRefused, Requery,
     UpdateRefused, CallFails, FinishPass, CleanupStep, BeginCleanup, CleanupDelete,
     FinishCleanup, Crash, Restart, EnvironmentStep, Signal, DryRunChange,
     AddressChange, ConfigChange

\* A record set never has two writers, whatever the comments.
LEMMA OneWriterHolds ==
    ASSUME WritesWholeSet
    PROVE  Spec => [](Typed /\ OneWriter)
<1>1. Init => Typed /\ OneWriter
  BY ReconcileAssumption, IdleSnapshotTyped
     DEF Init, Typed, TypeOK, Config, Status, Places, Calling, OneWriter
<1>2. Typed /\ OneWriter /\ [Next]_vars => (Typed /\ OneWriter)'
  <2> SUFFICES ASSUME Typed, OneWriter, [Next]_vars PROVE OneWriter'
    BY TypedStep
  <2>1. zone' = zone => OneWriter'
    BY DEF OneWriter
  <2>2. CASE UNCHANGED vars
    BY <2>1, <2>2 DEF vars
  <2>3. CASE Operator
    BY <2>3, SetEdited
  <2>4. ASSUME NEW n \in Nodes,
               PassStep(n) \/ CleanupStep(n) \/ Crash(n) \/ Restart(n) \/ EnvironmentStep(n)
        PROVE  OneWriter'
    BY <2>1, <2>4, SetWritten, SetKept
  <2> QED
    BY <2>2, <2>3, <2>4 DEF Next
<1> QED
  BY <1>1, <1>2, PTL DEF Spec

\* So with such a provider, too, no template ever has two records, and that
\* for any comments.
THEOREM OneRecordInSet ==
    ASSUME WritesWholeSet
    PROVE  Spec => []OwnUnique
<1>1. Typed /\ OneWriter => OwnUnique
  <2> SUFFICES ASSUME Typed, OneWriter, NEW r \in zone, NEW s \in zone,
                      r.by = s.by, r.by # Foreign
               PROVE  r = s
    BY DEF OwnUnique
  <2>1. r.by \in Writers
    BY DEF Typed, TypeOK, Record
  <2>2. PICK n \in Nodes, t \in Templates : r.by = <<n, t>>
    BY <2>1 DEF Writers
  <2>3. r.slot = SlotOf[n][t] /\ s.slot = SlotOf[n][t]
    BY <2>2 DEF OneWriter
  <2> QED
    BY <2>3 DEF OneWriter
<1> QED
  BY <1>1, OneWriterHolds, PTL

\* Where every name is that of one template, agents with such a provider take
\* no record away that another node wrote. The run "rrset" shows what happens
\* to a shared name.
THEOREM OwnNamesUnclobbered ==
    ASSUME WritesWholeSet, \A n \in Nodes, t \in Templates : ExclusiveSlot(n, t)
    PROVE  Spec => NoClobber
<1> DEFINE Step == \A n \in Nodes : Moved(n) =>
                     \A r \in zone \ zone' : r.by = Foreign \/ r.by[1] = n
<1>1. Typed /\ OneWriter /\ [Next]_vars => [Step]_vars
  <2> SUFFICES ASSUME Typed, OneWriter, Next PROVE Step
    OBVIOUS
  <2> SUFFICES ASSUME NEW n \in Nodes, Moved(n), NEW r \in zone \ zone', r.by # Foreign
               PROVE  r.by[1] = n
    OBVIOUS
  <2>1. CASE Operator
    BY <2>1 DEF Operator, Agents, Moved
  <2>2. ASSUME NEW m \in Nodes,
               PassStep(m) \/ CleanupStep(m) \/ Crash(m) \/ Restart(m) \/ EnvironmentStep(m)
        PROVE  r.by[1] = n
    <3>1. Create(m) \/ Update(m)
      BY <2>2, SetKept
    <3>2. m = n
      BY <2>2, WhoMoves
    <3>3. r.slot = SlotOf[n][cur[n]] /\ cur[n] \in Templates
      BY <3>1, <3>2, SetWritten DEF Typed, Create, Update, Calling
    <3>4. PICK l \in Nodes, u \in Templates : r.by = <<l, u>>
      BY DEF Typed, TypeOK, Record, Writers
    <3>5. SlotOf[l][u] = SlotOf[n][cur[n]]
      BY <3>3, <3>4 DEF OneWriter
    <3>6. \A w \in Writers \ {<<n, cur[n]>>} : SlotOf[w[1]][w[2]] # SlotOf[n][cur[n]]
      BY <3>3 DEF ExclusiveSlot
    <3>7. <<l, u>> \notin Writers \ {<<n, cur[n]>>}
      BY <3>5, <3>6
    <3>8. <<l, u>> = <<n, cur[n]>>
      BY <3>7 DEF Writers
    <3> QED
      BY <3>4, <3>8
  <2> QED
    BY <2>1, <2>2 DEF Next
<1>2. Spec => [][Step]_vars
  BY <1>1, OneWriterHolds, PTL DEF Spec
<1> QED
  BY <1>2 DEF NoClobber
=============================================================================
