---------------------------- MODULE DesiredState ----------------------------
(***************************************************************************)
(* What the agents promise about a zone they share, without the calls that *)
(* bring it about (DesignSpecification 4.2 to 4.4).                        *)
(*                                                                         *)
(* A pass looks once at what its node wants, and then brings about, one    *)
(* template after the other and each at most once, that the template is    *)
(* published at the address it saw, by one record of its own.  A record    *)
(* goes from one address to the next without a time at which there is      *)
(* none or there are two.  Records disappear only when the node leaves or  *)
(* somebody deletes them by hand; what people put into the zone stays,     *)
(* unless it stands at a name that is one template's alone.                *)
(*                                                                         *)
(* What the agents do and what is done to them are kept apart: only a step *)
(* of the environment counts as a change, so no step of an agent can pass  *)
(* for one.                                                                *)
(*                                                                         *)
(* Reconcile is shown to implement this module.                            *)
(***************************************************************************)
EXTENDS Naturals

CONSTANTS
    Nodes,
    Templates,
    Published,          \* Published[n][t]: the contents t can resolve to on node n
    SlotOf,             \* SlotOf[n][t]: its name and type
    Exclusive,          \* the <<n, t>> that share their name with no other
    ForeignContents,    \* what people write
    CleanupOnShutdown   \* the nodes that take their records away

VARIABLES
    addr,       \* addr[n][t]: what t resolves to on node n now
    wanted,     \* wanted[n]: the templates node n is configured to publish
    due,        \* due[n]: what its pass has still to do, <<template, address>>
    held,       \* held[n][t]: the contents of the records of t of node n
    foreign,    \* the records nobody's agent wrote
    leaving,    \* the nodes that are taking their records away
    changes     \* how often the environment has stepped in

vars == <<addr, wanted, due, held, foreign, leaving, changes>>

Init ==
    /\ addr \in [Nodes -> [Templates -> UNION {Published[n][t] : n \in Nodes, t \in Templates}]]
    /\ wanted \in [Nodes -> SUBSET Templates]
    /\ due = [n \in Nodes |-> {}]
    /\ held = [n \in Nodes |-> [t \in Templates |-> {}]]
    /\ foreign = {}
    /\ leaving = {}
    /\ changes = 0

\* A pass begins.
Look(n) ==
    /\ due[n] = {} /\ n \notin leaving
    /\ due' = [due EXCEPT ![n] = {<<t, addr[n][t]>> : t \in wanted[n]}]
    /\ UNCHANGED <<addr, wanted, held, foreign, leaving, changes>>

\* There is nothing to do for t, or it is left for the next pass.
Pass(n, t, c) ==
    /\ <<t, c>> \in due[n]
    /\ due' = [due EXCEPT ![n] = @ \ {<<t, c>>}]
    /\ UNCHANGED <<addr, wanted, held, foreign, leaving, changes>>

\* The record of t comes to be, or goes to the address seen; where the name
\* is the template's own it may be made of a record somebody left there.
Publish(n, t, c) ==
    /\ <<t, c>> \in due[n]
    /\ due' = [due EXCEPT ![n] = @ \ {<<t, c>>}]
    /\ held' = [held EXCEPT ![n][t] = {c}]
    /\ \/ UNCHANGED foreign
       \/ /\ held[n][t] = {} /\ <<n, t>> \in Exclusive
          /\ \E r \in foreign : r.slot = SlotOf[n][t] /\ foreign' = foreign \ {r}
    /\ UNCHANGED <<addr, wanted, leaving, changes>>

\* The agent ends or dies, in a pass or while it takes its records away.
Halt(n) ==
    /\ due' = [due EXCEPT ![n] = {}]
    /\ leaving' = leaving \ {n}
    /\ UNCHANGED <<addr, wanted, held, foreign, changes>>

Leave(n) ==
    /\ n \in CleanupOnShutdown /\ due[n] = {}
    /\ leaving' = leaving \cup {n}
    /\ UNCHANGED <<addr, wanted, due, held, foreign, changes>>

Withdraw(n, t) ==
    /\ n \in leaving
    /\ held' = [held EXCEPT ![n][t] = {}]
    /\ UNCHANGED <<addr, wanted, due, foreign, leaving, changes>>

-----------------------------------------------------------------------------
(* The environment.                                                        *)

Change == changes' = changes + 1

\* The address of a template moves.
Move(n, t) ==
    /\ \E c \in Published[n][t] : addr' = [addr EXCEPT ![n][t] = c]
    /\ Change
    /\ UNCHANGED <<wanted, due, held, foreign, leaving>>

Configure(n) ==
    /\ \E w \in SUBSET Templates : wanted' = [wanted EXCEPT ![n] = w]
    /\ Change
    /\ UNCHANGED <<addr, due, held, foreign, leaving>>

\* People delete or edit the record of an agent.
Tamper ==
    /\ \E n \in Nodes, t \in Templates :
         /\ held[n][t] # {}
         /\ \/ held' = [held EXCEPT ![n][t] = {}]
            \/ \E c \in ForeignContents : held' = [held EXCEPT ![n][t] = {c}]
    /\ UNCHANGED foreign

\* People add, delete or edit a record that is nobody's.
Handwork ==
    /\ \/ \E r \in foreign' \ foreign : foreign' = foreign \cup {r}
       \/ \E r \in foreign : foreign' = foreign \ {r}
       \/ \E r \in foreign, c \in ForeignContents :
              foreign' = (foreign \ {r}) \cup {[r EXCEPT !.content = c]}
    /\ UNCHANGED held

\* People do one of these, or ask an agent to stop, of which the promise sees
\* nothing until it does.
Interfere ==
    /\ Tamper \/ Handwork \/ UNCHANGED <<held, foreign>>
    /\ Change
    /\ UNCHANGED <<addr, wanted, due, leaving>>

-----------------------------------------------------------------------------
NodeStep(n) ==
    \/ Look(n) \/ Halt(n) \/ Leave(n) \/ Configure(n)
    \/ \E t \in Templates :
         \/ \E c \in Published[n][t] : Pass(n, t, c) \/ Publish(n, t, c)
         \/ Withdraw(n, t) \/ Move(n, t)

Next == (\E n \in Nodes : NodeStep(n)) \/ Interfere

Spec == Init /\ [][Next]_vars
=============================================================================
