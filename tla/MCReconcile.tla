---------------------------- MODULE MCReconcile ----------------------------
(***************************************************************************)
(* Instances of Reconcile for TLC.  Two nodes n1 and n2 with templates t1  *)
(* and t2; what they publish and under which name differs by the run.      *)
(***************************************************************************)
EXTENDS Reconcile

CONSTANTS n1, n2, t1, t2

MCKeys == {"nodeId", "app"}
MCValues == {"", "alpha", "beta", "web"}
MCOccurs == {<<v, v>> : v \in MCValues} \cup {<<"", w>> : w \in MCKeys \cup MCValues}

\* {'nodeId': '${NODE_ID}', 'app': 'web'}; n2 leaves out the second key.
IdentityOf(n) == IF n = n1 THEN {<<"nodeId", "alpha">>, <<"app", "web">>}
                           ELSE {<<"nodeId", "beta">>}

MCCommentOf ==
    [n \in Nodes |-> [t \in Templates |->
        [says |-> JsonComment(IdentityOf(n)), long |-> FALSE, kept |-> {}]]]

MCTagsOf ==
    [n \in Nodes |-> [t \in Templates |->
        IF t = t2 THEN {<<"nodeId", IF n = n1 THEN "alpha" ELSE "beta">>} ELSE {}]]

MCForeignComments == {[form |-> "text", pairs |-> {}, words |-> {"app"}]}

\* Round-robin: every node registers its own address under one name.
SharedSlot == [n \in Nodes |-> [t \in Templates |-> "service/A"]]
DistinctAddresses ==
    [n \in Nodes |-> [t \in Templates |-> IF n = n1 THEN {"10.0.0.1", "10.0.0.2"}
                                                    ELSE {"10.0.0.3"}]]

\* Each node and template has its own name; records of the same content may
\* have been there before.
OwnSlot == [n \in Nodes |-> [t \in Templates |-> IF t = t1 THEN "first/A" ELSE "second/A"]]
AnyAddress == [n \in Nodes |-> [t \in Templates |-> {"10.0.0.1", "10.0.0.2"}]]

\* Two templates of one node with the same comment, as a container in two
\* routable networks is given, publish an address each under one name.
TwinAddresses ==
    [n \in Nodes |-> [t \in Templates |-> IF t = t1 THEN {"10.0.0.1"} ELSE {"10.0.0.2"}]]
=============================================================================
