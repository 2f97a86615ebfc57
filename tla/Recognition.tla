---------------------------- MODULE Recognition ----------------------------
(***************************************************************************)
(* Whose records a node takes for its own, for every pair of comments: the *)
(* one its template is configured with, and the one another author left on *)
(* a record of the same name.  A step gives the node a new comment, as an  *)
(* edited template does.                                                   *)
(***************************************************************************)
EXTENDS Ownership

CONSTANT here    \* the name and type both records are at

VARIABLES mine, theirs

vars == <<mine, theirs>>

Maps == {m \in SUBSET Pairs : IsMap(m)}

Texts == [form : {"text"}, pairs : {{}}, words : SUBSET Values]

\* Comments that fit, and JSON objects that do not.
UserComments ==
    {[says |-> c, long |-> FALSE, kept |-> {}] :
        c \in {JsonComment(m) : m \in Maps} \cup Texts \cup {NoComment}}
    \cup {[says |-> JsonComment(m), long |-> TRUE, kept |-> {p[1] : p \in m}] :
        m \in Maps \ {{}}}

Init == mine \in UserComments /\ theirs \in UserComments

Next == mine' \in UserComments /\ UNCHANGED theirs

Spec == Init /\ [][Next]_vars

-----------------------------------------------------------------------------
Ownership(user) == ParseCommentAsOwnership(BuildOwnershipComment(user))

RecordOf(author, user) ==
    [by |-> author, slot |-> here, comment |-> BuildOwnershipComment(user), tags |-> {}]

Listing == {RecordOf("me", mine), RecordOf("them", theirs)}

Takes(author) ==
    \E r \in FindOwnedRecord(Listing, here, Ownership(mine)) : r.by = author

\* p and q speak of the same thing and disagree.
Disagree(p, q) == p[1] = q[1] /\ p[2] # q[2]

TheirPairs == BuildOwnershipComment(theirs).pairs

TheirWords == BuildOwnershipComment(theirs).words

\* Whatever comment a template has, none at all or one that was cut, the node
\* finds again the record it wrote itself (helpers.go:85-111).
FindsItsOwn == Takes("me")

\* A node leaves alone a record whose comment disagrees with its own in a
\* value that cannot be read into the other comment anywhere.
LeavesTheirs ==
    (\E p \in Ownership(mine), q \in TheirPairs :
        /\ Disagree(p, q)
        /\ \A w \in TheirWords : <<p[2], w>> \notin Occurs)
    => ~Takes("them")

\* Adding or dropping pairs of a template's comment does not orphan the
\* record that was written before: one pair in common and none in
\* disagreement is enough (helpers.go:193-219).
SurvivesEdit ==
    /\ \E p \in Ownership(mine), q \in TheirPairs : p = q
    /\ ~\E p \in Ownership(mine), q \in TheirPairs : Disagree(p, q)
    => Takes("them")
=============================================================================
