-------------------------- MODULE RecognitionProofs --------------------------
(***************************************************************************)
(* Proofs about Recognition, for any keys and values and any relation of   *)
(* occurrence among them.                                                  *)
(***************************************************************************)
EXTENDS Recognition, TLAPS

Inv == mine \in UserComments /\ theirs \in UserComments

\* The comments stay what a template can have.
LEMMA Configured == Spec => []Inv
<1>1. Init => Inv
  BY DEF Init, Inv
<1>2. Inv /\ [Next]_vars => Inv'
  BY DEF Inv, Next, vars
<1> QED
  BY <1>1, <1>2, PTL DEF Spec

\* What a node writes holds one value for a key, and the ownership map is
\* made of the pairs of the comment as written.
LEMMA WrittenComment ==
    ASSUME NEW user \in UserComments
    PROVE  /\ Ownership(user) = BuildOwnershipComment(user).pairs
           /\ IsMap(Ownership(user))
           /\ Ownership(user) # {} => BuildOwnershipComment(user).form = "json"
           /\ \A q \in Ownership(user) :
                 q[1] \in Keys /\ q[1] \in BuildOwnershipComment(user).words
<1> DEFINE c == BuildOwnershipComment(user)
<1>1. CASE user.long
  <2>1. c.form = "text" /\ c.pairs = {}
    BY <1>1 DEF BuildOwnershipComment
  <2> QED
    BY <2>1 DEF Ownership, ParseCommentAsOwnership, IsMap
<1>2. CASE ~user.long
  <2>1. user.says \in {JsonComment(m) : m \in Maps} \cup Texts \cup {NoComment}
    BY <1>2 DEF UserComments
  <2>2. c = user.says
    BY <1>2 DEF BuildOwnershipComment
  <2>3. CASE \E m \in Maps : user.says = JsonComment(m)
    BY <2>2, <2>3 DEF JsonComment, Maps, Pairs, Ownership, ParseCommentAsOwnership
  <2>4. CASE user.says \in Texts \cup {NoComment}
    <3>1. user.says.form # "json" /\ user.says.pairs = {}
      BY <2>4 DEF Texts, NoComment
    <3> QED
      BY <2>2, <3>1 DEF Ownership, ParseCommentAsOwnership, IsMap
  <2> QED
    BY <2>1, <2>3, <2>4
<1> QED
  BY <1>1, <1>2

\* A node finds its own record again, whatever comment it is configured with.
THEOREM OwnRecordFound == Spec => []FindsItsOwn
<1>1. ASSUME Inv PROVE FindsItsOwn
  <2> DEFINE r == RecordOf("me", mine)
             own == Ownership(mine)
  <2>1. r \in Listing /\ r.slot = here /\ r.by = "me"
        /\ r.comment = BuildOwnershipComment(mine)
    BY DEF Listing, RecordOf
  <2>2. CASE own = {}
    BY <2>1, <2>2
       DEF FindsItsOwn, Takes, FindOwnedRecord, MatchOwnershipByTags,
           MatchOwnershipByComment
  <2>3. CASE own # {}
    <3>1. /\ r.comment.form = "json" /\ own = r.comment.pairs /\ IsMap(own)
      BY <1>1, <2>1, <2>3, WrittenComment DEF Inv
    <3>2. MatchOwnershipByCommentJSON(r.comment, own)
      BY <2>3, <3>1 DEF MatchOwnershipByCommentJSON, IsMap
    <3>3. MatchOwnershipByComment(r.comment, own)
      BY <2>3, <3>1, <3>2 DEF MatchOwnershipByComment
    <3>4. r \in FindOwnedRecord(Listing, here, own)
      BY <2>1, <3>3 DEF FindOwnedRecord
    <3> QED
      BY <2>1, <3>4 DEF FindsItsOwn, Takes
  <2> QED
    BY <2>2, <2>3
<1> QED
  BY <1>1, Configured, PTL

\* The records of a listing that a node with ownership keys takes all match.
LEMMA TakenMatches ==
    ASSUME Ownership(mine) # {}
    PROVE  Takes("them") <=>
             MatchOwnershipByComment(BuildOwnershipComment(theirs), Ownership(mine))
<1>1. \A r \in Listing :
        /\ r.slot = here /\ r.tags = {}
        /\ r.by = "them" <=> r = RecordOf("them", theirs)
  BY DEF Listing, RecordOf
<1>2. /\ RecordOf("them", theirs) \in Listing
      /\ RecordOf("them", theirs).comment = BuildOwnershipComment(theirs)
  BY DEF Listing, RecordOf
<1>3. FindOwnedRecord(Listing, here, Ownership(mine)) =
        {r \in Listing : MatchOwnershipByComment(r.comment, Ownership(mine))}
  BY <1>1 DEF FindOwnedRecord, MatchOwnershipByTags
<1> QED
  BY <1>1, <1>2, <1>3 DEF Takes

\* A node leaves alone a record whose comment disagrees in a value that
\* occurs nowhere in it.
THEOREM OthersLeftAlone == Spec => []LeavesTheirs
<1>1. ASSUME Inv PROVE LeavesTheirs
  <2> SUFFICES ASSUME NEW p \in Ownership(mine), NEW q \in TheirPairs,
                      Disagree(p, q), \A w \in TheirWords : <<p[2], w>> \notin Occurs
               PROVE  ~Takes("them")
    BY DEF LeavesTheirs
  <2> DEFINE c == BuildOwnershipComment(theirs)
  <2>1. ~MatchOwnershipByCommentJSON(c, Ownership(mine))
    BY DEF MatchOwnershipByCommentJSON, TheirPairs, Disagree
  <2>2. p[2] # EmptyValue
    <3>1. q[1] \in Keys /\ q[1] \in TheirWords
      BY <1>1, WrittenComment DEF Inv, TheirPairs, TheirWords
    <3> QED
      BY <3>1, OwnershipAssumption
  <2>3. ~MatchOwnershipByCommentRegex(c, Ownership(mine))
    BY <2>2 DEF MatchOwnershipByCommentRegex, TheirWords
  <2> QED
    BY <2>1, <2>3, TakenMatches DEF MatchOwnershipByComment
<1> QED
  BY <1>1, Configured, PTL

\* A template may gain and lose pairs without losing its record.
THEOREM EditSurvived == Spec => []SurvivesEdit
<1>1. ASSUME Inv PROVE SurvivesEdit
  <2> SUFFICES ASSUME NEW p \in Ownership(mine), NEW q \in TheirPairs, p = q,
                      ~\E u \in Ownership(mine), v \in TheirPairs : Disagree(u, v)
               PROVE  Takes("them")
    BY DEF SurvivesEdit
  <2> DEFINE c == BuildOwnershipComment(theirs)
  <2>1. Ownership(theirs) = c.pairs
    BY <1>1, WrittenComment DEF Inv
  <2>2. c.form = "json"
    BY <1>1, <2>1, WrittenComment DEF Inv, TheirPairs
  <2>3. MatchOwnershipByCommentJSON(c, Ownership(mine))
    BY <2>2 DEF MatchOwnershipByCommentJSON, TheirPairs, Disagree
  <2>4. MatchOwnershipByComment(c, Ownership(mine))
    BY <2>2, <2>3 DEF MatchOwnershipByComment
  <2> QED
    BY <2>4, TakenMatches
<1> QED
  BY <1>1, Configured, PTL
=============================================================================
