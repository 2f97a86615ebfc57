-------------------------- MODULE TemplatesProofs --------------------------
(***************************************************************************)
(* The comments of Templates are comments of Recognition, so that what is  *)
(* proved of the one holds of the other; and what is special about the     *)
(* comments of one template, expanded twice.                               *)
(***************************************************************************)
EXTENDS Templates, RecognitionProofs

\* What the comments are made of.
TemplatesInv ==
    /\ kind \in {"record", "container"} /\ provider \in CommentTexts
    /\ text \in CommentTexts /\ ctx \in Contexts
    /\ theirText \in CommentTexts /\ theirCtx \in Contexts
    /\ mine = CommentOf(text, ctx) /\ theirs = CommentOf(theirText, theirCtx)

TemplatesNext == EditTemplate \/ ValuesChange

LEMMA TemplatesInvHolds == TemplatesSpec => []TemplatesInv
<1>1. TemplatesInit => TemplatesInv
  BY InheritedAssumption DEF TemplatesInit, TemplatesInv
<1>2. TemplatesInv /\ [TemplatesNext]_templateVars => TemplatesInv'
  <2> SUFFICES ASSUME TemplatesInv, [TemplatesNext]_templateVars PROVE TemplatesInv'
    OBVIOUS
  <2>1. CASE EditTemplate
    BY <2>1 DEF EditTemplate, TemplatesInv, Contexts, CommentOf, MergeDefaults, MergeContainerDefaults
  <2>2. CASE ValuesChange
    BY <2>2 DEF ValuesChange, TemplatesInv, Contexts, CommentOf, MergeDefaults, MergeContainerDefaults
  <2>3. CASE UNCHANGED templateVars
    BY <2>3 DEF templateVars, TemplatesInv, Contexts, CommentOf, MergeDefaults, MergeContainerDefaults
  <2> QED
    BY <2>1, <2>2, <2>3 DEF TemplatesNext
<1> QED
  BY <1>1, <1>2, PTL DEF TemplatesSpec, TemplatesNext

-----------------------------------------------------------------------------
(* Expansion.                                                              *)

\* What a template is expanded with are values of what it names.
LEMMA ContextValues ==
    ASSUME NEW c \in Contexts
    PROVE  \A v \in DOMAIN c : v \in Variables /\ c[v] \in Known[v]
<1>1. CASE c \in BuildContext
  BY <1>1, TemplatesAssumption DEF BuildContext
<1>2. CASE c \in BuildContainerContext
  <2>1. PICK labels \in SUBSET (Variables \ HostVariables) :
            /\ DOMAIN c = HostVariables \cup labels
            /\ \A v \in HostVariables \cup labels : c[v] \in Known[v]
    BY <1>2 DEF BuildContainerContext
  <2> QED
    BY <2>1, TemplatesAssumption
<1> QED
  BY <1>1, <1>2 DEF Contexts

LEMMA ExpandedValue ==
    ASSUME NEW c \in Contexts, NEW term \in Terms
    PROVE  Expand(term, c) \in Values
<1>1. \A v \in DOMAIN c : c[v] \in Values
  BY ContextValues, TemplatesAssumption
<1> QED
  BY <1>1, TemplatesAssumption DEF Expand, Terms

\* The text a template's comment comes from: its own, or its provider's.
TextOf(own) == IF kind = "record" THEN MergeDefaults(own) ELSE MergeContainerDefaults(own)

\* The pairs of its JSON object, expanded.
PairsOf(own, c) == {<<p[1], Expand(p[2], c)>> : p \in TextOf(own).terms}

\* The comment as the three forms have it.
LEMMA CommentForms ==
    ASSUME NEW own, NEW c
    PROVE  CommentOf(own, c) =
             CASE TextOf(own).form = "json" ->
                    [says |-> JsonComment(PairsOf(own, c)), long |-> TextOf(own).long,
                     kept |-> IF TextOf(own).long THEN {p[1] : p \in PairsOf(own, c)} ELSE {}]
               [] TextOf(own).form = "text" ->
                    [says |-> [form |-> "text", pairs |-> {}, words |-> TextOf(own).words],
                     long |-> FALSE, kept |-> {}]
               [] OTHER -> [says |-> NoComment, long |-> FALSE, kept |-> {}]
BY DEF CommentOf, TextOf, PairsOf

LEMMA TextTypes ==
    ASSUME NEW t \in CommentTexts
    PROVE  /\ t.form \in {"json", "text", "none"} /\ t.long \in BOOLEAN
           /\ t.form = "json" => t.terms \in SUBSET (Keys \X Terms) /\ IsMap(t.terms)
           /\ t.form = "json" /\ t.long => t.terms # {}
           /\ t.form = "text" => t.words \in SUBSET Literals
<1> DEFINE maps == {m \in SUBSET (Keys \X Terms) : IsMap(m)}
<1>1. CASE t \in [form : {"json"}, terms : maps, words : {{}}, long : {FALSE}]
  BY <1>1
<1>2. CASE t \in [form : {"json"}, terms : maps \ {{}}, words : {{}}, long : {TRUE}]
  BY <1>2
<1>3. CASE t \in [form : {"text"}, terms : {{}}, words : SUBSET Literals, long : {FALSE}]
  BY <1>3
<1>4. CASE t = NoText
  BY <1>4 DEF NoText
<1> QED
  BY <1>1, <1>2, <1>3, <1>4 DEF CommentTexts

\* However a template is written and expanded, its comment is one that
\* Recognition is about: a JSON object with one value for a key, or a text.
LEMMA ExpandedComment ==
    ASSUME NEW own \in CommentTexts, NEW c \in Contexts, provider \in CommentTexts
    PROVE  CommentOf(own, c) \in UserComments
<1> DEFINE t == TextOf(own)
           m == PairsOf(own, c)
<1>1. t \in CommentTexts
  BY DEF TextOf, MergeDefaults, MergeContainerDefaults
<1>2. CASE t.form = "json"
  <2>1. t.terms \in SUBSET (Keys \X Terms) /\ IsMap(t.terms)
    BY <1>1, <1>2, TextTypes
  <2>2. m \in SUBSET Pairs
    BY <2>1, ExpandedValue DEF PairsOf, Pairs
  <2>3. IsMap(m)
    BY <2>1 DEF IsMap, PairsOf
  <2>4. m \in Maps
    BY <2>2, <2>3 DEF Maps
  <2>5. t.long => m # {}
    BY <1>1, <1>2, TextTypes DEF PairsOf
  <2>6. t.long \in BOOLEAN
    BY <1>1, TextTypes
  <2> HIDE DEF t, m
  <2>7. CommentOf(own, c) = [says |-> JsonComment(m), long |-> t.long,
                             kept |-> IF t.long THEN {p[1] : p \in m} ELSE {}]
    BY <1>2, CommentForms DEF t, m
  <2>8. CASE t.long
    BY <2>4, <2>5, <2>7, <2>8 DEF UserComments
  <2>9. CASE ~t.long
    <3>1. CommentOf(own, c) = [says |-> JsonComment(m), long |-> FALSE, kept |-> {}]
      BY <2>6, <2>7, <2>9
    <3> QED
      BY <2>4, <3>1 DEF UserComments
  <2> QED
    BY <2>8, <2>9
<1>3. CASE t.form = "text"
  <2>1. [form |-> "text", pairs |-> {}, words |-> t.words] \in Texts
    BY <1>1, <1>3, TextTypes, TemplatesAssumption DEF Texts
  <2> QED
    BY <1>3, <2>1, CommentForms DEF UserComments
<1>4. CASE t.form = "none"
  BY <1>4, CommentForms DEF UserComments
<1> QED
  BY <1>1, <1>2, <1>3, <1>4, TextTypes

-----------------------------------------------------------------------------
(* What holds of all comments holds of these.                              *)

\* Templates implements Recognition: whatever is inherited and expanded, an
\* edit or another value is a new comment of that module.
THEOREM TemplatesAreRecognised == TemplatesSpec => Spec
<1>1. TemplatesInv => Inv
  BY ExpandedComment DEF TemplatesInv, Inv
<1>2. Inv' /\ [TemplatesNext]_templateVars => [Next]_vars
  BY DEF Inv, TemplatesNext, EditTemplate, ValuesChange, templateVars, Next, vars
<1>3. Inv => Init
  BY DEF Inv, Init
<1> QED
  BY <1>1, <1>2, <1>3, TemplatesInvHolds, PTL DEF TemplatesSpec, TemplatesNext, Spec

\* A node finds its own record, whatever its template inherits and whatever
\* its variables stand for.
THEOREM TemplateFindsItsOwn == TemplatesSpec => []FindsItsOwn
BY TemplatesAreRecognised, OwnRecordFound, PTL

\* It leaves alone the record of a template that disagrees with its own.
THEOREM TemplateLeavesTheirs == TemplatesSpec => []LeavesTheirs
BY TemplatesAreRecognised, OthersLeftAlone, PTL

\* It keeps the record when its template gains or loses pairs.
THEOREM TemplateSurvivesEdit == TemplatesSpec => []SurvivesEdit
BY TemplatesAreRecognised, EditSurvived, PTL

\* A node without ownership keys takes any record of the name and type.
LEMMA KeylessTakesAll ==
    ASSUME Ownership(mine) = {}
    PROVE  Takes("them")
<1>1. /\ RecordOf("them", theirs) \in Listing
      /\ RecordOf("them", theirs).slot = here /\ RecordOf("them", theirs).by = "them"
  BY DEF Listing, RecordOf
<1>2. RecordOf("them", theirs) \in FindOwnedRecord(Listing, here, Ownership(mine))
  BY <1>1 DEF FindOwnedRecord, MatchOwnershipByTags, MatchOwnershipByComment
<1> QED
  BY <1>1, <1>2 DEF Takes

\* With values of the host that cannot be had, a node finds its record still,
\* for any template, variables and values.
THEOREM TemplateToleratesLoss == TemplatesSpec => []LossTolerated
<1>1. ASSUME TemplatesInv PROVE LossTolerated
  <2> SUFFICES ASSUME text = theirText, DOMAIN ctx = DOMAIN theirCtx,
                      \A x \in DOMAIN ctx : ctx[x] \in {theirCtx[x], EmptyValue},
                      Ownership(mine) # {}
               PROVE  Takes("them")
    BY KeylessTakesAll DEF LossTolerated
  <2> DEFINE c == BuildOwnershipComment(theirs)
  <2>1. TextOf(text).form = "json" /\ ~TextOf(text).long
    BY <1>1, CommentForms DEF TemplatesInv, Ownership, BuildOwnershipComment,
       ParseCommentAsOwnership, NoComment
  <2>2. Ownership(mine) = PairsOf(text, ctx)
    BY <1>1, <2>1, CommentForms DEF TemplatesInv, Ownership, BuildOwnershipComment,
       ParseCommentAsOwnership, JsonComment
  <2>3. c = JsonComment(PairsOf(text, theirCtx))
    BY <1>1, <2>1, CommentForms DEF TemplatesInv, BuildOwnershipComment
  <2>4. ASSUME NEW p \in Ownership(mine), p[2] # EmptyValue
        PROVE  \E w \in c.words : <<p[2], w>> \in Occurs
    <3>1. PICK q \in TextOf(text).terms : p = <<q[1], Expand(q[2], ctx)>>
      BY <2>2 DEF PairsOf
    <3>2. Expand(q[2], ctx) = Expand(q[2], theirCtx)
      BY <2>4, <3>1 DEF Expand
    <3>3. <<q[1], p[2]>> \in PairsOf(text, theirCtx)
      BY <3>1, <3>2 DEF PairsOf
    <3>4. p[2] \in c.words
      BY <2>3, <3>3 DEF JsonComment
    <3>5. p[2] \in Values
      BY <1>1, <2>1, <3>1, ExpandedValue, TextTypes
         DEF TemplatesInv, TextOf, MergeDefaults, MergeContainerDefaults
    <3> QED
      BY <3>4, <3>5, OwnershipAssumption
  <2>5. c.form = "json"
    BY <2>3 DEF JsonComment
  <2>6. MatchOwnershipByComment(c, Ownership(mine))
    BY <2>4, <2>5 DEF MatchOwnershipByComment, MatchOwnershipByCommentRegex
  <2> QED
    BY <2>6, TakenMatches
<1> QED
  BY <1>1, TemplatesInvHolds, PTL
=============================================================================
