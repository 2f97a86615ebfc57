----------------------------- MODULE Ownership -----------------------------
(***************************************************************************)
(* How a node recognises its own records (internal/reconcile/helpers.go).  *)
(*                                                                         *)
(* The reconciler keeps no index of the records it wrote: each pass it     *)
(* lists the records at the name and decides from what the provider        *)
(* returns which of them is its own.  The proof of ownership is the        *)
(* comment the node writes, read as a JSON object; its pairs are the       *)
(* ownership map.                                                          *)
(*                                                                         *)
(* Abstractions: strings stand for their case-insensitive class, as every  *)
(* comparison below goes through strings.EqualFold or (?i); a comment is   *)
(* its form, the pairs of its JSON object, and the words that can be found *)
(* in its text.  The order in which a provider lists records is not fixed  *)
(* by the code, so "the first that matches" is any that matches.           *)
(***************************************************************************)

CONSTANTS
    Keys,        \* names of ownership pairs and tags
    Values,      \* their values
    EmptyValue,  \* the empty string, as a value
    Occurs       \* <<v, w>>: value v occurs as a substring of the word w

ASSUME OwnershipAssumption ==
    /\ EmptyValue \in Values
    /\ Occurs \subseteq Values \X (Keys \cup Values)
    /\ \A v \in Values : <<v, v>> \in Occurs
    /\ \A w \in Keys \cup Values : <<EmptyValue, w>> \in Occurs

-----------------------------------------------------------------------------
(* Comments and tags.                                                      *)

Words == Keys \cup Values

Pairs == Keys \X Values

\* "none" is the empty comment, "json" one that unmarshals into
\* map[string]string, "text" any other.
Comment == [form : {"none", "text", "json"}, pairs : SUBSET Pairs, words : SUBSET Words]

NoComment == [form |-> "none", pairs |-> {}, words |-> {}]

\* The comment holding the JSON object with these pairs: its keys and values
\* are the words of its text.
JsonComment(pairs) ==
    [form |-> "json", pairs |-> pairs,
     words |-> {p[1] : p \in pairs} \cup {p[2] : p \in pairs}]

\* A JSON object has one value for a key.
IsMap(pairs) == \A p, q \in pairs : p[1] = q[1] => p = q

\* The comment of a template after variable expansion: what it says, whether
\* it is longer than maxCommentLength, and the words the cut leaves.
UserComment == [says : Comment, long : BOOLEAN, kept : SUBSET Words]

\* A comment over the limit loses its end: what remains of a JSON object has
\* no closing brace and is text.
BuildOwnershipComment(user) ==
    IF user.long
    THEN [form |-> "text", pairs |-> {}, words |-> user.kept]
    ELSE user.says

ParseCommentAsOwnership(comment) ==
    IF comment.form = "json" THEN comment.pairs ELSE {}

-----------------------------------------------------------------------------
(* Matching.                                                               *)

MatchOwnershipByTags(tags, ownership) ==
    /\ tags # {}
    /\ ownership # {}
    /\ ownership \subseteq tags

\* Mutant: every key has to be present.
MatchAllKeys(comment, ownership) ==
    comment.form = "json" /\ ownership \subseteq comment.pairs

\* Keys absent from the comment are skipped, a present key must agree, and
\* one key at least must be present.
MatchOwnershipByCommentJSON(comment, ownership) ==
    /\ comment.form = "json"
    /\ \A p \in ownership, q \in comment.pairs : p[1] = q[1] => p[2] = q[2]
    /\ \E p \in ownership, q \in comment.pairs : p[1] = q[1]

\* Mutant: one value found is enough.
MatchAnyValue(comment, ownership) ==
    \E p \in ownership : \E w \in comment.words : <<p[2], w>> \in Occurs

\* Every non-empty value is looked for in the text of the comment.
MatchOwnershipByCommentRegex(comment, ownership) ==
    \A p \in ownership :
        p[2] # EmptyValue => \E w \in comment.words : <<p[2], w>> \in Occurs

\* Mutant: an object is compared and anything else searched.
MatchObjectOrText(comment, ownership) ==
    /\ ownership # {}
    /\ \/ MatchOwnershipByCommentJSON(comment, ownership)
       \/ comment.form = "text" /\ MatchOwnershipByCommentRegex(comment, ownership)

\* The text search is tried whenever the JSON comparison says no, also when
\* the comment is a JSON object whose values disagree.
MatchOwnershipByComment(comment, ownership) ==
    /\ comment.form # "none"
    /\ ownership # {}
    /\ \/ MatchOwnershipByCommentJSON(comment, ownership)
       \/ MatchOwnershipByCommentRegex(comment, ownership)

\* Mutants: a record of the name and type will do whenever none matches; it
\* never will.
FindOwnedByName(existing, slot, ownership) ==
    LET named   == {r \in existing : r.slot = slot}
        matched == {r \in named : MatchOwnershipByComment(r.comment, ownership)}
    IN IF matched = {} THEN named ELSE matched

FindOwnedByKeysOnly(existing, slot, ownership) ==
    {r \in existing : /\ r.slot = slot
                      /\ \/ MatchOwnershipByTags(r.tags, ownership)
                         \/ MatchOwnershipByComment(r.comment, ownership)}

\* The records of the listing that count as owned: those that carry the
\* ownership pairs or, when there are no pairs to look for, all of them.
FindOwnedRecord(existing, slot, ownership) ==
    LET named   == {r \in existing : r.slot = slot}
        matched == {r \in named : \/ MatchOwnershipByTags(r.tags, ownership)
                                  \/ MatchOwnershipByComment(r.comment, ownership)}
    IN IF matched = {} /\ ownership = {} THEN named ELSE matched
=============================================================================
