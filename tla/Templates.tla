------------------------------ MODULE Templates ------------------------------
(***************************************************************************)
(* Where the comments of Recognition come from: a template of the          *)
(* configuration, with what it inherits (internal/config/defaults.go),     *)
(* expanded with the values of its host (internal/expansion).  The record  *)
(* of "them" was written with the same provider, by another node, or by    *)
(* this one when its template or its host had been different.              *)
(*                                                                         *)
(* Abstractions: a value of a JSON comment is one term, a word or a        *)
(* variable; a text comment has no variables.                              *)
(***************************************************************************)
EXTENDS Recognition

CONSTANTS
    Literals,       \* words templates have
    Variables,      \* that a comment may name
    HostVariables,  \* those every context has: ${NODE_ID}, ${PUBLIC_IPV4}
    Placeholder,    \* Placeholder[x]: the text ${x} itself, as a value
    Known,          \* Known[x]: the values the variable may have
    Inherited       \* comments a provider may have in the configuration

ASSUME TemplatesAssumption ==
    /\ Literals \subseteq Values /\ Variables \cap Values = {}
    /\ HostVariables \subseteq Variables
    /\ Placeholder \in [Variables -> Values] /\ Known \in [Variables -> SUBSET Values]

VARIABLES
    kind,       \* of both templates: "record" or "container"
    provider,   \* the comment of their provider
    text,       \* the comment of this node's template
    ctx,        \* the values of its host, and of its container
    theirText, theirCtx   \* what the record of "them" was written with

templateVars == <<mine, theirs, kind, provider, text, ctx, theirText, theirCtx>>

Terms == Literals \cup Variables

NoText == [form |-> "none", terms |-> {}, words |-> {}, long |-> FALSE]

CommentTexts ==
    LET maps == {m \in SUBSET (Keys \X Terms) : IsMap(m)}
    IN  [form : {"json"}, terms : maps, words : {{}}, long : {FALSE}]
        \cup [form : {"json"}, terms : maps \ {{}}, words : {{}}, long : {TRUE}]
        \cup [form : {"text"}, terms : {{}}, words : SUBSET Literals, long : {FALSE}]
        \cup {NoText}

ASSUME InheritedAssumption == Inherited \subseteq CommentTexts

-----------------------------------------------------------------------------
(* Inheritance and expansion.                                              *)

\* A comment of the template's own replaces that of the provider as a whole.
MergeDefaults(own) == IF own.form = "none" THEN provider ELSE own

\* The same chain, written out again for the templates of containers.
MergeContainerDefaults(own) == IF own.form # "none" THEN own ELSE provider

\* A variable of the host is always there, if empty when it could not be had.
BuildContext ==
    {c \in [HostVariables -> UNION {Known[x] : x \in HostVariables}] :
        \A x \in HostVariables : c[x] \in Known[x]}

\* A label is there when the container has it.
BuildContainerContext ==
    UNION {{c \in [HostVariables \cup labels -> UNION {Known[x] : x \in Variables}] :
               \A x \in HostVariables \cup labels : c[x] \in Known[x]} :
           labels \in SUBSET (Variables \ HostVariables)}

Contexts == IF kind = "record" THEN BuildContext ELSE BuildContainerContext

\* Expand: what is not in the context stays as it is written.
Expand(term, c) ==
    CASE term \in Values -> term
      [] term \in DOMAIN c -> c[term]
      [] OTHER -> Placeholder[term]

\* The comment reconcileOne passes on.
CommentOf(own, c) ==
    LET t == IF kind = "record" THEN MergeDefaults(own) ELSE MergeContainerDefaults(own)
        pairs == {<<p[1], Expand(p[2], c)>> : p \in t.terms}
    IN  CASE t.form = "json" -> [says |-> JsonComment(pairs), long |-> t.long,
                                 kept |-> IF t.long THEN {p[1] : p \in pairs} ELSE {}]
          [] t.form = "text" -> [says |-> [form |-> "text", pairs |-> {}, words |-> t.words],
                                 long |-> FALSE, kept |-> {}]
          [] OTHER -> [says |-> NoComment, long |-> FALSE, kept |-> {}]

-----------------------------------------------------------------------------
TemplatesInit ==
    /\ kind \in {"record", "container"} /\ provider \in Inherited
    /\ text \in CommentTexts /\ ctx \in Contexts
    /\ theirText \in CommentTexts /\ theirCtx \in Contexts
    /\ mine = CommentOf(text, ctx) /\ theirs = CommentOf(theirText, theirCtx)

\* Someone adds or drops a pair of the template's comment,
EditTemplate ==
    /\ \E p \in Keys \X Terms :
           text' = [text EXCEPT !.terms = IF p \in @ THEN @ \ {p} ELSE @ \cup {p}]
    /\ text' \in CommentTexts
    /\ mine' = CommentOf(text', ctx)
    /\ UNCHANGED <<theirs, kind, provider, ctx, theirText, theirCtx>>

\* or the next pass finds the host with other values.
ValuesChange ==
    /\ ctx' \in Contexts
    /\ mine' = CommentOf(text, ctx')
    /\ UNCHANGED <<theirs, kind, provider, text, theirText, theirCtx>>

TemplatesSpec == TemplatesInit /\ [][EditTemplate \/ ValuesChange]_templateVars

-----------------------------------------------------------------------------
\* A node finds its record again when a value of its host cannot be had in
\* this pass, as a public address whose services do not answer: the variable
\* is then empty, and the rest of the comment has to do.
LossTolerated ==
    /\ text = theirText /\ DOMAIN ctx = DOMAIN theirCtx
    /\ \A x \in DOMAIN ctx : ctx[x] \in {theirCtx[x], EmptyValue}
    => Takes("them")
=============================================================================
