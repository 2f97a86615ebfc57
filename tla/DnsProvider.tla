---------------------------- MODULE DnsProvider ----------------------------
(***************************************************************************)
(* What the five provider adapters (internal/provider/...) do to a zone.   *)
(*                                                                         *)
(* A zone is a set of records.  Each operator below is the effect of one   *)
(* API call as the adapters make it.  The adapters fall into three groups: *)
(*   - cloudflare changes single records, addressed by the id the API gave *)
(*     them, and refuses a record identical to an existing one;            *)
(*   - technitium adds single records; its update call names the record to *)
(*     change by the NEW content;                                          *)
(*   - powerdns, route53 and azure write the whole record set of a name    *)
(*     and type, so that one record replaces all of them.                  *)
(* The services themselves are outside the repository: what they answer is *)
(* taken from how the adapters and the reconciler use them.                *)
(***************************************************************************)
EXTENDS Ownership, Naturals

CONSTANTS
    Kind,      \* the adapter the zone is reached through
    TagsPlan   \* FALSE for a Cloudflare zone on the free plan

Kinds == {"cloudflare", "technitium", "powerdns", "route53", "azure"}

ASSUME ProviderAssumption == Kind \in Kinds /\ TagsPlan \in BOOLEAN

\* The id of an adapter that derives it from zone, name and type: it
\* identifies no record among those at the name.
DerivedId == 0

WritesWholeSet == Kind \in {"powerdns", "route53", "azure"}

\* Capabilities().SupportsStructuredTags
SupportsStructuredTags ==
    \/ Kind = "azure"
    \/ Kind = "cloudflare" /\ TagsPlan

-----------------------------------------------------------------------------
(* Reading.                                                                *)

At(zone, slot) == {r \in zone : r.slot = slot}

\* PowerDNS keeps comments on the record set and the adapter gives the first
\* of them to each record.
RRsetComment(zone, slot) ==
    LET commented == {r \in At(zone, slot) : r.comment # NoComment}
    IN IF commented = {} THEN NoComment ELSE (CHOOSE r \in commented : TRUE).comment

\* Azure keeps them, as metadata, on the record set, for all its records.
RRsetTags(zone, slot) == UNION {r.tags : r \in At(zone, slot)}

\* A record as its adapter returns it: Route 53 and Azure have no comments,
\* and only Cloudflare and Azure have tags.
Returned(zone, r) ==
    [r EXCEPT
        !.comment = CASE Kind \in {"route53", "azure"} -> NoComment
                      [] Kind = "powerdns" -> RRsetComment(zone, r.slot)
                      [] OTHER -> r.comment,
        !.tags = CASE Kind = "cloudflare" -> r.tags
                   [] Kind = "azure" -> RRsetTags(zone, r.slot)
                   [] OTHER -> {}]

\* The listing is taken to be complete: the adapters ask for no second page.
ListRecords(zone, slot) == {Returned(zone, r) : r \in At(zone, slot)}

-----------------------------------------------------------------------------
(* Writing.                                                                *)

Identical(r, s) == r.slot = s.slot /\ r.content = s.content

\* Cloudflare (error 81058) and Technitium refuse to add a record that is
\* there already; a record set is replaced whatever it holds.
RefusedAsDuplicate(zone, rec) ==
    ~WritesWholeSet /\ \E r \in zone : Identical(r, rec)

AfterCreate(zone, rec) ==
    IF WritesWholeSet THEN (zone \ At(zone, rec.slot)) \cup {rec}
                      ELSE zone \cup {rec}

\* The record the update call addresses.
UpdateTarget(zone, rec) ==
    IF Kind = "cloudflare" THEN {r \in zone : r.id = rec.id}
                           ELSE {r \in zone : Identical(r, rec)}

\* Cloudflare needs the id to exist and no other record to be identical;
\* Technitium needs a record with the content it is given as the old one.
UpdateAccepted(zone, rec) ==
    \/ WritesWholeSet
    \/ /\ UpdateTarget(zone, rec) # {}
       /\ Kind = "cloudflare" => \A r \in zone : Identical(r, rec) => r.id = rec.id

AfterUpdate(zone, rec) ==
    IF WritesWholeSet THEN AfterCreate(zone, rec)
                      ELSE (zone \ UpdateTarget(zone, rec)) \cup {rec}

\* A deletion by id alone, which is all the cleanup has to offer: the other
\* adapters address the record by zone, name and type, which are empty.
DeleteAccepted(zone, id) ==
    Kind = "cloudflare" /\ \E r \in zone : r.id = id

AfterDelete(zone, id) == {r \in zone : r.id # id}
=============================================================================
