----------------------------- MODULE TokenCache -----------------------------
(***************************************************************************)
(* The access token of the Azure adapter (internal/provider/azure).        *)
(*                                                                         *)
(* Every request first asks the cache for a token; the cache hands out the *)
(* one it has until shortly before it thinks that it expires, and fetches  *)
(* another one otherwise.  It counts from the arrival of the answer, the   *)
(* service from when it made the token; and a request carries its token    *)
(* until it is answered or times out.                                      *)
(***************************************************************************)
EXTENDS Integers

CONSTANTS
    Margin,          \* 60 s in the code
    TokenTimeout,    \* of the request for a token: 30 s
    CallTimeout,     \* of any other request: 30 s
    DefaultExpiry,   \* what an expires_in that is no number stands for: 1 h
    Grants           \* [says, lives]: what expires_in says (0 for no number)
                     \* and how long the token does live

\* The margin covers both timeouts, which it just does in the code.  The
\* service is relied on for tokens that live as long as they say, and at
\* least through the fetch and one request.
ASSUME TokenAssumption ==
    /\ TokenTimeout \in Nat \ {0} /\ CallTimeout \in Nat \ {0}
    /\ Margin \in Nat /\ Margin >= TokenTimeout + CallTimeout
    /\ DefaultExpiry \in Nat
    /\ Grants \subseteq [says : Nat, lives : Nat]
    /\ \A g \in Grants :
        /\ g.lives >= IF g.says = 0 THEN DefaultExpiry ELSE g.says
        /\ g.lives > TokenTimeout + CallTimeout

VARIABLES
    request,   \* where the request is: none, fetching its token, or sent
    spent,     \* ticks since it, or the fetch, was sent
    grant,     \* the token made by the service and not yet received
    known,     \* the cache: ticks until the token expires, as it counts
    left       \* ticks the token it holds, or is about to get, has to live

tokenVars == <<request, spent, grant, known, left>>

NoGrant == [says |-> 0, lives |-> 0]

TokenTypeOK ==
    /\ request \in {"none", "fetch", "made", "sent"}
    /\ spent \in Nat
    /\ grant \in Grants \cup {NoGrant}
    /\ known \in Nat /\ left \in Nat

TokenInit ==
    /\ request = "none" /\ spent = 0 /\ grant = NoGrant
    /\ known = 0 /\ left = 0

\* Mutant: the cache goes by the expiry itself.
GetTokenToTheEnd ==
    /\ request = "none"
    /\ request' = IF known > 0 THEN "sent" ELSE "fetch"
    /\ spent' = 0
    /\ UNCHANGED <<grant, known, left>>

\* getToken: the cached one, or a request for another one.
GetToken ==
    /\ request = "none"
    /\ request' = IF known > Margin THEN "sent" ELSE "fetch"
    /\ spent' = 0
    /\ UNCHANGED <<grant, known, left>>

\* The service makes a token.
MakeToken ==
    /\ request = "fetch"
    /\ request' = "made"
    /\ \E g \in Grants : grant' = g /\ left' = g.lives
    /\ UNCHANGED <<spent, known>>

\* The token is here: its expiry counts from now, and the request is sent.
ReceiveToken ==
    /\ request = "made"
    /\ request' = "sent" /\ spent' = 0
    /\ known' = IF grant.says = 0 THEN DefaultExpiry ELSE grant.says
    /\ grant' = NoGrant
    /\ UNCHANGED left

\* The fetch fails, and the request with it.  The cache keeps what it had,
\* which the service has not forgotten; it is too old to be used again.
FetchFails ==
    /\ request \in {"fetch", "made"}
    /\ request' = "none" /\ spent' = 0 /\ grant' = NoGrant
    /\ UNCHANGED <<known, left>>

\* The request is answered, or fails.
Answer ==
    /\ request = "sent"
    /\ request' = "none" /\ spent' = 0
    /\ UNCHANGED <<grant, known, left>>

Timeout == IF request = "sent" THEN CallTimeout ELSE TokenTimeout

\* Mutant: an expired token is counted on.
LessAndLess(n) == n - 1

Less(n) == IF n = 0 THEN 0 ELSE n - 1

\* A tick goes by, but not over a timeout.
TokenElapse ==
    /\ request # "none" => spent < Timeout
    /\ spent' = IF request = "none" THEN 0 ELSE spent + 1
    /\ known' = Less(known)
    /\ left' = Less(left)
    /\ UNCHANGED <<request, grant>>

\* A request never carries a token that has expired, however late it arrives
\* at the service and however late its token was received (auth.go:43,
\* "still valid (with 60s buffer)").
TokenValid == request = "sent" => left > 0
=============================================================================
