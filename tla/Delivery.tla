------------------------------ MODULE Delivery ------------------------------
(***************************************************************************)
(* Admit tokens (aaac.common.tokens, issued by GET /queue/status) and the  *)
(* delivery service (aaac.delivery.app), which keeps no state: what the    *)
(* client gets for a token depends on the token and on the origin.         *)
(*                                                                         *)
(* Nobody forges a signature here, so a token is what it was issued with:  *)
(* the attempt it is for and the variant it authorises.  It expires with   *)
(* the window of its attempt.                                              *)
(***************************************************************************)
EXTENDS AccessClasses

Variants == {"full", "reduced", "essential"}

variant_for(c) ==
    IF c = HIGH THEN "full" ELSE IF c = MEDIUM THEN "reduced" ELSE "essential"

NoToken == [att |-> 0, var |-> "none"]
Tokens == [att : Nat, var : Variants]

\* Mutant: the token carries the class whatever the mode.
issue_token_ungated(mode, ticket) ==
    [att |-> ticket.attempt, var |-> variant_for(ticket.class)]

\* queue_status: only aaac adapts the page; the other modes serve the full one.
issue_token(mode, ticket) ==
    [att |-> ticket.attempt,
     var |-> variant_for(IF mode = "aaac" THEN ticket.class ELSE HIGH)]

\* verify_token, where live are the attempts whose windows have not passed.
verify_token(token, live, ignore_exp) == ignore_exp \/ token.att \in live

Page(status, variant) == [ok |-> FALSE, status |-> status, variant |-> variant]
NoPage == Page(0, "none")

\* GET /result: 401 for a token that does not verify; what fetch_record makes of
\* the origin's answer, or of none; the page in the token's variant.
result(token, live) ==
    IF ~verify_token(token, live, FALSE) THEN {Page(401, "none")}
    ELSE {Page(502, "none"), Page(503, "none"), Page(200, token.var)}
=============================================================================
