-------------------------------- MODULE MCQueues --------------------------------
(***************************************************************************)
(* Queues for the model checker: an SMS, an email of automation and one of *)
(* sendEmail, two of which are sent; a webhook of each of two tenants, an  *)
(* event and a repeated delivery; a notification and two requests; two     *)
(* versions of a record's text and its deletion; three requests of a page. *)
(***************************************************************************)
EXTENDS Queues

CONSTANTS t1, e1, m1, h1, h2, j1, j2, A, B, n1, q1, q2, u1, u2, d1, p1, p2, p3

\* The webhooks are of different tenants; the repeated delivery names none.
HookOwner == [h \in Hooks |-> IF h = h1 THEN A ELSE B]
PostTenant == [j \in Posts |-> IF j = j1 THEN A ELSE NoTenant]
=============================================================================
