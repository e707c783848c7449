--------------------------------- MODULE MCDesk ---------------------------------
(***************************************************************************)
(* Desk for the model checker, with the pages of Screens.                  *)
(***************************************************************************)
EXTENDS Desk, Screens

CONSTANTS
  l1, r1, r2, o1, x1, s1, s2, y1, pro, max, special, c1, p1, p2, w1, w2, w3, key, other,
  up1, as1, as2, cv1, cv2, ann, mail, mail2, n1, n2, set1, set2, set3, del1, ord1, ord2, x, y, z,
  q1, q2, q3, adm, new, b1, b2

\* A login, two refreshes, a logout and a reset.
KindOfSession == [r \in SessionRequests |->
  CASE r = l1 -> "login" [] r = o1 -> "logout" [] r = x1 -> "reset" [] OTHER -> "refresh"]

\* A tagged Stripe subscription of a price without a plan, an untagged one, and one
\* of PayPal.
PriceOfSub == [s \in StripeSubs \cup PayPalSubs |-> IF s = s1 THEN special ELSE max]

\* A withdrawal of 53 hundredths that is asked for twice, and one of 4.
KeyOfPayout == [w \in Withdrawals |-> IF w = w3 THEN other ELSE key]
AskedFor == [w \in Withdrawals |-> IF w = w3 THEN 4 ELSE 53]

\* An update of all fields, two assignments, and two conversions, one of them with a
\* deal.
ChangeOfUpdate == [u \in Updates |-> [status |-> "QUALIFIED", assignee |-> ann, email |-> mail2]]
UserOfAssign == [a \in Assigns |-> ann]

\* Each of two pipelines is made the default, one of them is made no default, and one is
\* deleted; one order of all stages, and one of two of them, one twice.
PipeOfSetter == [s \in Setters |-> IF s = set2 THEN n1 ELSE n2]
PipeOfDeleter == [d \in Deleters |-> n1]
ListOfReorder == [r \in Reorders |-> IF r = ord1 THEN <<x, y, z>> ELSE <<y, x, y>>]

\* Three calls each: on the two caches of a search, on the two that share a key, on
\* the score of a lead, and on the rest.
Mix(m) == [c \in Questions |-> m[CASE c = q1 -> 1 [] c = q2 -> 2 [] c = q3 -> 3]]
MixesOfThree == {Mix(m) : m \in {
  <<"rag", "search", "rag">>, <<"summarize_contact", "timeline_contact", "timeline_lead">>,
  <<"get_score", "recompute", "recompute">>, <<"dashboard", "dashboard", "dashboard">>,
  <<"follow_up", "revenue", "email_reply">>, <<"sales", "sources", "funnel">>}}
LifeOfKey ==
  [k \in {"contact_summary", "timeline_lead", "search", "rag", "dashboard", "revenue", "score"} |->
    IF k \in {"search", "rag", "score"} THEN 1 ELSE 2]

\* An administrator, and somebody to invite.
RoleAtFirst == [p \in People |-> IF p = adm THEN "ADMIN" ELSE "none"]

\* DeskInit, but a part that is not at work stays in one initial state, and one of
\* them is enough.
MCDeskInit ==
  /\ G!Init
  /\ part \in Parts /\ (part # "pages" => story.from = "ticket")
  /\ S!Init
  /\ B!Init /\ (part # "billing" => ordered)
  /\ W!Init /\ (part # "wallets" => payout[w1].from = p1)
  /\ L!Init
  /\ P!Init /\ (part # "pipelines" => n1 \in pipes)
  /\ \A s \in PipelineStages : (part # "stages" \/ s # z) => standing[s] = "there"
  /\ I!Init /\ (part # "insights" => op[q1] = "follow_up")
  /\ T!Init

MCDeskSpec == MCDeskInit /\ [][DeskNext]_deskVars
=============================================================================
