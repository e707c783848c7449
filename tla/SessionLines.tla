----------------------------- MODULE SessionLines -----------------------------
(***************************************************************************)
(* What refresh-token rotation promises of the sessions of one user: each  *)
(* login opens one line of sessions, rotation carries it on unseen, and a  *)
(* line that has ended never comes back.                                   *)
(***************************************************************************)
CONSTANT Requests   \* the requests of the user's clients, logins among them

VARIABLES
  opened,  \* the logins that have opened a line
  live     \* the lines that go on

Init == opened = {} /\ live = {}

Open(l) ==
  /\ l \notin opened
  /\ opened' = opened \cup {l}
  /\ live' = live \cup {l}

End ==
  /\ live' \subseteq live
  /\ UNCHANGED opened

Next == End \/ \E l \in Requests : Open(l)

Spec == Init /\ [][Next]_<<opened, live>>
=============================================================================
