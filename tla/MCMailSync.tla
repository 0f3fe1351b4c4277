----------------------------- MODULE MCMailSync -----------------------------
(* Three sites: a and b sync with each other, b and c with each other, and c
   with a; c does not accept the part q. *)
EXTENDS MailSync, TLC

CONSTANTS a, b, c, p, q

ThreeSites == (a :> {b}) @@ (b :> {a, c}) @@ (c :> {a, b})
Policies == (a :> {p, q}) @@ (b :> {p, q}) @@ (c :> {p})
=============================================================================
