------------------------------ MODULE MCAccounts ------------------------------
(* First sign-ins that race an administrator's correction of an email.          *)
EXTENDS Accounts, TLC

Symmetry == Permutations(Identities) \cup Permutations(Emails)

\* Only bootstraps and updates are asked.
SignInsAndUpdates ==
  \A r \in Requests : req[r].op \in {"none", "bootstrap", "update_investor"}

(* An answered profile is never moved, wherever linking by email is on or off:  *)
(* what bootstrap_cognito_investor's commit at crud/investor.py:112-116 does     *)
(* not ensure, because the profile was read unlocked at line 104.               *)
ProfilesNeverMoved ==
  \A p \in DOMAIN investors : \A r \in AnsweredWith(p) : investors[p].sub = req[r].who
=============================================================================
