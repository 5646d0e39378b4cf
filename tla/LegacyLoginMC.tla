----------------------------- MODULE LegacyLoginMC -----------------------------
(* Two emails, so at most two users; the first is a legacy account's, and  *)
(* the one whose callout Salesforce repeats.                               *)
EXTENDS LegacyLogin

CONSTANTS e1, e2, c1, c2

RepeatedMC == <<c1, e1>>
=============================================================================
