---------------------------- MODULE AccessOutboxMC ----------------------------
(* Access rows for TLC, each with a subject of its own.                    *)
EXTENDS AccessOutbox

OwnSubject == [r \in Rows |-> r]
=============================================================================
