------------------------------ MODULE AccessAdmin ------------------------------
(***************************************************************************)
(* The access administration service (src/services/access.ts behind        *)
(* src/routes/admin/access.ts): a signed-in user grants and revokes access *)
(* rows of a product of which that user is an ADMIN.  The check reads the  *)
(* rows before, and apart from, the transaction that changes them.         *)
(***************************************************************************)
EXTENDS Naturals, FiniteSets

CONSTANTS
  Users,      (* "user" rows that exist from the start                      *)
  Newcomers,  (* users that do not exist yet                                *)
  Products,
  Roles,
  Rows,       (* the (user, product, role) rows that requests may name      *)
  Seeds,      (* rows that are active from the start                        *)
  Requests,   (* requests that may be served at the same time               *)
  NULL

ASSUME AdminAssumption ==
  /\ Rows \subseteq [u : Users \cup Newcomers, p : Products, r : Roles]
  /\ Seeds \subseteq Rows
  /\ "ADMIN" \in Roles
  /\ NULL \notin Users \cup Newcomers /\ NULL \notin Products
  /\ IsFiniteSet(Requests) /\ Requests # {}

VARIABLES
  users,    (* "user" rows                                                  *)
  access,   (* active rows of user_product_access                           *)
  request,  (* each request that has passed its check                       *)
  late      (* history: changes by a user since that user's ADMIN row of    *)
            (* the product was revoked                                      *)

adminVars == <<users, access, request, late>>

NoRequest == [pc |-> "idle", actor |-> NULL, product |-> NULL]
Request   == [pc : {"checked"}, actor : Users \cup Newcomers, product : Products]

AdminTypeOK ==
  /\ users \subseteq Users \cup Newcomers
  /\ access \subseteq Rows
  /\ request \in [Requests -> Request \cup {NoRequest}]
  /\ late \in [Users \cup Newcomers -> [Products -> Nat]]

AdminInit ==
  /\ users = Users
  /\ access = Seeds
  /\ request = [k \in Requests |-> NoRequest]
  /\ late = [u \in Users \cup Newcomers |-> [p \in Products |-> 0]]

AdminRow(u, p) == [u |-> u, p |-> p, r |-> "ADMIN"]

(* hasProductAdmin: an active ADMIN row for exactly this product.          *)
HasProductAdmin(u, p) == AdminRow(u, p) \in access

-----------------------------------------------------------------------------
(* Mutant of CheckAdmin: a session is enough.                              *)
CheckAdminMutant(k, u, p) ==
  /\ request[k].pc = "idle"
  /\ u \in users
  /\ request' = [request EXCEPT ![k] = [pc |-> "checked", actor |-> u, product |-> p]]
  /\ UNCHANGED <<users, access, late>>

(* The session's user passes the check; without a session or the row the   *)
(* reply is 401 or 403 and nothing changes.                                *)
CheckAdmin(k, u, p) ==
  /\ request[k].pc = "idle"
  /\ u \in users
  /\ HasProductAdmin(u, p)
  /\ request' = [request EXCEPT ![k] = [pc |-> "checked", actor |-> u, product |-> p]]
  /\ UNCHANGED <<users, access, late>>

(* What a request that changes something leaves behind.                    *)
Answered(k) == request' = [request EXCEPT ![k] = NoRequest]

Counted(k) ==
  LET a == request[k].actor
      p == request[k].product
  IN  IF HasProductAdmin(a, p) THEN late ELSE [late EXCEPT ![a][p] = @ + 1]

(* grantProductAccess: the target exists, insert or reactivate.            *)
Grant(k, row) ==
  /\ request[k].pc = "checked"
  /\ row.p = request[k].product
  /\ row.u \in users
  /\ access' = access \cup {row}
  /\ late' = IF row.r = "ADMIN" THEN [Counted(k) EXCEPT ![row.u][row.p] = 0] ELSE Counted(k)
  /\ Answered(k)
  /\ UNCHANGED users

(* revokeProductAccess of an active row.                                   *)
Revoke(k, row) ==
  /\ request[k].pc = "checked"
  /\ row.p = request[k].product
  /\ row \in access
  /\ access' = access \ {row}
  /\ late' = Counted(k)
  /\ Answered(k)
  /\ UNCHANGED users

(* A validation error, 404, an exception, or the process stops.            *)
EndRequest(k) ==
  /\ request[k].pc = "checked"
  /\ Answered(k)
  /\ UNCHANGED <<users, access, late>>

AdminStep(k) ==
  \/ \E u \in Users \cup Newcomers, p \in Products : CheckAdmin(k, u, p)
  \/ \E row \in Rows : Grant(k, row) \/ Revoke(k, row)

-----------------------------------------------------------------------------
(* A user who is no longer ADMIN of a product changes its rows, or its     *)
(* vendors, only in requests that were checked before the revocation: at   *)
(* most one change for each of the others that were under way with it.     *)
RevokedAdminBounded ==
  \A u \in Users \cup Newcomers, p \in Products : late[u][p] < Cardinality(Requests)
=============================================================================
