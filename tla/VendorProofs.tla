----------------------------- MODULE VendorProofs -----------------------------
(***************************************************************************)
(* Proofs about AccessAdmin and VendorSso, for any number of requests,     *)
(* vendors, providers and sign-ins: what an administrator whose role is    *)
(* gone can still do, what an active and a disabled vendor's providers     *)
(* are, and who has a session.                                             *)
(***************************************************************************)
EXTENDS VendorSso, FiniteSetTheorems, TLAPS

(* The requests that passed their check as user u for product p.           *)
Pending(u, p) == {k \in Requests : request[k].actor = u /\ request[k].product = p}

(* An ADMIN has made no late change; a former one has as many left as      *)
(* there are requests under way, and the one that revoked the role is not  *)
(* among them.                                                             *)
LateInv ==
  \A u \in Users \cup Newcomers, p \in Products :
    IF HasProductAdmin(u, p) THEN late[u][p] = 0
    ELSE late[u][p] + Cardinality(Pending(u, p)) < Cardinality(Requests)

ByProvider(v) == vprov[v] # NULL => prov[vprov[v]].v = v /\ prov[vprov[v]].status # "none"

(* Operations on vendors belong to requests that were checked; their       *)
(* provider is of their vendor, and a new one is known to nobody else.     *)
OpOk(k) ==
  LET p == vop[k].prov IN
  /\ ~Op(k, "idle") =>
       request[k].pc = "checked" /\ vstatus[vop[k].v] # "none"
  /\ vop[k].pc \in {"registered", "verify", "verified", "delete"} => p # NULL
  /\ p # NULL => prov[p].v = vop[k].v /\ prov[p].status # "none"
  /\ Op(k, "registered") =>
       /\ prov[p].status = "registered"
       /\ \A v \in Vendors : vprov[v] # p
       /\ \A j \in Requests \ {k} : vop[j].prov # p
  /\ p # NULL /\ ~Op(k, "registered") /\ prov[p].status # "deleted" =>
       vprov[vop[k].v] = p \/ p \in replaced \cup overlooked
  /\ Op(k, "verified") => prov[p].status \in {"verified", "deleted"}
  /\ Op(k, "disable") /\ p # NULL => prov[p].status = "deleted"

OpInv == \A k \in Requests : OpOk(k)

(* Whom a vendor names, and what a provider was made to be.                *)
ProviderInv ==
  /\ \A v \in Vendors :
       /\ ByProvider(v)
       /\ vstatus[v] \in {"none", "disabled"} => vprov[v] = NULL
       /\ vstatus[v] = "active" =>
            v \in crossed \/ (vprov[v] # NULL /\ prov[vprov[v]].status \in {"verified", "deleted"})
       /\ vprov[v] # NULL /\ prov[vprov[v]].status = "deleted" =>
            \/ vprov[v] \in halfDisabled
            \/ \E k \in Requests : Op(k, "disable") /\ vop[k].prov = vprov[v]
  /\ \A p \in Providers :
       prov[p].status = "verified" =>
         /\ prov[p].v \in Vendors
         /\ vprov[prov[p].v] = p \/ p \in replaced \cup overlooked

(* Whoever has an account is provisioned, or is the reason of an exception.*)
Accounted(e) ==
  \/ e \in handled \cup claimed /\ e \in provisioned
  \/ e \in failed
  \/ \E l \in Logins : login[l].e = e /\ login[l].pc \in {"provision", "attach", "grant"}

SignInInv ==
  /\ \A e \in Employees : account[e] # NULL => Accounted(e)
  /\ \A e \in signedIn : account[e] # NULL
  /\ \A l \in Logins :
       /\ ~LoginAt(l, "idle") /\ ~LoginAt(l, "away") => account[login[l].e] # NULL
       /\ LoginAt(l, "grant") => login[l].e \in handled \cup claimed

IInv == TypeOK /\ LateInv /\ OpInv /\ ProviderInv /\ SignInInv

SsoTypeOK ==
  /\ vstatus \in [Vendors -> {"none", "pending", "active", "disabled"}]
  /\ vprov \in [Vendors -> Providers \cup {NULL}]
  /\ prov \in [Providers -> [status : {"none", "registered", "verified", "deleted"},
                             v : Vendors \cup {NULL}]]
  /\ vop \in [Requests -> VendorOp \cup {NoOp}]
  /\ replaced \subseteq Providers /\ overlooked \subseteq Providers
  /\ halfDisabled \subseteq Providers
  /\ crossed \subseteq Vendors

LoginTypeOK ==
  /\ account \in [Employees -> Providers \cup {NULL}]
  /\ login \in [Logins -> Login \cup {NoLogin}]
  /\ claimed \subseteq Employees
  /\ handled \subseteq Employees /\ signedIn \subseteq Employees
  /\ provisioned \subseteq Employees /\ failed \subseteq Employees

LEMMA TypeParts == TypeOK <=> AdminTypeOK /\ SsoTypeOK /\ LoginTypeOK
BY DEF TypeOK, SsoTypeOK, LoginTypeOK

-----------------------------------------------------------------------------
LEMMA InitInv == Init => IInv
<1> SUFFICES ASSUME Init PROVE IInv
  OBVIOUS
<1> USE AdminAssumption, VendorAssumption DEF Init, AdminInit
<1>1. TypeOK
  BY DEF TypeOK, AdminTypeOK
<1>2. LateInv
  <2> SUFFICES ASSUME NEW u \in Users \cup Newcomers, NEW p \in Products
               PROVE  /\ late[u][p] = 0
                      /\ late[u][p] + Cardinality(Pending(u, p)) < Cardinality(Requests)
    BY DEF LateInv
  <2>1. Pending(u, p) = {}
    BY DEF Pending, NoRequest
  <2>2. Cardinality(Pending(u, p)) = 0
    BY <2>1, FS_EmptySet
  <2>3. Cardinality(Requests) \in Nat /\ Cardinality(Requests) # 0
    BY FS_CardinalityType, FS_EmptySet
  <2> QED
    BY <2>2, <2>3
<1>3. OpInv
  BY DEF OpInv, OpOk, Op, NoOp
<1>4. ProviderInv
  BY DEF ProviderInv, ByProvider
<1>5. SignInInv
  BY DEF SignInInv, Accounted, LoginAt, NoLogin
<1> QED
  BY <1>1, <1>2, <1>3, <1>4, <1>5 DEF IInv

-----------------------------------------------------------------------------
(* Requests, grants and revocations                                        *)

LEMMA RequestShapes ==
  ASSUME AdminTypeOK
  PROVE  /\ \A k \in Requests : request[k].pc = "checked" =>
              /\ request[k] \in Request
              /\ request[k].actor \in Users \cup Newcomers /\ request[k].product \in Products
         /\ \A k \in Requests : request[k].pc # "checked" =>
              request[k] = NoRequest /\ request[k].pc = "idle"
BY DEF AdminTypeOK, Request, NoRequest

LEMMA PendingFinite ==
  \A u, p : IsFiniteSet(Pending(u, p)) /\ Cardinality(Pending(u, p)) \in Nat
            /\ Cardinality(Requests) \in Nat
BY AdminAssumption, FS_Subset, FS_CardinalityType DEF Pending

(* What a change by request k does to late.                                *)
LEMMA CountedType ==
  ASSUME AdminTypeOK, NEW k \in Requests, request[k].pc = "checked"
  PROVE  /\ Counted(k) \in [Users \cup Newcomers -> [Products -> Nat]]
         /\ \A u \in Users \cup Newcomers, p \in Products :
              Counted(k)[u][p] =
                IF u = request[k].actor /\ p = request[k].product /\ ~HasProductAdmin(u, p)
                THEN late[u][p] + 1 ELSE late[u][p]
<1>1. /\ request[k].actor \in Users \cup Newcomers /\ request[k].product \in Products
      /\ late \in [Users \cup Newcomers -> [Products -> Nat]]
  BY RequestShapes DEF AdminTypeOK
<1> QED
  BY <1>1 DEF Counted

(* A request that leaves is pending no more.                               *)
LEMMA AnsweredPending ==
  ASSUME AdminTypeOK, NEW k \in Requests, request[k].pc = "checked", Answered(k),
         NEW u \in Users \cup Newcomers, NEW p \in Products
  PROVE  /\ u = request[k].actor /\ p = request[k].product =>
              Cardinality(Pending(u, p)') = Cardinality(Pending(u, p)) - 1
         /\ ~(u = request[k].actor /\ p = request[k].product) => Pending(u, p)' = Pending(u, p)
         /\ Cardinality(Pending(u, p)') < Cardinality(Requests)
         /\ Cardinality(Pending(u, p)') \in Nat
<1> USE AdminAssumption
<1>1. /\ request'[k] = NoRequest
      /\ \A j \in Requests : j # k => request'[j] = request[j]
  BY DEF Answered, AdminTypeOK
<1>2. Pending(u, p)' = Pending(u, p) \ {k}
  BY <1>1 DEF Pending, NoRequest
<1>3. Pending(u, p)' \subseteq Requests \ {k}
  BY <1>2 DEF Pending
<1>4. /\ Cardinality(Requests \ {k}) = Cardinality(Requests) - 1
      /\ IsFiniteSet(Requests \ {k}) /\ Cardinality(Requests) \in Nat
  BY FS_RemoveElement, FS_CardinalityType
<1>5. Cardinality(Pending(u, p)') <= Cardinality(Requests) - 1
      /\ Cardinality(Pending(u, p)') \in Nat
  BY <1>3, <1>4, FS_Subset, FS_CardinalityType
<1>6. CASE u = request[k].actor /\ p = request[k].product
  <2>1. k \in Pending(u, p)
    BY <1>6 DEF Pending
  <2>2. IsFiniteSet(Pending(u, p))
    BY PendingFinite
  <2>3. Cardinality(Pending(u, p) \ {k}) = Cardinality(Pending(u, p)) - 1
    BY <2>1, <2>2, FS_RemoveElement
  <2> QED
    BY <1>2, <1>4, <1>5, <1>6, <2>3
<1>7. CASE ~(u = request[k].actor /\ p = request[k].product)
  <2>1. k \notin Pending(u, p)
    BY <1>7 DEF Pending
  <2> QED
    BY <1>2, <1>4, <1>5, <1>7, <2>1
<1> QED
  BY <1>6, <1>7

LEMMA AdminRows ==
  /\ \A u, p, r, w, q : AdminRow(u, p) = [u |-> w, p |-> q, r |-> r] <=> u = w /\ p = q /\ r = "ADMIN"
  /\ \A row \in Rows : row.u \in Users \cup Newcomers /\ row.p \in Products
  /\ \A row \in Rows : \A u, p : row = AdminRow(u, p) <=> row.u = u /\ row.p = p /\ row.r = "ADMIN"
BY AdminAssumption DEF AdminRow

LEMMA CheckAdminKeeps ==
  ASSUME AdminTypeOK, LateInv, NEW k \in Requests, NEW u \in Users \cup Newcomers,
         NEW p \in Products, CheckAdmin(k, u, p)
  PROVE  AdminTypeOK' /\ LateInv'
<1>1. /\ request'[k] = [pc |-> "checked", actor |-> u, product |-> p]
      /\ \A j \in Requests : j # k => request'[j] = request[j]
      /\ request' \in [Requests -> Request \cup {NoRequest}]
      /\ request[k] = NoRequest /\ UNCHANGED <<users, access, late>> /\ HasProductAdmin(u, p)
  BY RequestShapes DEF CheckAdmin, AdminTypeOK, Request
<1>2. AdminTypeOK'
  BY <1>1 DEF AdminTypeOK
<1>3. \A w \in Users \cup Newcomers, q \in Products :
        ~(w = u /\ q = p) => Pending(w, q)' = Pending(w, q)
  BY <1>1, AdminAssumption DEF Pending, NoRequest
<1>4. ASSUME NEW w \in Users \cup Newcomers, NEW q \in Products
      PROVE  IF HasProductAdmin(w, q)' THEN late'[w][q] = 0
             ELSE late'[w][q] + Cardinality(Pending(w, q)') < Cardinality(Requests)
  <2>1. HasProductAdmin(w, q)' = HasProductAdmin(w, q) /\ late' = late
    BY <1>1 DEF HasProductAdmin
  <2>2. CASE w = u /\ q = p
    BY <1>1, <2>1, <2>2 DEF LateInv
  <2>3. CASE ~(w = u /\ q = p)
    BY <1>3, <2>1, <2>3 DEF LateInv
  <2> QED
    BY <2>2, <2>3
<1> QED
  BY <1>2, <1>4 DEF LateInv

(* A request that ends with a change, or without one.                      *)
LEMMA AnswerKeeps ==
  ASSUME AdminTypeOK, LateInv, NEW k \in Requests, request[k].pc = "checked",
         Answered(k), UNCHANGED <<users, access>>, late' \in {late, Counted(k)}
  PROVE  AdminTypeOK' /\ LateInv'
<1>1. request' \in [Requests -> Request \cup {NoRequest}]
  BY DEF Answered, AdminTypeOK
<1>2. AdminTypeOK'
  BY <1>1, CountedType DEF AdminTypeOK
<1>3. ASSUME NEW w \in Users \cup Newcomers, NEW q \in Products
      PROVE  IF HasProductAdmin(w, q)' THEN late'[w][q] = 0
             ELSE late'[w][q] + Cardinality(Pending(w, q)') < Cardinality(Requests)
  <2>1. HasProductAdmin(w, q)' = HasProductAdmin(w, q)
    BY DEF HasProductAdmin
  <2>2. /\ late[w][q] \in Nat /\ Cardinality(Pending(w, q)) \in Nat
        /\ Cardinality(Requests) \in Nat
    BY PendingFinite DEF AdminTypeOK
  <2>3. CASE w = request[k].actor /\ q = request[k].product
    <3>1. Cardinality(Pending(w, q)') = Cardinality(Pending(w, q)) - 1
      BY <2>3, AnsweredPending
    <3>2. late'[w][q] \in {late[w][q], IF HasProductAdmin(w, q) THEN late[w][q] ELSE late[w][q] + 1}
      BY <2>3, CountedType
    <3> QED
      BY <2>1, <2>2, <3>1, <3>2 DEF LateInv
  <2>4. CASE ~(w = request[k].actor /\ q = request[k].product)
    <3>1. Pending(w, q)' = Pending(w, q)
      BY <2>4, AnsweredPending
    <3>2. late'[w][q] = late[w][q]
      BY <2>4, CountedType
    <3> QED
      BY <2>1, <3>1, <3>2 DEF LateInv
  <2> QED
    BY <2>3, <2>4
<1> QED
  BY <1>2, <1>3 DEF LateInv

LEMMA GrantKeeps ==
  ASSUME AdminTypeOK, LateInv, NEW k \in Requests, NEW row \in Rows, Grant(k, row)
  PROVE  AdminTypeOK' /\ LateInv'
<1>1. /\ request[k].pc = "checked" /\ Answered(k) /\ UNCHANGED users
      /\ access' = access \cup {row}
      /\ late' = IF row.r = "ADMIN" THEN [Counted(k) EXCEPT ![row.u][row.p] = 0] ELSE Counted(k)
  BY DEF Grant
<1>2. request' \in [Requests -> Request \cup {NoRequest}]
  BY <1>1 DEF Answered, AdminTypeOK
<1>3. /\ late' \in [Users \cup Newcomers -> [Products -> Nat]]
      /\ \A w \in Users \cup Newcomers, q \in Products :
           late'[w][q] = IF row = AdminRow(w, q) THEN 0 ELSE Counted(k)[w][q]
  <2>1. Counted(k) \in [Users \cup Newcomers -> [Products -> Nat]]
    BY <1>1, CountedType
  <2>2. row.u \in Users \cup Newcomers /\ row.p \in Products
    BY AdminRows
  <2>3. CASE row.r = "ADMIN"
    <3>1. \A w \in Users \cup Newcomers, q \in Products : row = AdminRow(w, q) <=> row.u = w /\ row.p = q
      BY <2>3, AdminRows
    <3>2. late' = [Counted(k) EXCEPT ![row.u][row.p] = 0]
      BY <1>1, <2>3
    <3> QED
      BY <2>1, <2>2, <3>1, <3>2
  <2>4. CASE row.r # "ADMIN"
    <3>1. \A w \in Users \cup Newcomers, q \in Products : row # AdminRow(w, q)
      BY <2>4, AdminRows
    <3> QED
      BY <1>1, <2>1, <2>4, <3>1
  <2> QED
    BY <2>3, <2>4
<1>4. AdminTypeOK'
  BY <1>1, <1>2, <1>3 DEF AdminTypeOK
<1>5. ASSUME NEW w \in Users \cup Newcomers, NEW q \in Products
      PROVE  IF HasProductAdmin(w, q)' THEN late'[w][q] = 0
             ELSE late'[w][q] + Cardinality(Pending(w, q)') < Cardinality(Requests)
  <2>1. HasProductAdmin(w, q)' <=> HasProductAdmin(w, q) \/ row = AdminRow(w, q)
    BY <1>1 DEF HasProductAdmin
  <2>2. /\ late[w][q] \in Nat /\ Cardinality(Pending(w, q)) \in Nat
        /\ Cardinality(Requests) \in Nat
    BY PendingFinite DEF AdminTypeOK
  <2>3. CASE row = AdminRow(w, q)
    BY <1>3, <2>1, <2>3
  <2>4. CASE row # AdminRow(w, q) /\ w = request[k].actor /\ q = request[k].product
    <3>1. Cardinality(Pending(w, q)') = Cardinality(Pending(w, q)) - 1
      BY <1>1, <2>4, AnsweredPending
    <3>2. late'[w][q] = IF HasProductAdmin(w, q) THEN late[w][q] ELSE late[w][q] + 1
      BY <1>1, <1>3, <2>4, CountedType
    <3> QED
      BY <2>1, <2>2, <2>4, <3>1, <3>2 DEF LateInv
  <2>5. CASE row # AdminRow(w, q) /\ ~(w = request[k].actor /\ q = request[k].product)
    <3>1. Pending(w, q)' = Pending(w, q)
      BY <1>1, <2>5, AnsweredPending
    <3>2. late'[w][q] = late[w][q]
      BY <1>1, <1>3, <2>5, CountedType
    <3> QED
      BY <2>1, <2>5, <3>1, <3>2 DEF LateInv
  <2> QED
    BY <2>3, <2>4, <2>5
<1> QED
  BY <1>4, <1>5 DEF LateInv

LEMMA RevokeKeeps ==
  ASSUME AdminTypeOK, LateInv, NEW k \in Requests, NEW row \in Rows, Revoke(k, row)
  PROVE  AdminTypeOK' /\ LateInv'
<1>1. /\ request[k].pc = "checked" /\ Answered(k) /\ UNCHANGED users
      /\ access' = access \ {row} /\ row \in access
      /\ late' = Counted(k)
  BY DEF Revoke
<1>2. request' \in [Requests -> Request \cup {NoRequest}]
  BY <1>1 DEF Answered, AdminTypeOK
<1>3. AdminTypeOK'
  BY <1>1, <1>2, CountedType DEF AdminTypeOK
<1>4. ASSUME NEW w \in Users \cup Newcomers, NEW q \in Products
      PROVE  IF HasProductAdmin(w, q)' THEN late'[w][q] = 0
             ELSE late'[w][q] + Cardinality(Pending(w, q)') < Cardinality(Requests)
  <2>1. HasProductAdmin(w, q)' <=> HasProductAdmin(w, q) /\ row # AdminRow(w, q)
    BY <1>1 DEF HasProductAdmin
  <2>2. /\ late[w][q] \in Nat /\ Cardinality(Pending(w, q)) \in Nat
        /\ Cardinality(Requests) \in Nat
    BY PendingFinite DEF AdminTypeOK
  <2>3. CASE row = AdminRow(w, q)
    <3>1. HasProductAdmin(w, q)
      BY <1>1, <2>3 DEF HasProductAdmin
    <3>2. late'[w][q] = 0
      BY <1>1, <3>1, CountedType DEF LateInv
    <3>3. Cardinality(Pending(w, q)') < Cardinality(Requests)
      BY <1>1, AnsweredPending
    <3>4. Cardinality(Pending(w, q)') \in Nat
      BY <1>1, AnsweredPending
    <3> QED
      BY <2>1, <2>3, <3>2, <3>3, <3>4
  <2>4. CASE row # AdminRow(w, q) /\ w = request[k].actor /\ q = request[k].product
    <3>1. Cardinality(Pending(w, q)') = Cardinality(Pending(w, q)) - 1
      BY <1>1, <2>4, AnsweredPending
    <3>2. late'[w][q] = IF HasProductAdmin(w, q) THEN late[w][q] ELSE late[w][q] + 1
      BY <1>1, <2>4, CountedType
    <3> QED
      BY <2>1, <2>2, <2>4, <3>1, <3>2 DEF LateInv
  <2>5. CASE row # AdminRow(w, q) /\ ~(w = request[k].actor /\ q = request[k].product)
    <3>1. Pending(w, q)' = Pending(w, q)
      BY <1>1, <2>5, AnsweredPending
    <3>2. late'[w][q] = late[w][q]
      BY <1>1, <2>5, CountedType
    <3> QED
      BY <2>1, <2>5, <3>1, <3>2 DEF LateInv
  <2> QED
    BY <2>3, <2>4, <2>5
<1> QED
  BY <1>3, <1>4 DEF LateInv

(* Sign-ins change no ADMIN row.                                           *)
LEMMA SignInKeepsAdmins ==
  ASSUME AdminTypeOK, LateInv, NEW e \in Employees, UNCHANGED <<request, late>>,
         users' \in {users, users \cup {e}}, access' \in {access, access \cup {VendorRow(e)}}
  PROVE  AdminTypeOK' /\ LateInv'
<1> USE VendorAssumption DEF Employees
<1>1. AdminTypeOK'
  BY DEF AdminTypeOK
<1>2. \A w \in Users \cup Newcomers, q \in Products : HasProductAdmin(w, q)' = HasProductAdmin(w, q)
  BY AdminRows DEF HasProductAdmin, VendorRow
<1>3. \A w \in Users \cup Newcomers, q \in Products : Pending(w, q)' = Pending(w, q)
  BY DEF Pending
<1> QED
  BY <1>1, <1>2, <1>3 DEF LateInv

LEMMA UnchangedAdmins == AdminTypeOK /\ LateInv /\ UNCHANGED adminVars => AdminTypeOK' /\ LateInv'
BY DEF adminVars, AdminTypeOK, LateInv, HasProductAdmin, Pending

LEMMA AdminsStep == TypeOK /\ LateInv /\ OpInv /\ [Next]_allVars => AdminTypeOK' /\ LateInv'
<1> SUFFICES ASSUME TypeOK, LateInv, OpInv, [Next]_allVars PROVE AdminTypeOK' /\ LateInv'
  OBVIOUS
<1>1. AdminTypeOK
  BY DEF TypeOK
<1>2. CASE UNCHANGED adminVars
  BY <1>1, <1>2, UnchangedAdmins
<1>3. ASSUME NEW k \in Requests, RequestStep(k) PROVE AdminTypeOK' /\ LateInv'
  <2>1. CASE AdminStep(k)
    BY <1>1, <2>1, CheckAdminKeeps, GrantKeeps, RevokeKeeps DEF AdminStep
  <2>2. ASSUME NEW v \in Vendors, CreateVendor(k, v) \/ ReadVendor(k, v)
        PROVE  AdminTypeOK' /\ LateInv'
    BY <1>1, <1>2, <2>2, AnswerKeeps DEF CreateVendor, ReadVendor, Ready, Done
  <2>3. CASE Abandon(k)
    BY <1>1, <2>3, AnswerKeeps DEF Abandon, EndRequest
  <2>4. CASE ~Op(k, "idle") /\ (UNCHANGED adminVars \/ Done(k))
    BY <1>1, <1>2, <2>4, AnswerKeeps DEF OpInv, OpOk, Done
  <2> QED
    BY <1>3, <2>1, <2>2, <2>3, <2>4 DEF RequestStep, RegisterProvider, SetProvider, VerifyDomain,
       Activate, DeleteProvider, DisableRow, Op
<1>4. ASSUME NEW l \in Logins, SignInStep(l) PROVE AdminTypeOK' /\ LateInv'
  <2>1. CASE Callback(l) \/ GrantVendorRole(l)
    <3>1. login[l].e \in Employees
      BY <2>1 DEF TypeOK, Callback, GrantVendorRole, LoginAt, NoLogin, Login
    <3> QED
      BY <1>1, <2>1, <3>1, SignInKeepsAdmins DEF Callback, GrantVendorRole
  <2>2. CASE UNCHANGED adminVars
    BY <1>2, <2>2
  <2> QED
    BY <1>4, <2>1, <2>2 DEF SignInStep, BeginSignIn, FindVendor, AttachEmail, OpenSession, SignInFails
<1> QED
  BY <1>2, <1>3, <1>4 DEF Next, ClaimEmail, allVars

-----------------------------------------------------------------------------
(* Sign-ins                                                                *)

LEMMA LoginShapes ==
  ASSUME LoginTypeOK
  PROVE  \A l \in Logins :
           /\ ~LoginAt(l, "idle") => login[l] \in Login /\ login[l].e \in Employees
           /\ LoginAt(l, "idle") => login[l] = NoLogin
BY DEF LoginTypeOK, LoginAt, Login, NoLogin

LEMMA SignInKeeps ==
  ASSUME LoginTypeOK, SsoTypeOK, SignInInv, NEW l \in Logins, SignInStep(l)
  PROVE  LoginTypeOK' /\ SignInInv'
<1> USE VendorAssumption, AdminAssumption DEF LoginAt, LoginTo, EndLogin, Employees
<1>1. login[l].pc # "idle" => login[l] \in Login /\ login[l].e \in Employees
  BY LoginShapes
<1>2. ASSUME LoginTypeOK', UNCHANGED account, signedIn \subseteq signedIn',
             \A e \in signedIn' : e \in signedIn \/ account[e] # NULL,
             handled \subseteq handled', claimed \subseteq claimed', provisioned \subseteq provisioned',
             failed \subseteq failed',
             \A m \in Logins : m # l => login'[m] = login[m],
             login'[l].pc \notin {"idle", "away"} => account[login'[l].e] # NULL,
             login'[l].pc = "grant" => login'[l].e \in handled' \cup claimed',
             \A e \in Employees :
               e = login[l].e /\ login[l].pc \in {"provision", "attach", "grant"} => Accounted(e)'
      PROVE  SignInInv'
  <2>1. ASSUME NEW e \in Employees, Accounted(e) PROVE Accounted(e)'
    <3>1. CASE e = login[l].e /\ login[l].pc \in {"provision", "attach", "grant"}
      BY <1>2, <3>1
    <3>2. CASE ~(e = login[l].e /\ login[l].pc \in {"provision", "attach", "grant"})
      BY <1>2, <2>1, <3>2 DEF Accounted
    <3> QED
      BY <3>1, <3>2
  <2> QED
    BY <1>2, <2>1 DEF SignInInv
<1>3. ASSUME NEW e \in Employees, NEW p \in Providers, BeginSignIn(l, e, p)
      PROVE  LoginTypeOK' /\ SignInInv'
  <2>1. /\ login'[l] = [pc |-> "away", e |-> e, prov |-> p, v |-> NULL]
        /\ \A m \in Logins : m # l => login'[m] = login[m]
        /\ login[l].pc = "idle"
    BY <1>3 DEF BeginSignIn, LoginTypeOK
  <2>2. LoginTypeOK'
    BY <1>3 DEF BeginSignIn, LoginTypeOK, Login
  <2> QED
    BY <1>2, <1>3, <2>1, <2>2 DEF BeginSignIn
<1>4. CASE Callback(l)
  <2>1. PICK e \in Employees, p \in Providers, pc \in {"provision", "session"} :
          /\ e = login[l].e /\ login[l].pc = "away" /\ account[e] \in {NULL, p}
          /\ pc = IF account[e] = NULL THEN "provision" ELSE "session"
          /\ account' = [account EXCEPT ![e] = p]
          /\ login' = [login EXCEPT ![l].pc = pc]
    BY <1>1, <1>4 DEF Callback, Login
  <2>2. /\ login'[l].pc = pc /\ login'[l].e = e /\ login' \in [Logins -> Login \cup {NoLogin}]
        /\ \A m \in Logins : m # l => login'[m] = login[m]
    BY <1>1, <2>1 DEF LoginTypeOK, Login
  <2>3. /\ account' \in [Employees -> Providers \cup {NULL}]
        /\ account'[e] # NULL /\ \A d \in Employees : d # e => account'[d] = account[d]
        /\ \A d \in Employees : account[d] # NULL => account'[d] # NULL
    BY <2>1 DEF LoginTypeOK
  <2>4. UNCHANGED <<claimed, handled, signedIn, provisioned, failed>>
    BY <1>4 DEF Callback
  <2>5. LoginTypeOK'
    BY <2>2, <2>3, <2>4 DEF LoginTypeOK
  <2>6. ASSUME NEW d \in Employees, Accounted(d) PROVE Accounted(d)'
    BY <2>1, <2>2, <2>4, <2>6 DEF Accounted
  <2>7. account[e] = NULL => Accounted(e)'
    BY <2>1, <2>2 DEF Accounted
  <2>8. \A d \in Employees : account'[d] # NULL => Accounted(d)'
    BY <2>3, <2>6, <2>7 DEF SignInInv
  <2>9. \A m \in Logins : login[m].pc # "idle" => login[m].e \in Employees
    BY LoginShapes
  <2>10. ASSUME NEW m \in Logins
         PROVE  /\ login'[m].pc # "idle" /\ login'[m].pc # "away" => account'[login'[m].e] # NULL
                /\ login'[m].pc = "grant" => login'[m].e \in handled \cup claimed
    BY <2>1, <2>2, <2>3, <2>9 DEF SignInInv
  <2>11. \A d \in signedIn' : account'[d] # NULL
    BY <2>3, <2>4 DEF SignInInv, LoginTypeOK
  <2> QED
    BY <2>4, <2>5, <2>8, <2>10, <2>11 DEF SignInInv
<1>5. CASE FindVendor(l)
  <2>1. PICK v \in Vendors : login' = [login EXCEPT ![l].pc = "attach", ![l].v = v]
    BY <1>5 DEF FindVendor
  <2>2. /\ login'[l].pc = "attach" /\ login'[l].e = login[l].e
        /\ login' \in [Logins -> Login \cup {NoLogin}]
        /\ \A m \in Logins : m # l => login'[m] = login[m]
        /\ login[l].pc = "provision"
    BY <1>1, <1>5, <2>1 DEF FindVendor, LoginTypeOK, Login
  <2>3. LoginTypeOK'
    BY <1>5, <2>2 DEF FindVendor, LoginTypeOK
  <2>4. account[login[l].e] # NULL /\ \A e \in Employees : e = login[l].e => Accounted(e)'
    BY <2>2 DEF SignInInv, Accounted
  <2> QED
    BY <1>2, <1>5, <2>2, <2>3, <2>4 DEF FindVendor
<1>6. CASE AttachEmail(l)
  <2>1. /\ login'[l].pc = "grant" /\ login'[l].e = login[l].e
        /\ login' \in [Logins -> Login \cup {NoLogin}]
        /\ \A m \in Logins : m # l => login'[m] = login[m]
        /\ login[l].pc = "attach" /\ login[l].e \in Employees
    BY <1>1, <1>6 DEF AttachEmail, LoginTypeOK, Login
  <2>2. LoginTypeOK'
    BY <1>6, <2>1 DEF AttachEmail, LoginTypeOK
  <2>3. account[login[l].e] # NULL /\ \A e \in Employees : e = login[l].e => Accounted(e)'
    BY <2>1 DEF SignInInv, Accounted
  <2> QED
    BY <1>2, <1>6, <2>1, <2>2, <2>3 DEF AttachEmail
<1>7. CASE GrantVendorRole(l)
  <2>1. /\ login'[l].pc = "session" /\ login'[l].e = login[l].e
        /\ login' \in [Logins -> Login \cup {NoLogin}]
        /\ \A m \in Logins : m # l => login'[m] = login[m]
        /\ login[l].pc = "grant" /\ login[l].e \in Employees
    BY <1>1, <1>7 DEF GrantVendorRole, LoginTypeOK, Login
  <2>2. LoginTypeOK'
    BY <1>7, <2>1 DEF GrantVendorRole, LoginTypeOK
  <2>3. account[login[l].e] # NULL /\ \A e \in Employees : e = login[l].e => Accounted(e)'
    BY <1>7, <2>1 DEF GrantVendorRole, SignInInv, Accounted
  <2> QED
    BY <1>2, <1>7, <2>1, <2>2, <2>3 DEF GrantVendorRole
<1>8. CASE OpenSession(l) \/ SignInFails(l)
  <2>1. /\ login'[l] = NoLogin /\ login' \in [Logins -> Login \cup {NoLogin}]
        /\ \A m \in Logins : m # l => login'[m] = login[m]
        /\ login[l].pc # "idle" /\ login[l].e \in Employees
    BY <1>1, <1>8 DEF OpenSession, SignInFails, LoginTypeOK
  <2>2. LoginTypeOK'
    BY <1>8, <2>1 DEF OpenSession, SignInFails, LoginTypeOK
  <2>3. CASE OpenSession(l)
    <3>1. account[login[l].e] # NULL /\ login[l].pc = "session"
      BY <2>3 DEF OpenSession, SignInInv
    <3> QED
      BY <1>2, <2>1, <2>2, <2>3, <3>1 DEF OpenSession, NoLogin
  <2>4. CASE SignInFails(l)
    <3>1. \A e \in Employees :
            e = login[l].e /\ login[l].pc \in {"provision", "attach", "grant"} => Accounted(e)'
      BY <2>4 DEF SignInFails, Accounted
    <3>2. failed \subseteq failed'
      BY <2>4 DEF SignInFails
    <3> QED
      BY <1>2, <2>1, <2>2, <2>4, <3>1, <3>2 DEF SignInFails, NoLogin
  <2> QED
    BY <1>8, <2>2, <2>3, <2>4
<1> QED
  BY <1>3, <1>4, <1>5, <1>6, <1>7, <1>8 DEF SignInStep

LEMMA LoginsStep ==
  TypeOK /\ SignInInv /\ [Next]_allVars => LoginTypeOK' /\ SignInInv'
<1> SUFFICES ASSUME TypeOK, SignInInv, [Next]_allVars PROVE LoginTypeOK' /\ SignInInv'
  OBVIOUS
<1>0. LoginTypeOK /\ SsoTypeOK
  BY TypeParts
<1>1. CASE UNCHANGED loginVars
  BY <1>0, <1>1 DEF loginVars, LoginTypeOK, SignInInv, Accounted, LoginAt
<1>2. ASSUME NEW l \in Logins, SignInStep(l) PROVE LoginTypeOK' /\ SignInInv'
  BY <1>0, <1>2, SignInKeeps
<1>3. ASSUME NEW e \in Employees, ClaimEmail(e) PROVE LoginTypeOK' /\ SignInInv'
  BY <1>0, <1>3 DEF ClaimEmail, LoginTypeOK, SignInInv, Accounted, LoginAt
<1>4. ASSUME NEW k \in Requests, RequestStep(k) PROVE UNCHANGED loginVars
  BY <1>4 DEF RequestStep, CreateVendor, ReadVendor, RegisterProvider, SetProvider, VerifyDomain,
     Activate, DeleteProvider, DisableRow, Abandon, ssoVars
<1> QED
  BY <1>1, <1>2, <1>3, <1>4 DEF Next, allVars, ssoVars

-----------------------------------------------------------------------------
(* Vendors and providers                                                   *)

VendorInv == SsoTypeOK /\ OpInv /\ ProviderInv

LEMMA OpShapes ==
  ASSUME SsoTypeOK
  PROVE  \A k \in Requests :
           /\ ~Op(k, "idle") => vop[k] \in VendorOp /\ vop[k].v \in Vendors
                                /\ vop[k].prov \in Providers \cup {NULL}
           /\ Op(k, "idle") => vop[k] = NoOp /\ vop[k].prov = NULL
BY DEF SsoTypeOK, Op, VendorOp, NoOp

(* A step that changes no vendor, and takes no request away from an        *)
(* operation that is under way.                                            *)
LEMMA OutsideKeeps ==
  ASSUME VendorInv, UNCHANGED <<vendorVars, prov, vop, halfDisabled>>,
         \A k \in Requests : ~Op(k, "idle") => request'[k] = request[k]
  PROVE  VendorInv'
BY DEF VendorInv, SsoTypeOK, OpInv, OpOk, ProviderInv, ByProvider, vendorVars, Op

(* The end of an operation that wrote no row of a provider.                *)
LEMMA ReadVendorKeeps ==
  ASSUME VendorInv, NEW k \in Requests, NEW v \in Vendors, ReadVendor(k, v)
  PROVE  VendorInv'
<1> USE VendorAssumption DEF VendorInv, vendorVars, adminVars
<1>1. PICK pc \in {"register", "verify", "delete", "disable"}, p \in Providers \cup {NULL} :
        /\ vop' = [vop EXCEPT ![k] = [pc |-> pc, v |-> v, prov |-> p]]
        /\ pc \in {"verify", "delete"} => p = vprov[v] /\ p # NULL
        /\ pc \in {"register", "disable"} => p = NULL
  BY DEF ReadVendor, Open, SsoTypeOK
<1>2. /\ vop'[k] = [pc |-> pc, v |-> v, prov |-> p]
      /\ \A j \in Requests : j # k => vop'[j] = vop[j]
      /\ vop' \in [Requests -> VendorOp \cup {NoOp}]
  BY <1>1 DEF SsoTypeOK, VendorOp
<1>3. /\ UNCHANGED <<vstatus, vprov, replaced, overlooked, crossed, prov, halfDisabled, request>>
      /\ request[k].pc = "checked" /\ vstatus[v] # "none" /\ vop[k].pc = "idle" /\ vop[k].prov = NULL
  BY OpShapes DEF ReadVendor, Ready, Op
<1>4. SsoTypeOK'
  BY <1>2, <1>3 DEF SsoTypeOK
<1>5. OpInv'
  <2>1. p # NULL => prov[p].v = v /\ prov[p].status # "none" /\ p = vprov[v]
    BY <1>1 DEF ProviderInv, ByProvider
  <2>2. \A j \in Requests : Op(j, "registered") => vop[j].prov # p \/ p = NULL
    BY <1>1 DEF OpInv, OpOk
  <2> QED
    BY <1>1, <1>2, <1>3, <2>1, <2>2 DEF OpInv, OpOk, Op
<1>6. ProviderInv'
  <2>1. \A j \in Requests : Op(j, "disable") => Op(j, "disable")' /\ vop'[j].prov = vop[j].prov
    BY <1>2, <1>3 DEF Op
  <2> QED
    BY <1>3, <2>1 DEF ProviderInv, ByProvider
<1> QED
  BY <1>4, <1>5, <1>6

(* What ends an operation.                                                 *)
Ended(k) ==
  /\ vop'[k] = NoOp
  /\ \A j \in Requests : j # k => vop'[j] = vop[j] /\ request'[j] = request[j]
  /\ vop' \in [Requests -> VendorOp \cup {NoOp}]

LEMMA EndsOp ==
  ASSUME AdminTypeOK, SsoTypeOK, NEW k \in Requests,
         vop' = [vop EXCEPT ![k] = NoOp], Answered(k)
  PROVE  Ended(k)
BY DEF Ended, Answered, AdminTypeOK, SsoTypeOK

LEMMA CreateVendorKeeps ==
  ASSUME AdminTypeOK, VendorInv, NEW k \in Requests, NEW v \in Vendors, CreateVendor(k, v)
  PROVE  VendorInv'
<1> USE VendorAssumption DEF VendorInv
<1>1. Ended(k)
  BY EndsOp DEF CreateVendor, Done
<1>2. /\ UNCHANGED <<vprov, replaced, overlooked, crossed, prov, halfDisabled>>
      /\ vstatus' = [vstatus EXCEPT ![v] = "pending"] /\ vstatus[v] = "none"
      /\ Op(k, "idle")
  BY DEF CreateVendor, Ready, Op
<1>3. /\ vstatus'[v] = "pending" /\ \A w \in Vendors : w # v => vstatus'[w] = vstatus[w]
      /\ vstatus' \in [Vendors -> {"none", "pending", "active", "disabled"}]
  BY <1>2 DEF SsoTypeOK
<1>4. SsoTypeOK'
  BY <1>1, <1>2, <1>3 DEF SsoTypeOK, Ended
<1>5. OpInv'
  <2>1. \A j \in Requests : ~Op(j, "idle") => vstatus'[vop[j].v] # "none"
    BY <1>3, OpShapes DEF OpInv, OpOk
  <2> QED
    BY <1>1, <1>2, <2>1 DEF OpInv, OpOk, Op, Ended, NoOp
<1>6. ProviderInv'
  <2>1. \A j \in Requests : Op(j, "disable") => Op(j, "disable")' /\ vop'[j].prov = vop[j].prov
    BY <1>1, <1>2 DEF Op, Ended
  <2> QED
    BY <1>2, <1>3, <2>1 DEF ProviderInv, ByProvider
<1> QED
  BY <1>4, <1>5, <1>6

LEMMA RegisterProviderKeeps ==
  ASSUME AdminTypeOK, VendorInv, NEW k \in Requests, RegisterProvider(k)
  PROVE  VendorInv'
<1> USE VendorAssumption DEF VendorInv, vendorVars, adminVars
<1>1. PICK p \in Providers, v \in Vendors :
        /\ v = vop[k].v /\ prov[p].status = "none"
        /\ prov' = [prov EXCEPT ![p] = [status |-> "registered", v |-> v]]
        /\ vop' = [vop EXCEPT ![k] = [pc |-> "registered", v |-> v, prov |-> p]]
  BY OpShapes DEF RegisterProvider, Open, Op
<1>2. /\ vop'[k] = [pc |-> "registered", v |-> v, prov |-> p]
      /\ \A j \in Requests : j # k => vop'[j] = vop[j]
      /\ vop' \in [Requests -> VendorOp \cup {NoOp}]
  BY <1>1 DEF SsoTypeOK, VendorOp
<1>3. /\ prov'[p] = [status |-> "registered", v |-> v]
      /\ \A q \in Providers : q # p => prov'[q] = prov[q]
      /\ prov' \in [Providers -> [status : {"none", "registered", "verified", "deleted"},
                                  v : Vendors \cup {NULL}]]
  BY <1>1 DEF SsoTypeOK
<1>4. /\ UNCHANGED <<vstatus, vprov, replaced, overlooked, crossed, halfDisabled, request>>
      /\ Op(k, "register")
  BY DEF RegisterProvider
<1>5. /\ \A w \in Vendors : vprov[w] # p
      /\ \A j \in Requests : vop[j].prov # p
  BY <1>1 DEF ProviderInv, ByProvider, OpInv, OpOk
<1>6. SsoTypeOK'
  BY <1>2, <1>3, <1>4 DEF SsoTypeOK
<1>7. OpInv'
  <2>1. ASSUME NEW j \in Requests, j # k, vop[j].prov # NULL
        PROVE  vop[j].prov \in Providers /\ prov'[vop[j].prov] = prov[vop[j].prov]
    BY <1>3, <1>5, <2>1, OpShapes
  <2> QED
    BY <1>1, <1>2, <1>3, <1>4, <1>5, <2>1 DEF OpInv, OpOk, Op
<1>8. ProviderInv'
  <2>1. \A j \in Requests : Op(j, "disable") => Op(j, "disable")' /\ vop'[j].prov = vop[j].prov
    BY <1>2, <1>4 DEF Op
  <2>2. \A w \in Vendors : vprov[w] # NULL => prov'[vprov[w]] = prov[vprov[w]]
    BY <1>3, <1>5 DEF SsoTypeOK
  <2>3. prov'[p].status # "verified"
    BY <1>3
  <2> QED
    BY <1>3, <1>4, <2>1, <2>2, <2>3 DEF ProviderInv, ByProvider
<1> QED
  BY <1>6, <1>7, <1>8

LEMMA SetProviderKeeps ==
  ASSUME AdminTypeOK, VendorInv, NEW k \in Requests, SetProvider(k)
  PROVE  VendorInv'
<1> USE VendorAssumption DEF VendorInv
<1>1. PICK p \in Providers, v \in Vendors : p = vop[k].prov /\ v = vop[k].v
  BY OpShapes DEF SetProvider, OpInv, OpOk, Op
<1>2. Ended(k)
  BY EndsOp DEF SetProvider, Done
<1>3. /\ vprov'[v] = p /\ \A w \in Vendors : w # v => vprov'[w] = vprov[w]
      /\ vstatus'[v] = "pending" /\ \A w \in Vendors : w # v => vstatus'[w] = vstatus[w]
      /\ replaced' = replaced \cup ({vprov[v]} \ {NULL}) /\ crossed' = crossed \ {v}
      /\ UNCHANGED <<overlooked, prov, halfDisabled>>
  BY <1>1 DEF SetProvider, StatusAfterRegister, SsoTypeOK
<1>4. /\ Op(k, "registered") /\ prov[p].status = "registered" /\ prov[p].v = v
      /\ \A w \in Vendors : vprov[w] # p
      /\ \A j \in Requests \ {k} : vop[j].prov # p
  BY <1>1 DEF SetProvider, OpInv, OpOk
<1>5. SsoTypeOK'
  <2>1. vprov' \in [Vendors -> Providers \cup {NULL}]
    BY <1>1 DEF SetProvider, SsoTypeOK
  <2>2. vstatus' \in [Vendors -> {"none", "pending", "active", "disabled"}]
    BY DEF SetProvider, StatusAfterRegister, SsoTypeOK
  <2>3. replaced' \subseteq Providers
    BY <1>3 DEF SsoTypeOK
  <2> QED
    BY <1>2, <1>3, <2>1, <2>2, <2>3 DEF SsoTypeOK, Ended
<1>6. OpInv'
  <2>1. ASSUME NEW j \in Requests, j # k, ~Op(j, "idle")
        PROVE  /\ vstatus'[vop[j].v] # "none"
               /\ vop[j].prov # NULL /\ ~Op(j, "registered") /\ prov[vop[j].prov].status # "deleted" =>
                    vprov'[vop[j].v] = vop[j].prov \/ vop[j].prov \in replaced' \cup overlooked
               /\ Op(j, "registered") => \A w \in Vendors : vprov'[w] # vop[j].prov
    <3>1. vop[j].v \in Vendors /\ vop[j].prov # p
      BY <1>4, <2>1, OpShapes
    <3>2. vstatus'[vop[j].v] # "none"
      BY <1>3, <2>1, <3>1 DEF OpInv, OpOk
    <3>3. vop[j].prov # NULL /\ ~Op(j, "registered") /\ prov[vop[j].prov].status # "deleted" =>
            vprov'[vop[j].v] = vop[j].prov \/ vop[j].prov \in replaced' \cup overlooked
      BY <1>3, <2>1, <3>1 DEF OpInv, OpOk
    <3>4. Op(j, "registered") => \A w \in Vendors : vprov'[w] # vop[j].prov
      BY <1>3, <2>1, <3>1 DEF OpInv, OpOk
    <3> QED
      BY <3>2, <3>3, <3>4
  <2>2. OpOk(k)'
    BY <1>2 DEF OpOk, Op, Ended, NoOp
  <2>3. ASSUME NEW j \in Requests, j # k PROVE OpOk(j)'
    <3>1. vop'[j] = vop[j] /\ request'[j] = request[j] /\ UNCHANGED <<prov, overlooked>>
      BY <1>2, <1>3, <2>3 DEF Ended
    <3>2. \A i \in Requests : vop'[i].prov \in {vop[i].prov, NULL}
      BY <1>2 DEF Ended, NoOp
    <3>3. OpOk(j) /\ (Op(j, "idle") => vop[j].prov = NULL)
      BY OpShapes DEF OpInv
    <3> QED
      BY <2>1, <2>3, <3>1, <3>2, <3>3 DEF OpOk, Op
  <2> QED
    BY <2>2, <2>3 DEF OpInv
<1>7. ProviderInv'
  <2>1. \A j \in Requests : Op(j, "disable") => Op(j, "disable")' /\ vop'[j].prov = vop[j].prov
    BY <1>2, <1>4 DEF Op, Ended
  <2>2. ASSUME NEW q \in Providers, prov[q].status = "verified"
        PROVE  prov[q].v \in Vendors /\ (vprov'[prov[q].v] = q \/ q \in replaced' \cup overlooked)
    BY <1>3, <2>2 DEF ProviderInv
  <2>3. ASSUME NEW w \in Vendors
        PROVE  /\ vprov'[w] # NULL => prov[vprov'[w]].v = w /\ prov[vprov'[w]].status # "none"
               /\ vstatus'[w] \in {"none", "disabled"} => vprov'[w] = NULL
               /\ vstatus'[w] = "active" =>
                    \/ w \in crossed'
                    \/ vprov'[w] # NULL /\ prov[vprov'[w]].status \in {"verified", "deleted"}
               /\ vprov'[w] # NULL /\ prov[vprov'[w]].status = "deleted" =>
                    \/ vprov'[w] \in halfDisabled
                    \/ \E j \in Requests : Op(j, "disable") /\ vop[j].prov = vprov'[w]
    <3>1. CASE w = v
      BY <1>3, <1>4, <3>1
    <3>2. CASE w # v
      BY <1>3, <3>2 DEF ProviderInv, ByProvider
    <3> QED
      BY <3>1, <3>2
  <2> QED
    BY <1>3, <2>1, <2>2, <2>3 DEF ProviderInv, ByProvider
<1> QED
  BY <1>5, <1>6, <1>7

LEMMA VerifyDomainKeeps ==
  ASSUME AdminTypeOK, VendorInv, NEW k \in Requests, VerifyDomain(k)
  PROVE  VendorInv'
<1> USE VendorAssumption DEF VendorInv, vendorVars, adminVars
<1>1. PICK p \in Providers, v \in Vendors : p = vop[k].prov /\ v = vop[k].v
  BY OpShapes DEF VerifyDomain, OpInv, OpOk, Op
<1>2. /\ prov[p].status \in {"registered", "verified"} /\ prov[p].v = v
      /\ vprov[v] = p \/ p \in replaced \cup overlooked
      /\ Op(k, "verify") /\ OpOk(k)
  BY <1>1 DEF VerifyDomain, OpInv, OpOk, Op
<1>3. /\ prov'[p].status = "verified" /\ prov'[p].v = v
      /\ \A q \in Providers : q # p => prov'[q] = prov[q]
      /\ prov' \in [Providers -> [status : {"none", "registered", "verified", "deleted"},
                                  v : Vendors \cup {NULL}]]
  BY <1>1, <1>2 DEF VerifyDomain, SsoTypeOK
<1>4. /\ vop'[k].pc = "verified" /\ vop'[k].v = v /\ vop'[k].prov = p
      /\ \A j \in Requests : j # k => vop'[j] = vop[j]
      /\ vop' \in [Requests -> VendorOp \cup {NoOp}]
  BY <1>1, <1>2, OpShapes DEF VerifyDomain, Next2, SsoTypeOK, VendorOp, Op
<1>5. UNCHANGED <<vstatus, vprov, replaced, overlooked, crossed, halfDisabled, request>>
  BY DEF VerifyDomain
<1>6. SsoTypeOK'
  BY <1>3, <1>4, <1>5 DEF SsoTypeOK
<1>7. OpInv'
  <2>1. OpOk(k)'
    BY <1>1, <1>2, <1>3, <1>4, <1>5 DEF OpOk, Op
  <2>2. ASSUME NEW j \in Requests, j # k PROVE OpOk(j)'
    <3>1. OpOk(j) /\ vop'[j] = vop[j] /\ vop[j].prov \in Providers \cup {NULL}
      BY <1>4, <2>2, OpShapes DEF OpInv
    <3>2. CASE vop[j].prov # p
      <4>1. \A i \in Requests : vop'[i].prov = vop[i].prov
        BY <1>1, <1>4
      <4> QED
        BY <1>3, <1>5, <3>1, <3>2, <4>1 DEF OpOk, Op
    <3>3. CASE vop[j].prov = p
      <4>1. ~Op(j, "registered") /\ ~Op(j, "disable")
        BY <1>1, <1>2, <2>2, <3>1, <3>3 DEF OpOk
      <4> QED
        BY <1>1, <1>2, <1>3, <1>4, <1>5, <3>1, <3>3, <4>1 DEF OpOk, Op
    <3> QED
      BY <3>2, <3>3
  <2> QED
    BY <2>1, <2>2 DEF OpInv
<1>8. ProviderInv'
  <2>1. \A j \in Requests : Op(j, "disable") => Op(j, "disable")' /\ vop'[j].prov = vop[j].prov
    BY <1>2, <1>4 DEF Op
  <2>2. ASSUME NEW q \in Providers, prov'[q].status = "verified"
        PROVE  prov'[q].v \in Vendors /\ (vprov[prov'[q].v] = q \/ q \in replaced \cup overlooked)
    BY <1>2, <1>3, <2>2 DEF ProviderInv
  <2>3. ASSUME NEW w \in Vendors
        PROVE  /\ vprov[w] # NULL => prov'[vprov[w]].v = w /\ prov'[vprov[w]].status # "none"
               /\ vstatus[w] = "active" =>
                    \/ w \in crossed
                    \/ vprov[w] # NULL /\ prov'[vprov[w]].status \in {"verified", "deleted"}
               /\ vprov[w] # NULL /\ prov'[vprov[w]].status = "deleted" =>
                    \/ vprov[w] \in halfDisabled
                    \/ \E j \in Requests : Op(j, "disable") /\ vop[j].prov = vprov[w]
    <3>1. vprov[w] \in Providers \cup {NULL}
      BY DEF SsoTypeOK
    <3>2. CASE vprov[w] = p
      BY <1>2, <1>3, <3>2 DEF ProviderInv, ByProvider
    <3>3. CASE vprov[w] # p
      BY <1>3, <3>1, <3>3 DEF ProviderInv, ByProvider
    <3> QED
      BY <3>2, <3>3
  <2> QED
    BY <1>5, <2>1, <2>2, <2>3 DEF ProviderInv, ByProvider
<1> QED
  BY <1>6, <1>7, <1>8

LEMMA DeleteProviderKeeps ==
  ASSUME AdminTypeOK, VendorInv, NEW k \in Requests, DeleteProvider(k)
  PROVE  VendorInv'
<1> USE VendorAssumption DEF VendorInv, vendorVars, adminVars
<1>1. PICK p \in Providers, v \in Vendors : p = vop[k].prov /\ v = vop[k].v
  BY OpShapes DEF DeleteProvider, OpInv, OpOk, Op
<1>2. /\ prov[p].status \in {"registered", "verified"} /\ prov[p].v = v
      /\ Op(k, "delete") /\ OpOk(k)
  BY <1>1 DEF DeleteProvider, OpInv, OpOk, Op
<1>3. /\ prov'[p].status = "deleted" /\ prov'[p].v = v
      /\ \A q \in Providers : q # p => prov'[q] = prov[q]
      /\ prov' \in [Providers -> [status : {"none", "registered", "verified", "deleted"},
                                  v : Vendors \cup {NULL}]]
  BY <1>1, <1>2 DEF DeleteProvider, SsoTypeOK
<1>4. /\ vop'[k].pc = "disable" /\ vop'[k].v = v /\ vop'[k].prov = p
      /\ \A j \in Requests : j # k => vop'[j] = vop[j]
      /\ vop' \in [Requests -> VendorOp \cup {NoOp}]
  BY <1>1, <1>2, OpShapes DEF DeleteProvider, Next2, SsoTypeOK, VendorOp, Op
<1>5. UNCHANGED <<vstatus, vprov, replaced, overlooked, crossed, halfDisabled, request>>
  BY DEF DeleteProvider
<1>6. SsoTypeOK'
  BY <1>3, <1>4, <1>5 DEF SsoTypeOK
<1>7. OpInv'
  <2>1. OpOk(k)'
    BY <1>1, <1>2, <1>3, <1>4, <1>5 DEF OpOk, Op
  <2>2. ASSUME NEW j \in Requests, j # k PROVE OpOk(j)'
    <3>1. OpOk(j) /\ vop'[j] = vop[j] /\ vop[j].prov \in Providers \cup {NULL}
      BY <1>4, <2>2, OpShapes DEF OpInv
    <3>2. CASE vop[j].prov # p
      <4>1. \A i \in Requests : vop'[i].prov = vop[i].prov
        BY <1>1, <1>4
      <4> QED
        BY <1>3, <1>5, <3>1, <3>2, <4>1 DEF OpOk, Op
    <3>3. CASE vop[j].prov = p
      <4>1. ~Op(j, "registered")
        BY <1>1, <1>2, <2>2, <3>1, <3>3 DEF OpOk
      <4> QED
        BY <1>1, <1>2, <1>3, <1>4, <1>5, <3>1, <3>3, <4>1 DEF OpOk, Op
    <3> QED
      BY <3>2, <3>3
  <2> QED
    BY <2>1, <2>2 DEF OpInv
<1>8. ProviderInv'
  <2>1. \A j \in Requests : Op(j, "disable") => Op(j, "disable")' /\ vop'[j].prov = vop[j].prov
    BY <1>2, <1>4 DEF Op
  <2>2. Op(k, "disable")' /\ vop'[k].prov = p
    BY <1>4 DEF Op
  <2>3. ASSUME NEW q \in Providers, prov'[q].status = "verified"
        PROVE  prov'[q].v \in Vendors /\ (vprov[prov'[q].v] = q \/ q \in replaced \cup overlooked)
    BY <1>2, <1>3, <2>3 DEF ProviderInv
  <2>4. ASSUME NEW w \in Vendors
        PROVE  /\ vprov[w] # NULL => prov'[vprov[w]].v = w /\ prov'[vprov[w]].status # "none"
               /\ vstatus[w] = "active" =>
                    \/ w \in crossed
                    \/ vprov[w] # NULL /\ prov'[vprov[w]].status \in {"verified", "deleted"}
               /\ vprov[w] # NULL /\ prov'[vprov[w]].status = "deleted" =>
                    \/ vprov[w] \in halfDisabled
                    \/ vprov[w] = p
                    \/ \E j \in Requests : Op(j, "disable") /\ vop[j].prov = vprov[w]
    <3>1. vprov[w] \in Providers \cup {NULL}
      BY DEF SsoTypeOK
    <3>2. CASE vprov[w] = p
      BY <1>2, <1>3, <3>2 DEF ProviderInv, ByProvider
    <3>3. CASE vprov[w] # p
      BY <1>3, <3>1, <3>3 DEF ProviderInv, ByProvider
    <3> QED
      BY <3>2, <3>3
  <2> QED
    BY <1>5, <2>1, <2>2, <2>3, <2>4 DEF ProviderInv, ByProvider
<1> QED
  BY <1>6, <1>7, <1>8

LEMMA ActivateKeeps ==
  ASSUME AdminTypeOK, VendorInv, NEW k \in Requests, Activate(k)
  PROVE  VendorInv'
<1> USE VendorAssumption DEF VendorInv
<1>1. PICK p \in Providers \cup {NULL}, v \in Vendors : p = vop[k].prov /\ v = vop[k].v
  BY OpShapes DEF Activate, OpInv, OpOk, Op
<1>2. Ended(k)
  BY EndsOp DEF Activate, Done
<1>3. /\ vstatus'[v] = "active" /\ \A w \in Vendors : w # v => vstatus'[w] = vstatus[w]
      /\ vstatus' \in [Vendors -> {"none", "pending", "active", "disabled"}]
      /\ crossed' = IF vprov[v] = p THEN crossed ELSE crossed \cup {v}
      /\ UNCHANGED <<vprov, replaced, overlooked, prov, halfDisabled>>
      /\ vstatus[v] # "disabled"
  BY <1>1 DEF Activate, SsoTypeOK
<1>4. /\ p # NULL /\ prov[p].status \in {"verified", "deleted"}
      /\ Op(k, "verified") /\ vstatus[v] # "none"
  BY <1>1 DEF Activate, OpInv, OpOk, Op
<1>5. SsoTypeOK'
  BY <1>2, <1>3 DEF SsoTypeOK, Ended
<1>6. OpInv'
  <2>1. OpOk(k)'
    BY <1>2 DEF OpOk, Op, Ended, NoOp
  <2>2. ASSUME NEW j \in Requests, j # k PROVE OpOk(j)'
    <3>1. OpOk(j) /\ vop'[j] = vop[j] /\ request'[j] = request[j]
      BY <1>2, <2>2 DEF OpInv, Ended
    <3>2. \A i \in Requests : vop'[i].prov \in {vop[i].prov, NULL}
      BY <1>2 DEF Ended, NoOp
    <3>3. ~Op(j, "idle") => vop[j].v \in Vendors
      BY OpShapes
    <3> QED
      BY <1>3, <3>1, <3>2, <3>3 DEF OpOk, Op
  <2> QED
    BY <2>1, <2>2 DEF OpInv
<1>7. ProviderInv'
  <2>1. \A j \in Requests : Op(j, "disable") => Op(j, "disable")' /\ vop'[j].prov = vop[j].prov
    BY <1>2, <1>4 DEF Op, Ended
  <2> QED
    BY <1>3, <1>4, <2>1 DEF ProviderInv, ByProvider
<1> QED
  BY <1>5, <1>6, <1>7

LEMMA DisableRowKeeps ==
  ASSUME AdminTypeOK, VendorInv, NEW k \in Requests, DisableRow(k)
  PROVE  VendorInv'
<1> USE VendorAssumption DEF VendorInv
<1>1. PICK p \in Providers \cup {NULL}, v \in Vendors : p = vop[k].prov /\ v = vop[k].v
  BY OpShapes DEF DisableRow, Op
<1>2. Ended(k)
  BY EndsOp DEF DisableRow, Done
<1>3. /\ vstatus'[v] = "disabled" /\ \A w \in Vendors : w # v => vstatus'[w] = vstatus[w]
      /\ vstatus' \in [Vendors -> {"none", "pending", "active", "disabled"}]
      /\ vprov'[v] = NULL /\ \A w \in Vendors : w # v => vprov'[w] = vprov[w]
      /\ vprov' \in [Vendors -> Providers \cup {NULL}]
      /\ overlooked' = overlooked \cup ({vprov[v]} \ {NULL, p}) /\ crossed' = crossed \ {v}
      /\ UNCHANGED <<replaced, prov, halfDisabled>>
  BY <1>1 DEF DisableRow, SsoTypeOK
<1>4. /\ Op(k, "disable")
      /\ p # NULL => prov[p].status = "deleted" /\ prov[p].v = v
  BY <1>1 DEF DisableRow, OpInv, OpOk
<1>5. SsoTypeOK'
  <2>1. overlooked' \subseteq Providers
    BY <1>3 DEF SsoTypeOK
  <2> QED
    BY <1>2, <1>3, <2>1 DEF SsoTypeOK, Ended
<1>6. OpInv'
  <2>1. OpOk(k)'
    BY <1>2 DEF OpOk, Op, Ended, NoOp
  <2>2. ASSUME NEW j \in Requests, j # k PROVE OpOk(j)'
    <3>1. OpOk(j) /\ vop'[j] = vop[j] /\ request'[j] = request[j]
      BY <1>2, <2>2 DEF OpInv, Ended
    <3>2. \A i \in Requests : vop'[i].prov \in {vop[i].prov, NULL}
      BY <1>2 DEF Ended, NoOp
    <3>3. /\ ~Op(j, "idle") => vop[j].v \in Vendors
          /\ Op(j, "idle") => vop[j].prov = NULL
      BY OpShapes
    <3>4. ~Op(j, "idle") => vstatus'[vop[j].v] # "none"
      BY <1>3, <3>1, <3>3 DEF OpOk
    <3>5. Op(j, "registered") => vop[j].prov # NULL /\ \A w \in Vendors : vprov'[w] # vop[j].prov
      BY <1>3, <3>1 DEF OpOk, Op
    <3>6. vop[j].prov # NULL /\ ~Op(j, "registered") /\ prov[vop[j].prov].status # "deleted" =>
            vprov'[vop[j].v] = vop[j].prov \/ vop[j].prov \in replaced \cup overlooked'
      BY <1>3, <1>4, <3>1, <3>3 DEF OpOk
    <3> QED
      BY <1>3, <3>1, <3>2, <3>4, <3>5, <3>6 DEF OpOk, Op
  <2> QED
    BY <2>1, <2>2 DEF OpInv
<1>7. ProviderInv'
  <2>1. \A j \in Requests : j # k /\ Op(j, "disable") => Op(j, "disable")' /\ vop'[j].prov = vop[j].prov
    BY <1>2 DEF Op, Ended
  <2>2. \A w \in Vendors : w # v /\ vprov[w] # NULL => vprov[w] # p
    BY <1>4 DEF ProviderInv, ByProvider
  <2>3. ASSUME NEW q \in Providers, prov[q].status = "verified"
        PROVE  prov[q].v \in Vendors /\ (vprov'[prov[q].v] = q \/ q \in replaced \cup overlooked')
    BY <1>3, <1>4, <2>3 DEF ProviderInv
  <2>4. ASSUME NEW w \in Vendors, w # v, vprov[w] # NULL, prov[vprov[w]].status = "deleted"
        PROVE  \/ vprov[w] \in halfDisabled
               \/ \E j \in Requests : Op(j, "disable")' /\ vop'[j].prov = vprov[w]
    BY <1>1, <2>1, <2>2, <2>4 DEF ProviderInv
  <2> QED
    BY <1>3, <2>3, <2>4 DEF ProviderInv, ByProvider
<1> QED
  BY <1>5, <1>6, <1>7

LEMMA AbandonKeeps ==
  ASSUME AdminTypeOK, VendorInv, NEW k \in Requests, Abandon(k)
  PROVE  VendorInv'
<1> USE VendorAssumption DEF VendorInv, vendorVars
<1>1. Ended(k)
  BY EndsOp DEF Abandon, EndRequest
<1>2. /\ UNCHANGED <<vstatus, vprov, replaced, overlooked, crossed, prov>>
      /\ halfDisabled' = IF Op(k, "disable") THEN halfDisabled \cup ({vop[k].prov} \ {NULL})
                         ELSE halfDisabled
  BY DEF Abandon
<1>3. SsoTypeOK'
  <2>1. vop[k].prov \in Providers \cup {NULL}
    BY OpShapes
  <2> QED
    BY <1>1, <1>2, <2>1 DEF SsoTypeOK, Ended
<1>4. OpInv'
  <2>1. OpOk(k)'
    BY <1>1 DEF OpOk, Op, Ended, NoOp
  <2>2. ASSUME NEW j \in Requests, j # k PROVE OpOk(j)'
    <3>1. OpOk(j) /\ vop'[j] = vop[j] /\ request'[j] = request[j]
      BY <1>1, <2>2 DEF OpInv, Ended
    <3>2. \A i \in Requests : vop'[i].prov \in {vop[i].prov, NULL}
      BY <1>1 DEF Ended, NoOp
    <3> QED
      BY <1>2, <3>1, <3>2 DEF OpOk, Op
  <2> QED
    BY <2>1, <2>2 DEF OpInv
<1>5. ProviderInv'
  <2>1. \A j \in Requests : Op(j, "disable") /\ vop[j].prov # NULL =>
          vop[j].prov \in halfDisabled' \/ (Op(j, "disable")' /\ vop'[j].prov = vop[j].prov)
    BY <1>1, <1>2 DEF Op, Ended
  <2>2. halfDisabled \subseteq halfDisabled'
    BY <1>2
  <2> QED
    BY <1>2, <2>1, <2>2 DEF ProviderInv, ByProvider
<1> QED
  BY <1>3, <1>4, <1>5

LEMMA VendorsStep == TypeOK /\ VendorInv /\ [Next]_allVars => VendorInv'
<1> SUFFICES ASSUME TypeOK, VendorInv, [Next]_allVars PROVE VendorInv'
  OBVIOUS
<1>0. AdminTypeOK
  BY DEF TypeOK
<1>1. CASE UNCHANGED allVars
  BY <1>1, OutsideKeeps DEF allVars, ssoVars, vendorVars, adminVars
<1>2. ASSUME NEW k \in Requests, RequestStep(k) PROVE VendorInv'
  <2>1. CASE Op(k, "idle") /\ AdminStep(k) /\ UNCHANGED ssoVars
    <3>1. \A j \in Requests : j # k => request'[j] = request[j]
      BY <1>0, <2>1 DEF AdminStep, CheckAdmin, Grant, Revoke, Answered, AdminTypeOK
    <3> QED
      BY <2>1, <3>1, OutsideKeeps DEF ssoVars
  <2>2. ASSUME NEW v \in Vendors, CreateVendor(k, v) \/ ReadVendor(k, v) PROVE VendorInv'
    BY <1>0, <2>2, CreateVendorKeeps, ReadVendorKeeps
  <2> QED
    BY <1>0, <1>2, <2>1, <2>2, RegisterProviderKeeps, SetProviderKeeps, VerifyDomainKeeps,
       ActivateKeeps, DeleteProviderKeeps, DisableRowKeeps, AbandonKeeps DEF RequestStep
<1>3. ASSUME NEW l \in Logins, SignInStep(l) PROVE VendorInv'
  <2>1. UNCHANGED <<vendorVars, prov, vop, halfDisabled, request>>
    BY <1>3 DEF SignInStep, BeginSignIn, Callback, FindVendor, AttachEmail, GrantVendorRole,
       OpenSession, SignInFails, adminVars
  <2> QED
    BY <2>1, OutsideKeeps
<1>4. ASSUME NEW e \in Employees, ClaimEmail(e) PROVE VendorInv'
  BY <1>4, OutsideKeeps DEF ClaimEmail, adminVars
<1> QED
  BY <1>1, <1>2, <1>3, <1>4 DEF Next

-----------------------------------------------------------------------------
LEMMA SpecInv == Spec => []IInv
<1>1. IInv /\ [Next]_allVars => IInv'
  <2> SUFFICES ASSUME IInv, [Next]_allVars PROVE IInv'
    OBVIOUS
  <2>1. TypeOK /\ VendorInv
    BY TypeParts DEF IInv, VendorInv
  <2>2. AdminTypeOK' /\ LateInv' /\ LoginTypeOK' /\ SignInInv' /\ VendorInv'
    BY <2>1, AdminsStep, LoginsStep, VendorsStep DEF IInv
  <2>3. TypeOK'
    BY <2>2 DEF TypeOK, SsoTypeOK, LoginTypeOK, VendorInv
  <2> QED
    BY <2>2, <2>3 DEF IInv, VendorInv
<1> QED
  BY InitInv, <1>1, PTL DEF Spec

(* The state of AccessAdmin and VendorSso keeps its types.                 *)
THEOREM VendorTypesHold == Spec => []TypeOK
<1>1. IInv => TypeOK
  BY DEF IInv
<1> QED
  BY SpecInv, <1>1, PTL

(* hasProductAdmin: after the ADMIN role of a product is revoked from a    *)
(* user, at most one change for each request that was under way is made in *)
(* that user's name, for any number of requests.                           *)
THEOREM FormerAdminsBounded == Spec => []RevokedAdminBounded
<1>1. IInv => RevokedAdminBounded
  <2> SUFFICES ASSUME IInv, NEW u \in Users \cup Newcomers, NEW p \in Products
               PROVE  late[u][p] < Cardinality(Requests)
    BY DEF RevokedAdminBounded
  <2>1. late[u][p] \in Nat
    BY DEF IInv, TypeOK, AdminTypeOK
  <2>2. Cardinality(Pending(u, p)) \in Nat /\ Cardinality(Requests) \in Nat
    BY PendingFinite
  <2>3. Cardinality(Requests) # 0
    BY AdminAssumption, FS_EmptySet
  <2> QED
    BY <2>1, <2>2, <2>3 DEF IInv, LateInv
<1> QED
  BY SpecInv, <1>1, PTL

(* activateVendor: an active vendor names a provider whose domain is       *)
(* verified, but for the two races the property names.                     *)
THEOREM ActiveIsVerified == Spec => []ActiveMeansVerified
<1>1. IInv => ActiveMeansVerified
  BY DEF IInv, ProviderInv, ActiveMeansVerified
<1> QED
  BY SpecInv, <1>1, PTL

(* disableVendor: a provider of a disabled vendor that still works is one  *)
(* the vendor no longer named when it was disabled, or not yet.            *)
THEOREM DisabledAreGone == Spec => []DisabledProvidersGone
<1>1. IInv => DisabledProvidersGone
  BY VendorAssumption DEF IInv, ProviderInv, DisabledProvidersGone
<1> QED
  BY SpecInv, <1>1, PTL

(* provisionVendorUser: no session without a provisioned user, but for a   *)
(* first sign-in that stopped half way or is still under way.              *)
THEOREM SessionsAreProvisioned == Spec => []SignedInAreProvisioned
<1>1. IInv => SignedInAreProvisioned
  BY DEF IInv, TypeOK, SignInInv, Accounted, SignedInAreProvisioned
<1> QED
  BY SpecInv, <1>1, PTL
=============================================================================
