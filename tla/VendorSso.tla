------------------------------- MODULE VendorSso -------------------------------
(***************************************************************************)
(* Vendor single sign-on (src/services/vendor-sso.ts): administrators      *)
(* create vendors, register and verify their identity providers and        *)
(* disable them; employees sign in through Better Auth's sso() plug-in,    *)
(* whose provisionUser hook makes them users of Masterclass.               *)
(*                                                                         *)
(* A vendor is a row of ours that names one provider; providers are rows   *)
(* of Better Auth.  No transaction covers both, and every operation reads  *)
(* the vendor's row some calls before it writes it.                        *)
(***************************************************************************)
EXTENDS AccessAdmin

CONSTANTS
  Vendors,
  Providers,  (* provider ids that may be drawn; bounds the registrations   *)
  Logins,     (* sign-ins that may be under way at the same time            *)
  Domain      (* the allowed domain of a vendor, the domain of an employee  *)

Employees == Newcomers
Masterclass == "masterclass"
VendorRow(e) == [u |-> e, p |-> Masterclass, r |-> "VENDOR"]

ASSUME VendorAssumption ==
  /\ Masterclass \in Products
  /\ \A e \in Employees : VendorRow(e) \in Rows
  /\ NULL \notin Providers /\ NULL \notin Vendors

VARIABLES
  vstatus,      (* vendor.status, "none": no row                            *)
  vprov,        (* vendor.sso_provider_id                                   *)
  prov,         (* Better Auth's provider rows                              *)
  vop,          (* what a checked request does to a vendor                  *)
  account,      (* the provider of an employee's Better Auth account        *)
  claimed,      (* employees whose email is some other user's handle        *)
  handled,      (* employees whose email is a verified handle of their own  *)
  login,        (* sign-ins between the first redirect and the session      *)
  signedIn,     (* history: employees who ever got a session                *)
  provisioned,  (* history: employees who ever got the VENDOR row           *)
  failed,       (* history: employees whose provisioning threw or stopped   *)
  replaced,     (* history: providers whose vendor registered another       *)
  overlooked,   (* history: providers that disableVendorRow cleared without *)
                (* their deletion                                           *)
  halfDisabled, (* history: providers whose deletion was the last step of   *)
                (* a disable that did not reach the vendor's row            *)
  crossed       (* history: vendors activated for a provider they no longer *)
                (* named when its domain was verified                       *)

vendorVars == <<vstatus, vprov, replaced, overlooked, crossed>>
loginVars  == <<account, claimed, handled, login, signedIn, provisioned, failed>>
ssoVars    == <<vendorVars, prov, vop, loginVars, halfDisabled>>
allVars    == <<adminVars, ssoVars>>

NoOp    == [pc |-> "idle", v |-> NULL, prov |-> NULL]
VendorOp == [pc : {"register", "registered", "verify", "verified", "delete", "disable"},
             v : Vendors, prov : Providers \cup {NULL}]
NoLogin == [pc |-> "idle", e |-> NULL, prov |-> NULL, v |-> NULL]
Login   == [pc : {"away", "provision", "attach", "grant", "session"},
            e : Employees, prov : Providers, v : Vendors \cup {NULL}]

TypeOK ==
  /\ AdminTypeOK
  /\ vstatus \in [Vendors -> {"none", "pending", "active", "disabled"}]
  /\ vprov \in [Vendors -> Providers \cup {NULL}]
  /\ prov \in [Providers -> [status : {"none", "registered", "verified", "deleted"},
                             v : Vendors \cup {NULL}]]
  /\ vop \in [Requests -> VendorOp \cup {NoOp}]
  /\ account \in [Employees -> Providers \cup {NULL}]
  /\ login \in [Logins -> Login \cup {NoLogin}]
  /\ claimed \subseteq Employees
  /\ handled \subseteq Employees /\ signedIn \subseteq Employees
  /\ provisioned \subseteq Employees /\ failed \subseteq Employees
  /\ replaced \subseteq Providers /\ overlooked \subseteq Providers
  /\ halfDisabled \subseteq Providers
  /\ crossed \subseteq Vendors

Init ==
  /\ AdminInit
  /\ vstatus = [v \in Vendors |-> "none"]
  /\ vprov = [v \in Vendors |-> NULL]
  /\ prov = [p \in Providers |-> [status |-> "none", v |-> NULL]]
  /\ vop = [k \in Requests |-> NoOp]
  /\ account = [e \in Employees |-> NULL]
  /\ login = [l \in Logins |-> NoLogin]
  /\ claimed = {} /\ handled = {} /\ signedIn = {} /\ provisioned = {} /\ failed = {}
  /\ replaced = {} /\ overlooked = {} /\ halfDisabled = {} /\ crossed = {}

-----------------------------------------------------------------------------
(* Requests of administrators: CheckAdmin for Masterclass comes first.     *)

Ready(k) == request[k].pc = "checked" /\ request[k].product = Masterclass /\ vop[k].pc = "idle"
Op(k, pc) == vop[k].pc = pc
Next2(k, pc) == vop' = [vop EXCEPT ![k].pc = pc]
Open(k, pc, v, p) == vop' = [vop EXCEPT ![k] = [pc |-> pc, v |-> v, prov |-> p]]

(* The call returns after a change of ours.                                *)
Done(k) ==
  /\ vop' = [vop EXCEPT ![k] = NoOp]
  /\ late' = Counted(k)
  /\ Answered(k)
  /\ UNCHANGED <<users, access>>

(* createVendor                                                            *)
CreateVendor(k, v) ==
  /\ Ready(k)
  /\ vstatus[v] = "none"
  /\ vstatus' = [vstatus EXCEPT ![v] = "pending"]
  /\ Done(k)
  /\ UNCHANGED <<vprov, replaced, overlooked, crossed, prov, loginVars, halfDisabled>>

(* getVendorById, and what each operation goes on with.                    *)
ReadVendor(k, v) ==
  /\ Ready(k)
  /\ vstatus[v] # "none"
  /\ \/ Open(k, "register", v, NULL)
     \/ vprov[v] # NULL /\ Open(k, "verify", v, vprov[v])
     \/ vprov[v] # NULL /\ Open(k, "delete", v, vprov[v])
     \/ vprov[v] = NULL /\ Open(k, "disable", v, NULL)
  /\ UNCHANGED <<adminVars, vendorVars, prov, loginVars, halfDisabled>>

(* registerSSOProvider: a new provider, its domain unverified.             *)
RegisterProvider(k) ==
  /\ Op(k, "register")
  /\ \E p \in Providers :
       /\ prov[p].status = "none"
       /\ prov' = [prov EXCEPT ![p] = [status |-> "registered", v |-> vop[k].v]]
       /\ Open(k, "registered", vop[k].v, p)
  /\ UNCHANGED <<adminVars, vendorVars, loginVars, halfDisabled>>

(* Mutant of StatusAfterRegister: the verified state carries over.         *)
StatusAfterRegisterMutant(v) == vstatus[v]

StatusAfterRegister(v) == "pending"

(* setVendorSsoProvider                                                    *)
SetProvider(k) ==
  LET v == vop[k].v IN
  /\ Op(k, "registered")
  /\ vprov' = [vprov EXCEPT ![v] = vop[k].prov]
  /\ vstatus' = [vstatus EXCEPT ![v] = StatusAfterRegister(v)]
  /\ replaced' = replaced \cup ({vprov[v]} \ {NULL})
  /\ crossed' = crossed \ {v}
  /\ Done(k)
  /\ UNCHANGED <<overlooked, prov, loginVars, halfDisabled>>

(* verifyDomain: the DNS record is there; or 409, it was verified before.  *)
(* 404 and 502 end the request.                                            *)
VerifyDomain(k) ==
  LET p == vop[k].prov IN
  /\ Op(k, "verify")
  /\ prov[p].status \in {"registered", "verified"}
  /\ prov' = [prov EXCEPT ![p].status = "verified"]
  /\ Next2(k, "verified")
  /\ UNCHANGED <<adminVars, vendorVars, loginVars, halfDisabled>>

(* activateVendor: not a disabled one.                                     *)
Activate(k) ==
  LET v == vop[k].v IN
  /\ Op(k, "verified")
  /\ vstatus[v] # "disabled"
  /\ vstatus' = [vstatus EXCEPT ![v] = "active"]
  /\ crossed' = IF vprov[v] = vop[k].prov THEN crossed ELSE crossed \cup {v}
  /\ Done(k)
  /\ UNCHANGED <<vprov, replaced, overlooked, prov, loginVars, halfDisabled>>

(* Mutant of DeleteProvider: the vendor's row is enough, the provider      *)
(* stays.                                                                  *)
DeleteProviderMutant(k) ==
  /\ Op(k, "delete")
  /\ Next2(k, "disable")
  /\ UNCHANGED <<adminVars, vendorVars, prov, loginVars, halfDisabled>>

(* deleteSSOProvider throws for a provider that is not there.              *)
DeleteProvider(k) ==
  LET p == vop[k].prov IN
  /\ Op(k, "delete")
  /\ prov[p].status \in {"registered", "verified"}
  /\ prov' = [prov EXCEPT ![p].status = "deleted"]
  /\ Next2(k, "disable")
  /\ UNCHANGED <<adminVars, vendorVars, loginVars, halfDisabled>>

(* disableVendorRow                                                        *)
DisableRow(k) ==
  LET v == vop[k].v IN
  /\ Op(k, "disable")
  /\ vstatus' = [vstatus EXCEPT ![v] = "disabled"]
  /\ vprov' = [vprov EXCEPT ![v] = NULL]
  /\ overlooked' = overlooked \cup ({vprov[v]} \ {NULL, vop[k].prov})
  /\ crossed' = crossed \ {v}
  /\ Done(k)
  /\ UNCHANGED <<replaced, prov, loginVars, halfDisabled>>

(* An error reply, an exception of any call, or the process stops.         *)
Abandon(k) ==
  /\ EndRequest(k)
  /\ vop' = [vop EXCEPT ![k] = NoOp]
  /\ halfDisabled' = IF Op(k, "disable") THEN halfDisabled \cup ({vop[k].prov} \ {NULL})
                     ELSE halfDisabled
  /\ UNCHANGED <<vendorVars, prov, loginVars>>

-----------------------------------------------------------------------------
(* Sign-ins through Better Auth's sso() plug-in.                           *)

LoginAt(l, pc) == login[l].pc = pc
LoginTo(l, pc) == login' = [login EXCEPT ![l].pc = pc]

(* Mutant of EndLogin: what the sign-in found is kept.                     *)
EndLoginMutant(l) == LoginTo(l, "idle")

EndLogin(l) == login' = [login EXCEPT ![l] = NoLogin]

(* /sign-in/sso: only with a provider whose domain is verified.            *)
BeginSignIn(l, e, p) ==
  /\ LoginAt(l, "idle")
  /\ prov[p].status = "verified"
  /\ login' = [login EXCEPT ![l] = [pc |-> "away", e |-> e, prov |-> p, v |-> NULL]]
  /\ UNCHANGED <<adminVars, vendorVars, prov, vop, halfDisabled, account, claimed, handled,
                 signedIn, provisioned, failed>>

(* The callback finds the provider again.  A new employee gets a user and  *)
(* an account, and provisionUser is called; one with an account there gets *)
(* a session; an account elsewhere is not linked.                          *)
Callback(l) ==
  LET e == login[l].e
      p == login[l].prov
  IN
  /\ LoginAt(l, "away")
  /\ prov[p].status = "verified"
  /\ account[e] \in {NULL, p}
  /\ account' = [account EXCEPT ![e] = p]
  /\ users' = users \cup {e}
  /\ LoginTo(l, IF account[e] = NULL THEN "provision" ELSE "session")
  /\ UNCHANGED <<access, request, late, vendorVars, prov, vop, halfDisabled, claimed,
                 handled, signedIn, provisioned, failed>>

(* getVendorBySsoProviderId, and the checks on what it returned.           *)
Admits(v, l) ==
  vprov[v] = login[l].prov /\ vstatus[v] = "active" /\ Domain[v] = Domain[login[l].e]

FindVendor(l) ==
  /\ LoginAt(l, "provision")
  /\ \E v \in Vendors :
       /\ Admits(v, l)
       /\ login' = [login EXCEPT ![l].pc = "attach", ![l].v = v]
  /\ UNCHANGED <<adminVars, vendorVars, prov, vop, halfDisabled, account, claimed, handled,
                 signedIn, provisioned, failed>>

(* createVerifiedIdentity: ON CONFLICT DO NOTHING, and its null goes       *)
(* unnoticed.                                                              *)
AttachEmail(l) ==
  /\ LoginAt(l, "attach")
  /\ handled' = handled \cup ({login[l].e} \ claimed)
  /\ LoginTo(l, "grant")
  /\ UNCHANGED <<adminVars, vendorVars, prov, vop, halfDisabled, account,
                 claimed, signedIn, provisioned, failed>>

(* grantAccess: exactly (masterclass, VENDOR).                             *)
GrantVendorRole(l) ==
  /\ LoginAt(l, "grant")
  /\ access' = access \cup {VendorRow(login[l].e)}
  /\ provisioned' = provisioned \cup {login[l].e}
  /\ LoginTo(l, "session")
  /\ UNCHANGED <<users, request, late, vendorVars, prov, vop, halfDisabled, account,
                 claimed, handled, signedIn, failed>>

(* Mutant of OpenSession: the hook is not awaited.                         *)
OpenSessionMutant(l) ==
  /\ login[l].pc \in {"provision", "session"}
  /\ signedIn' = signedIn \cup {login[l].e}
  /\ EndLogin(l)
  /\ UNCHANGED <<adminVars, vendorVars, prov, vop, halfDisabled, account, claimed, handled,
                 provisioned, failed>>

OpenSession(l) ==
  /\ LoginAt(l, "session")
  /\ signedIn' = signedIn \cup {login[l].e}
  /\ EndLogin(l)
  /\ UNCHANGED <<adminVars, vendorVars, prov, vop, halfDisabled, account, claimed, handled,
                 provisioned, failed>>

(* The sign-in is turned away or given up, provisionUser throws, or the    *)
(* process stops: the user and the account stay.                           *)
SignInFails(l) ==
  /\ ~LoginAt(l, "idle")
  /\ failed' = IF login[l].pc \in {"provision", "attach", "grant"}
               THEN failed \cup {login[l].e} ELSE failed
  /\ EndLogin(l)
  /\ UNCHANGED <<adminVars, vendorVars, prov, vop, halfDisabled, account, claimed, handled,
                 signedIn, provisioned>>

(* Another user gets the employee's email as a handle first, from an       *)
(* import or from Salesforce.                                              *)
ClaimEmail(e) ==
  /\ e \notin handled \cup claimed
  /\ claimed' = claimed \cup {e}
  /\ UNCHANGED <<adminVars, vendorVars, prov, vop, halfDisabled, account, handled, login,
                 signedIn, provisioned, failed>>

-----------------------------------------------------------------------------
RequestStep(k) ==
  \/ (Op(k, "idle") /\ AdminStep(k) /\ UNCHANGED ssoVars)
  \/ \E v \in Vendors : CreateVendor(k, v) \/ ReadVendor(k, v)
  \/ RegisterProvider(k)
  \/ SetProvider(k)
  \/ VerifyDomain(k)
  \/ Activate(k)
  \/ DeleteProvider(k)
  \/ DisableRow(k)
  \/ Abandon(k)

SignInStep(l) ==
  \/ \E e \in Employees, p \in Providers : BeginSignIn(l, e, p)
  \/ Callback(l)
  \/ FindVendor(l)
  \/ AttachEmail(l)
  \/ GrantVendorRole(l)
  \/ OpenSession(l)
  \/ SignInFails(l)

Next ==
  \/ \E k \in Requests : RequestStep(k)
  \/ \E l \in Logins : SignInStep(l)
  \/ \E e \in Employees : ClaimEmail(e)

Spec == Init /\ [][Next]_allVars

-----------------------------------------------------------------------------
(* "A stale domain_verified_at from a previous, now-replaced provider must *)
(* never carry over to the new one" (db/vendor.ts): an active vendor names *)
(* a provider whose domain is verified.  Exceptions: a verify request read *)
(* the vendor before another provider was registered; a disable has        *)
(* deleted the provider and not, or never, reached the vendor's row.       *)
ActiveMeansVerified ==
  \A v \in Vendors : vstatus[v] = "active" =>
    \/ v \in crossed
    \/ vprov[v] \in halfDisabled
    \/ /\ vprov[v] # NULL
       /\ \/ prov[vprov[v]].status = "verified"
          \/ \E k \in Requests : Op(k, "disable") /\ vop[k].prov = vprov[v]

(* A provider that still lets employees of a disabled vendor in is one the *)
(* vendor had replaced by another before it was disabled, or one it named  *)
(* only after the disable had read the vendor.                             *)
DisabledProvidersGone ==
  \A p \in Providers :
    prov[p].status = "verified" /\ vstatus[prov[p].v] = "disabled"
      => p \in replaced \cup overlooked

(* An employee with a session has the verified handle, unless another user *)
(* had it, and has been given the VENDOR row; unless the first sign-in     *)
(* stopped half way, after which nothing provisions the account again, or  *)
(* is still under way.                                                     *)
SignedInAreProvisioned ==
  \A e \in signedIn :
    \/ e \in handled \cup claimed /\ e \in provisioned
    \/ e \in failed
    \/ \E l \in Logins : login[l].e = e /\ login[l].pc \in {"provision", "attach", "grant"}

(* "The deletion, not a status flag, is what blocks every future sign-in": *)
(* when a vendor is disabled and no request is under way, nobody can sign  *)
(* in with a provider of it.                                               *)
DisabledBlocksSignIn ==
  \A e \in Employees :
    (\A k \in Requests : request[k].pc = "idle") /\ account[e] # NULL
      /\ vstatus[prov[account[e]].v] = "disabled"
      => prov[account[e]].status # "verified"
=============================================================================
