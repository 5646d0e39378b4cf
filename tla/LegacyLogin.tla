------------------------------ MODULE LegacyLogin ------------------------------
(***************************************************************************)
(* Passwords of imported users: the import stores the hash of the legacy   *)
(* product, and the first sign-in with it stores an argon2id hash of the   *)
(* same password (the after hook of src/auth.ts, which calls               *)
(* src/services/legacy-rehash.ts) in two updates.  Sign-ins and password   *)
(* changes overlap with it.                                                *)
(***************************************************************************)
EXTENDS Intake

CONSTANTS
  Passwords,
  LegacyPassword,      (* the password of a legacy account                  *)
  LegacyLoginEnabled,  (* DJANGO_LEGACY_PASSWORD_LOGIN_ENABLED, or bcrypt   *)
  Logins               (* sign-ins that may be under way at the same time   *)

ASSUME LoginAssumption ==
  /\ LegacyPassword \in Passwords
  /\ LegacyLoginEnabled \in BOOLEAN
  /\ NULL \notin Passwords

VARIABLES
  secret,   (* the credential account: a password in a hash format          *)
  algo,     (* users whose imported_hash_algo is set                        *)
  login,    (* sign-ins between verification and the end of the hook        *)
  latest,   (* history: the password last set by the user, or imported      *)
  crossed   (* history: users who changed it while a sign-in was rehashing  *)

loginVars == <<secret, algo, login, latest, crossed>>
vars == <<intakeVars, loginVars>>

NoSecret == [pw |-> NULL, format |-> "none"]
Secret   == [pw : Passwords, format : {"legacy", "argon2"}]
NoLogin  == [pc |-> "idle", u |-> NULL, pw |-> NULL]
Login    == [pc : {"signedIn", "rehash", "clear"}, u : UserIds, pw : Passwords]

TypeOK ==
  /\ IntakeTypeOK
  /\ secret \in [UserIds -> Secret \cup {NoSecret}]
  /\ algo \subseteq UserIds
  /\ login \in [Logins -> Login \cup {NoLogin}]
  /\ latest \in [UserIds -> Passwords \cup {NULL}]
  /\ crossed \subseteq UserIds

Init ==
  /\ IntakeInit
  /\ secret = [u \in UserIds |-> NoSecret]
  /\ algo = {}
  /\ login = [l \in Logins |-> NoLogin]
  /\ latest = [u \in UserIds |-> NULL]
  /\ crossed = {}

-----------------------------------------------------------------------------
(* createUser with importedHashAlgo, then createAccount with the hash.     *)
ImportPassword ==
  \/ /\ ImportUser
     /\ algo' = algo \cup {import'.u}
     /\ UNCHANGED <<secret, latest>>
  \/ /\ ImportAccount
     /\ secret' = [secret EXCEPT ![import.u] = [pw |-> LegacyPassword, format |-> "legacy"]]
     /\ latest' = [latest EXCEPT ![import.u] = LegacyPassword]
     /\ UNCHANGED algo

SetPassword(u, pw) ==
  /\ secret' = [secret EXCEPT ![u] = [pw |-> pw, format |-> "argon2"]]
  /\ latest' = [latest EXCEPT ![u] = pw]
  /\ UNCHANGED algo

(* Better Auth's sign-up and change-password.                              *)
SignUpWith(u, e, pw) == SignUp(u, e) /\ SetPassword(u, pw) /\ UNCHANGED <<login, crossed>>

ChangePassword(u, pw) ==
  /\ secret[u].format # "none"
  /\ SetPassword(u, pw)
  /\ crossed' = IF \E l \in Logins : login[l].u = u THEN crossed \cup {u} ELSE crossed
  /\ UNCHANGED <<intakeVars, login>>

(* Mutant of Verifies: a legacy hash is taken for a match.                 *)
VerifiesMutant(u, pw) == secret[u].format = "legacy" \/ secret[u].pw = pw

(* passwordHasher.verify                                                   *)
Verifies(u, pw) ==
  /\ secret[u].pw = pw
  /\ secret[u].format = "legacy" => LegacyLoginEnabled

LoginTo(l, pc) == login' = [login EXCEPT ![l].pc = pc]
EndLogin(l)    == login' = [login EXCEPT ![l] = NoLogin]

(* A sign-in that succeeds; one that fails never reaches the hook's work.  *)
SignIn(l, u, pw) ==
  /\ login[l].pc = "idle"
  /\ Verifies(u, pw)
  /\ login' = [login EXCEPT ![l] = [pc |-> "signedIn", u |-> u, pw |-> pw]]
  /\ UNCHANGED <<intakeVars, secret, algo, latest, crossed>>

(* findUserByEmail: only a user with importedHashAlgo is rehashed.         *)
FindImported(l) ==
  /\ login[l].pc = "signedIn"
  /\ IF login[l].u \in algo THEN LoginTo(l, "rehash") ELSE EndLogin(l)
  /\ UNCHANGED <<intakeVars, secret, algo, latest, crossed>>

(* Mutant of Rehash: the flag is cleared first.                            *)
RehashMutant(l) ==
  /\ login[l].pc = "rehash"
  /\ algo' = algo \ {login[l].u}
  /\ LoginTo(l, "clear")
  /\ UNCHANGED <<intakeVars, secret, latest, crossed>>

(* updateAccount with the hash of the password that was verified.          *)
Rehash(l) ==
  /\ login[l].pc = "rehash"
  /\ secret' = [secret EXCEPT ![login[l].u] = [pw |-> login[l].pw, format |-> "argon2"]]
  /\ LoginTo(l, "clear")
  /\ UNCHANGED <<intakeVars, algo, latest, crossed>>

(* updateUser                                                              *)
ClearAlgo(l) ==
  /\ login[l].pc = "clear"
  /\ algo' = algo \ {login[l].u}
  /\ EndLogin(l)
  /\ UNCHANGED <<intakeVars, secret, latest, crossed>>

(* An update fails or the process stops.                                   *)
LoginFails(l) ==
  /\ login[l].pc \in {"rehash", "clear"}
  /\ failures < MaxFailures
  /\ failures' = failures + 1
  /\ EndLogin(l)
  /\ UNCHANGED <<userRows, callout, import, history, secret, algo, latest, crossed>>

LoginStep(l) ==
  \/ \E u \in UserIds, pw \in Passwords : SignIn(l, u, pw)
  \/ FindImported(l)
  \/ Rehash(l)
  \/ ClearAlgo(l)
  \/ LoginFails(l)

-----------------------------------------------------------------------------
Next ==
  \/ (IntakeStep /\ UNCHANGED loginVars)
  \/ (ImportPassword /\ UNCHANGED <<login, crossed>>)
  \/ \E u \in UserIds, e \in Emails, pw \in Passwords : SignUpWith(u, e, pw)
  \/ \E u \in UserIds, pw \in Passwords : ChangePassword(u, pw)
  \/ \E l \in Logins : LoginStep(l)

(* A callout that is being served goes on; Salesforce repeats a callout.   *)
Fairness ==
  \A k \in Callouts :
    /\ WF_vars(CalloutStep(k) /\ UNCHANGED loginVars)
    /\ SF_vars(Receive(k, Repeated[1], Repeated[2]) /\ UNCHANGED loginVars)

Spec == Init /\ [][Next]_vars /\ Fairness

-----------------------------------------------------------------------------
(* A user without imported_hash_algo has an argon2id hash: the flag, which *)
(* says that the hash still has to be replaced, is never lost before the   *)
(* hash is, whichever update fails.                                        *)
ClearedMeansRehashed ==
  \A u \in UserIds : u \notin algo => secret[u].format # "legacy"

(* The stored password is the one the user set last: the rehash writes the *)
(* password that was verified, which is an older one only if the user      *)
(* changed it between the verification and the rehash.                     *)
LatestPasswordStands ==
  \A u \in UserIds : secret[u].pw = latest[u] \/ u \in crossed
=============================================================================
