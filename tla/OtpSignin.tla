------------------------------- MODULE OtpSignin -------------------------------
(***************************************************************************)
(* One-time-code sign-in (src/services/otp-signin.ts behind the endpoints  *)
(* of src/auth/alias-otp.ts) and the rate limiter of its start endpoint    *)
(* (src/lib/rate-limit.ts).                                                *)
(*                                                                         *)
(* Better Auth's verification store keeps one value for each handle:       *)
(* create overwrites it, update of a missing key does nothing.  A start or *)
(* a verification is a sequence of awaited calls to Redis, so any two of   *)
(* them interleave between those calls.  A code is its identity: a guess   *)
(* is right or wrong, whatever its digits.                                 *)
(***************************************************************************)
EXTENDS Naturals, FiniteSets

CONSTANTS
  Handles,      (* normalised (type, value) pairs                           *)
  Codes,        (* codes that may be issued; bounds the number of starts    *)
  Verifiers,    (* requests to /sign-in/otp/verify that may overlap         *)
  Starters,     (* requests to /sign-in/otp/start that may overlap          *)
  MaxAttempts,  (* DEFAULT_MAX_ATTEMPTS                                     *)
  HandleLimit,  (* HANDLE_LIMIT of the start endpoint                       *)
  MaxCount,     (* bounds a window's counter                                *)
  NULL

ASSUME OtpAssumption ==
  /\ IsFiniteSet(Verifiers)
  /\ MaxAttempts \in Nat /\ HandleLimit \in Nat \ {0} /\ MaxCount \in Nat
  /\ NULL \notin Codes
  /\ NULL \notin Handles
  /\ NULL \notin [code : Codes, attempts : Nat]

VARIABLES
  verified,  (* handles with a verified user_identity row                   *)
  store,     (* the verification store: each handle's code and attempts     *)
  verifier,  (* each verification: its handle and the record it found       *)
  count,     (* each handle's window counter in Redis, 0: no key            *)
  armed,     (* handles whose counter has a time to live                    *)
  starter,   (* each start request                                          *)
  newest,    (* history: the last code created for each handle              *)
  ended,     (* history: codes that expired, were used up, or were replaced *)
  raced,     (* history: codes created while a verification held a record   *)
  shared,    (* history: codes two verifications held at the same time      *)
  refused,   (* history: how many guesses at a code were answered "invalid" *)
  logins,    (* history: how many sessions a code has opened                *)
  broken     (* history: handles whose counter lost its EXPIRE              *)

storeVars   == <<store, newest, ended, raced>>
verifyVars  == <<verifier, shared, refused, logins>>
limiterVars == <<count, armed, broken>>
vars == <<verified, storeVars, verifyVars, limiterVars, starter>>

Record  == [code : Codes, attempts : Nat]
NoVerify == [pc |-> "idle", h |-> NULL, rec |-> NULL]
Verify  == [pc : {"found", "locking", "refusing", "consuming", "opening"},
            h : Handles, rec : Record]
NoStart == [pc |-> "idle", h |-> NULL]
Start   == [pc : {"expiring", "refused", "allowed"}, h : Handles]

TypeOK ==
  /\ verified \subseteq Handles
  /\ store \in [Handles -> Record \cup {NULL}]
  /\ verifier \in [Verifiers -> Verify \cup {NoVerify}]
  /\ count \in [Handles -> Nat]
  /\ armed \subseteq Handles
  /\ starter \in [Starters -> Start \cup {NoStart}]
  /\ newest \in [Handles -> Codes \cup {NULL}]
  /\ ended \subseteq Codes /\ raced \subseteq Codes /\ shared \subseteq Codes
  /\ refused \in [Codes -> Nat]
  /\ logins \in [Codes -> Nat]
  /\ broken \subseteq Handles

Init ==
  /\ verified = {}
  /\ store = [h \in Handles |-> NULL]
  /\ verifier = [v \in Verifiers |-> NoVerify]
  /\ count = [h \in Handles |-> 0]
  /\ armed = {}
  /\ starter = [s \in Starters |-> NoStart]
  /\ newest = [h \in Handles |-> NULL]
  /\ ended = {} /\ raced = {} /\ shared = {}
  /\ refused = [c \in Codes |-> 0]
  /\ logins = [c \in Codes |-> 0]
  /\ broken = {}

-----------------------------------------------------------------------------
(* checkRateLimit: INCR, EXPIRE after the first, TTL for a refusal; any    *)
(* error of Redis lets the caller in.                                      *)

SetStarter(s, pc, h) == starter' = [starter EXCEPT ![s] = [pc |-> pc, h |-> h]]
EndStarter(s)        == starter' = [starter EXCEPT ![s] = NoStart]

(* What follows the INCR that returned n.                                  *)
NextCall(n) ==
  IF n = 1 THEN "expiring" ELSE IF n <= HandleLimit THEN "allowed" ELSE "refused"

Increment(s, h) ==
  /\ starter[s].pc = "idle"
  /\ count[h] < MaxCount
  /\ count' = [count EXCEPT ![h] = @ + 1]
  /\ SetStarter(s, NextCall(count[h] + 1), h)
  /\ UNCHANGED <<verified, storeVars, verifyVars, armed, broken>>

ArmWindow(s) ==
  /\ starter[s].pc = "expiring"
  /\ armed' = armed \cup {starter[s].h}
  /\ SetStarter(s, "allowed", starter[s].h)
  /\ UNCHANGED <<verified, storeVars, verifyVars, count, broken>>

(* Redis does not answer INCR, EXPIRE or TTL: fail open.                   *)
RedisFails(s) ==
  /\ \/ \E h \in Handles : starter[s].pc = "idle" /\ SetStarter(s, "allowed", h)
     \/ starter[s].pc \in {"expiring", "refused"} /\ SetStarter(s, "allowed", starter[s].h)
  /\ broken' = IF starter[s].pc = "expiring" THEN broken \cup {starter[s].h} ELSE broken
  /\ UNCHANGED <<verified, storeVars, verifyVars, count, armed>>

(* 429, the request ends; or it ends early because the process stops.      *)
StartEnds(s) ==
  /\ starter[s].pc # "idle"
  /\ EndStarter(s)
  /\ broken' = IF starter[s].pc = "expiring" THEN broken \cup {starter[s].h} ELSE broken
  /\ UNCHANGED <<verified, storeVars, verifyVars, count, armed>>

(* Mutant of WindowEnds: the key outlives its window.                      *)
WindowEndsMutant(h) ==
  /\ h \in armed
  /\ armed' = armed \ {h}
  /\ UNCHANGED <<verified, storeVars, verifyVars, count, broken, starter>>

(* Redis drops a counter whose time to live has run out.                   *)
WindowEnds(h) ==
  /\ h \in armed
  /\ count' = [count EXCEPT ![h] = 0]
  /\ armed' = armed \ {h}
  /\ UNCHANGED <<verified, storeVars, verifyVars, broken, starter>>

-----------------------------------------------------------------------------
(* The pcs at which a verification has a record of the store in hand.      *)
Holds(v, c) ==
  verifier[v].pc \in {"found", "locking", "refusing", "consuming"} /\ verifier[v].rec.code = c

(* resolveVerifiedUser                                                     *)
Resolves(h) == h \in verified

Issued(c) == \E h \in Handles : newest[h] = c

(* Mutant of Created: a value that is there is kept.                       *)
CreatedMutant(h, c) == IF store[h] = NULL THEN [code |-> c, attempts |-> 0] ELSE store[h]

Created(h, c) == [code |-> c, attempts |-> 0]

(* startOtpSignin, on a verified handle: a new code replaces the stored one.*)
CreateCode(s) ==
  /\ starter[s].pc = "allowed"
  /\ Resolves(starter[s].h)
  /\ \E c \in Codes \ ended :
       LET h == starter[s].h
           held == \E v \in Verifiers :
                     verifier[v].h = h /\ \E d \in Codes : Holds(v, d)
       IN  /\ ~Issued(c)
           /\ store' = [store EXCEPT ![h] = Created(h, c)]
           /\ newest' = [newest EXCEPT ![h] = c]
           /\ raced' = IF held THEN raced \cup {c} ELSE raced
           /\ ended' = IF newest[h] = NULL THEN ended ELSE ended \cup {newest[h]}
  /\ EndStarter(s)
  /\ UNCHANGED <<verified, verifyVars, limiterVars>>

(* A handle becomes verified for some user, by provisioning or import.     *)
VerifyHandle(h) ==
  /\ h \notin verified
  /\ verified' = verified \cup {h}
  /\ UNCHANGED <<storeVars, verifyVars, limiterVars, starter>>

(* The value outlives its expiresAt: Redis drops it, or find rejects it.   *)
ExpireCode(h) ==
  /\ store[h] # NULL
  /\ store' = [store EXCEPT ![h] = NULL]
  /\ ended' = ended \cup {store[h].code}
  /\ UNCHANGED <<verified, newest, raced, verifyVars, limiterVars, starter>>

-----------------------------------------------------------------------------
(* verifyOtpSignin                                                         *)

To(v, pc)    == verifier' = [verifier EXCEPT ![v].pc = pc]

(* Mutant of EndVerify: the record is kept for the next request.           *)
EndVerifyMutant(v) == To(v, "idle")

EndVerify(v) == verifier' = [verifier EXCEPT ![v] = NoVerify]

(* Mutant of AfterFind: the attempts of the record are not looked at.      *)
AfterFindMutant(rec) == "found"

AfterFind(rec) == IF rec.attempts >= MaxAttempts THEN "locking" ELSE "found"

(* Resolve the handle, find its record; without either the reply is        *)
(* "invalid" and nothing changes.                                          *)
Find(v, h) ==
  /\ verifier[v].pc = "idle"
  /\ Resolves(h)
  /\ store[h] # NULL
  /\ verifier' = [verifier EXCEPT ![v] =
                    [pc |-> AfterFind(store[h]), h |-> h, rec |-> store[h]]]
  /\ shared' = IF \E w \in Verifiers : Holds(w, store[h].code)
               THEN shared \cup {store[h].code} ELSE shared
  /\ UNCHANGED <<verified, storeVars, refused, logins, limiterVars, starter>>

(* verifyOtpHash: right, or wrong.                                         *)
Compare(v) ==
  /\ verifier[v].pc = "found"
  /\ To(v, "consuming") \/ To(v, "refusing")
  /\ UNCHANGED <<verified, storeVars, shared, refused, logins, limiterVars, starter>>

(* Mutant of Refused: the record is written back as it was read.           *)
RefusedMutant(rec) == rec

Refused(rec) == [rec EXCEPT !.attempts = @ + 1]

(* store.update with the code that was read and its attempts plus one: it  *)
(* writes over whatever the store holds by now, unless that is nothing.    *)
WriteAttempt(v) ==
  LET h == verifier[v].h IN
  /\ verifier[v].pc = "refusing"
  /\ store' = IF store[h] = NULL THEN store
              ELSE [store EXCEPT ![h] = Refused(verifier[v].rec)]
  /\ refused' = [refused EXCEPT ![verifier[v].rec.code] = @ + 1]
  /\ EndVerify(v)
  /\ UNCHANGED <<verified, newest, ended, raced, shared, logins, limiterVars, starter>>

(* store.delete drops whatever the store holds by now.                     *)
Delete(v) ==
  /\ store' = [store EXCEPT ![verifier[v].h] = NULL]
  /\ ended' = ended \cup {verifier[v].rec.code}
  /\ UNCHANGED <<newest, raced>>

DeleteLocked(v) ==
  /\ verifier[v].pc = "locking"
  /\ Delete(v)
  /\ EndVerify(v)
  /\ UNCHANGED <<verified, shared, refused, logins, limiterVars, starter>>

(* Mutant of Consume: the session is opened without deleting the code.     *)
ConsumeMutant(v) ==
  /\ verifier[v].pc = "consuming"
  /\ To(v, "opening")
  /\ UNCHANGED <<verified, storeVars, shared, refused, logins, limiterVars, starter>>

(* "One code, one login: consume before the session is issued."            *)
Consume(v) ==
  /\ verifier[v].pc = "consuming"
  /\ Delete(v)
  /\ To(v, "opening")
  /\ UNCHANGED <<verified, shared, refused, logins, limiterVars, starter>>

(* verifyAliasOtp: the user is there, createSession.                       *)
OpenSession(v) ==
  /\ verifier[v].pc = "opening"
  /\ logins' = [logins EXCEPT ![verifier[v].rec.code] = @ + 1]
  /\ EndVerify(v)
  /\ UNCHANGED <<verified, storeVars, shared, refused, limiterVars, starter>>

(* A call throws or the process stops: what was written stays.             *)
VerifyFails(v) ==
  /\ verifier[v].pc # "idle"
  /\ EndVerify(v)
  /\ UNCHANGED <<verified, storeVars, shared, refused, logins, limiterVars, starter>>

-----------------------------------------------------------------------------
VerifyStep(v) ==
  \/ \E h \in Handles : Find(v, h)
  \/ Compare(v)
  \/ WriteAttempt(v)
  \/ DeleteLocked(v)
  \/ Consume(v)
  \/ OpenSession(v)
  \/ VerifyFails(v)

StartStep(s) ==
  \/ \E h \in Handles : Increment(s, h)
  \/ ArmWindow(s)
  \/ RedisFails(s)
  \/ StartEnds(s)
  \/ CreateCode(s)

HandleStep(h) == VerifyHandle(h) \/ ExpireCode(h) \/ WindowEnds(h)

Next ==
  \/ \E v \in Verifiers : VerifyStep(v)
  \/ \E s \in Starters : StartStep(s)
  \/ \E h \in Handles : HandleStep(h)

(* Redis drops keys whose time to live has run out; a request comes to an  *)
(* end.  No request has to arrive.                                         *)
Fairness ==
  /\ \A h \in Handles : WF_vars(WindowEnds(h))
  /\ \A s \in Starters : WF_vars(ArmWindow(s) \/ StartEnds(s))

Spec == Init /\ [][Next]_vars /\ Fairness

-----------------------------------------------------------------------------
(* A code opens a second session only when two verifications of it         *)
(* overlapped: both found the record before either deleted it, or one kept *)
(* it in hand and wrote it back.                                           *)
OneCodeOneLogin == \A c \in Codes : logins[c] > 1 => c \in shared

(* The wrong guesses at one code that got an answer: at most MaxAttempts   *)
(* when no two verifications of it overlap.                                *)
AttemptsCounted == \A c \in Codes : refused[c] > MaxAttempts => c \in shared

(* Each answered guess at a code leaves fewer verifications that may still *)
(* refuse one after at most a attempts, for some a, and no more than there *)
(* were for the counts below a.  So there are fewer of them than ways to   *)
(* say how many verifications each count has: MaxAttempts when there is    *)
(* one verification, C(n + MaxAttempts, MaxAttempts) - 1 when there are n. *)
Distributions ==
  {d \in [0..MaxAttempts - 1 -> 0..Cardinality(Verifiers)] :
     \A a, b \in 0..MaxAttempts - 1 : a <= b => d[a] <= d[b]}

(* Overlapping verifications are counted once, and an old count may come   *)
(* back; still, the guesses at one code that get an answer are bounded.    *)
GuessesBounded == \A c \in Codes : refused[c] < Cardinality(Distributions)

(* A code that was created while no verification of its handle was under   *)
(* way stays the stored one until it expires, is used up or is replaced;   *)
(* and what is stored is such a code, unless a verification that started   *)
(* before it was created wrote an older one over it.                       *)
NewestCodeStands ==
  \A h \in Handles :
    newest[h] # NULL /\ newest[h] \notin raced =>
      IF store[h] = NULL THEN newest[h] \in ended ELSE store[h].code = newest[h]

(* A counter that is not zero will be dropped: it has a time to live, or a *)
(* request is about to set one; unless EXPIRE failed or the process        *)
(* stopped before it.                                                      *)
CountersExpire ==
  \A h \in Handles :
    count[h] > 0 => \/ h \in armed
                    \/ h \in broken
                    \/ \E s \in Starters : starter[s].pc = "expiring" /\ starter[s].h = h

(* A handle over its limit gets its requests back, unless its counter lost *)
(* its EXPIRE: no time to live, and no INCR returns 1 again.               *)
LimitLifts ==
  \A h \in Handles : count[h] > HandleLimit ~> (count[h] = 0 \/ h \in broken)
=============================================================================
