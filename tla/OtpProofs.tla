------------------------------- MODULE OtpProofs -------------------------------
(***************************************************************************)
(* Proofs about OtpSignin, for any number of handles, codes and requests   *)
(* that overlap: what can be said of a code that no two verifications held *)
(* at once, of the newest code of a handle, and of the window counters.    *)
(***************************************************************************)
EXTENDS OtpSignin, FiniteSetTheorems, TLAPS

HoldPcs == {"found", "locking", "refusing", "consuming"}

Stored(h, c)  == store[h] # NULL /\ store[h].code = c
Opening(v, c) == verifier[v].pc = "opening" /\ verifier[v].rec.code = c

(* A code that has left a trace was issued, so it is not issued again.     *)
Traced(c) ==
  \/ \E h \in Handles : Stored(h, c)
  \/ \E v \in Verifiers : Holds(v, c) \/ Opening(v, c)
  \/ logins[c] > 0
  \/ refused[c] > 0

TracedAreIssued == \A c \in Codes : Traced(c) => c \in ended \/ Issued(c)

(* A code belongs to one handle.                                           *)
OneHandle ==
  \A c \in Codes :
    /\ \A h, k \in Handles : Stored(h, c) /\ Stored(k, c) => h = k
    /\ \A h \in Handles, v \in Verifiers :
         Stored(h, c) /\ Holds(v, c) => verifier[v].h = h
    /\ \A v, w \in Verifiers : Holds(v, c) /\ Holds(w, c) => verifier[v].h = verifier[w].h

(* A code that was never shared is held by one verification at a time, and *)
(* once it is used up by nobody: it is not stored any more.                *)
UsedOnce ==
  \A c \in Codes \ shared :
    /\ \A v, w \in Verifiers : Holds(v, c) /\ Holds(w, c) => v = w
    /\ \A v, w \in Verifiers : Opening(v, c) /\ Opening(w, c) => v = w
    /\ (logins[c] > 0 \/ \E v \in Verifiers : Opening(v, c)) =>
         /\ \A h \in Handles : ~Stored(h, c)
         /\ \A v \in Verifiers : ~Holds(v, c)
    /\ logins[c] > 0 => \A v \in Verifiers : ~Opening(v, c)
    /\ logins[c] <= 1

(* Its attempts are the guesses that were answered.                        *)
AttemptsAreRefusals ==
  /\ \A c \in Codes \ shared :
       /\ \A h \in Handles : Stored(h, c) => store[h].attempts = refused[c]
       /\ \A v \in Verifiers : Holds(v, c) => verifier[v].rec.attempts = refused[c]
       /\ refused[c] <= MaxAttempts
  /\ \A v \in Verifiers :
       verifier[v].pc \in {"found", "refusing", "consuming"} =>
         verifier[v].rec.attempts < MaxAttempts

(* Whoever verifies for a handle whose newest code was not raced holds     *)
(* that code.                                                              *)
NewestIsHeld ==
  \A h \in Handles, v \in Verifiers, c \in Codes :
    newest[h] # NULL /\ newest[h] \notin raced /\ verifier[v].h = h /\ Holds(v, c)
      => c = newest[h]

CodeInv ==
  /\ TracedAreIssued
  /\ OneHandle
  /\ UsedOnce
  /\ AttemptsAreRefusals
  /\ NewestIsHeld
  /\ NewestCodeStands

IInv == TypeOK /\ CodeInv /\ CountersExpire

-----------------------------------------------------------------------------
LEMMA InitInv == Init => IInv
<1> SUFFICES ASSUME Init PROVE IInv
  OBVIOUS
<1>1. TypeOK
  BY DEF Init, TypeOK
<1>2. /\ \A h \in Handles, c \in Codes : ~Stored(h, c)
      /\ \A v \in Verifiers, c \in Codes : ~Holds(v, c) /\ ~Opening(v, c)
      /\ \A v \in Verifiers : verifier[v].pc = "idle"
  BY DEF Init, Stored, Holds, Opening, NoVerify
<1>3. TracedAreIssued
  BY <1>2 DEF Init, TracedAreIssued, Traced
<1>4. OneHandle /\ UsedOnce /\ AttemptsAreRefusals
  BY <1>2, OtpAssumption DEF Init, OneHandle, UsedOnce, AttemptsAreRefusals
<1>5. NewestIsHeld /\ NewestCodeStands
  BY <1>2 DEF Init, NewestIsHeld, NewestCodeStands
<1>6. CountersExpire
  BY DEF Init, CountersExpire
<1> QED
  BY <1>1, <1>3, <1>4, <1>5, <1>6 DEF IInv, CodeInv

-----------------------------------------------------------------------------
(* Types                                                                   *)

LEMMA Types ==
  ASSUME TypeOK
  PROVE  /\ \A h \in Handles : store[h] # NULL => store[h] \in Record
         /\ \A v \in Verifiers : verifier[v].pc # "idle" => verifier[v] \in Verify
         /\ \A c : \A v \in Verifiers : Holds(v, c) => verifier[v] \in Verify
         /\ \A c : \A v \in Verifiers : Opening(v, c) => verifier[v] \in Verify
         /\ \A s \in Starters : starter[s].pc # "idle" => starter[s] \in Start
  BY DEF TypeOK, NoVerify, NoStart, Holds, Opening

LEMMA TypeStep == TypeOK /\ [Next]_vars => TypeOK'
<1> SUFFICES ASSUME TypeOK, [Next]_vars PROVE TypeOK'
  OBVIOUS
<1> USE DEF storeVars, verifyVars, limiterVars
<1>0. /\ NoVerify \in Verify \cup {NoVerify} /\ NoStart \in Start \cup {NoStart}
      /\ \A c \in Codes : [code |-> c, attempts |-> 0] \in Record
  BY DEF Record
<1>1. CASE UNCHANGED vars
  BY <1>1 DEF vars, TypeOK
<1>2. ASSUME NEW v \in Verifiers, VerifyStep(v) PROVE TypeOK'
  <2>1. ASSUME NEW h \in Handles, Find(v, h) PROVE TypeOK'
    <3>1. [pc |-> AfterFind(store[h]), h |-> h, rec |-> store[h]] \in Verify
      BY <2>1, Types DEF Find, AfterFind, Verify, Record
    <3> QED
      BY <2>1, <3>1, Types DEF Find, TypeOK, Record
  <2>2. CASE Compare(v)
    <3>1. verifier[v] \in Verify
      BY <2>2, Types DEF Compare
    <3>2. verifier' \in [Verifiers -> Verify \cup {NoVerify}]
      BY <2>2, <3>1 DEF Compare, To, TypeOK, Verify
    <3> QED
      BY <2>2, <3>2 DEF Compare, TypeOK
  <2>3. CASE WriteAttempt(v)
    <3>1. verifier[v] \in Verify
      BY <2>3, Types DEF WriteAttempt
    <3>2. /\ Refused(verifier[v].rec) \in Record
          /\ verifier[v].rec.code \in Codes
      BY <3>1 DEF Verify, Record, Refused
    <3> QED
      BY <2>3, <3>1, <3>2, <1>0 DEF WriteAttempt, EndVerify, TypeOK, Verify
  <2>4. CASE DeleteLocked(v)
    <3>1. verifier[v] \in Verify
      BY <2>4, Types DEF DeleteLocked
    <3> QED
      BY <2>4, <3>1, <1>0 DEF DeleteLocked, Delete, EndVerify, TypeOK, Verify, Record
  <2>5. CASE Consume(v)
    <3>1. verifier[v] \in Verify
      BY <2>5, Types DEF Consume
    <3> QED
      BY <2>5, <3>1 DEF Consume, Delete, To, TypeOK, Verify, Record
  <2>6. CASE OpenSession(v)
    <3>1. verifier[v] \in Verify
      BY <2>6, Types DEF OpenSession
    <3> QED
      BY <2>6, <3>1, <1>0 DEF OpenSession, EndVerify, TypeOK, Verify, Record
  <2>7. CASE VerifyFails(v)
    BY <2>7, <1>0 DEF VerifyFails, EndVerify, TypeOK
  <2> QED
    BY <1>2, <2>1, <2>2, <2>3, <2>4, <2>5, <2>6, <2>7 DEF VerifyStep
<1>3. ASSUME NEW s \in Starters, StartStep(s) PROVE TypeOK'
  <2>0. /\ starter[s].pc # "idle" => starter[s] \in Start
        /\ \A h \in Handles, pc \in {"expiring", "refused", "allowed"} :
             [pc |-> pc, h |-> h] \in Start
    BY Types DEF Start
  <2>1. ASSUME NEW h \in Handles, Increment(s, h) PROVE TypeOK'
    <3>1. NextCall(count[h] + 1) \in {"expiring", "refused", "allowed"}
      BY DEF NextCall
    <3>2. [pc |-> NextCall(count[h] + 1), h |-> h] \in Start
      BY <2>0, <3>1
    <3>3. count' \in [Handles -> Nat]
      BY <2>1 DEF Increment, TypeOK
    <3> QED
      BY <2>1, <3>2, <3>3 DEF Increment, SetStarter, TypeOK
  <2>2. CASE ArmWindow(s)
    BY <2>0, <2>2 DEF ArmWindow, SetStarter, TypeOK, Start
  <2>3. CASE RedisFails(s)
    BY <2>0, <2>3 DEF RedisFails, SetStarter, TypeOK, Start
  <2>4. CASE StartEnds(s)
    BY <2>0, <2>4, <1>0 DEF StartEnds, EndStarter, TypeOK, Start
  <2>5. CASE CreateCode(s)
    <3>1. PICK c \in Codes :
            /\ store' = [store EXCEPT ![starter[s].h] = [code |-> c, attempts |-> 0]]
            /\ newest' = [newest EXCEPT ![starter[s].h] = c]
            /\ raced' \in {raced, raced \cup {c}}
            /\ ended' = IF newest[starter[s].h] = NULL THEN ended
                        ELSE ended \cup {newest[starter[s].h]}
      BY <2>5 DEF CreateCode, Created
    <3>2. starter[s].h \in Handles
      BY <2>0, <2>5 DEF CreateCode, Start
    <3> QED
      BY <2>5, <3>1, <3>2, <1>0 DEF CreateCode, EndStarter, TypeOK
  <2> QED
    BY <1>3, <2>1, <2>2, <2>3, <2>4, <2>5 DEF StartStep
<1>4. ASSUME NEW h \in Handles, HandleStep(h) PROVE TypeOK'
  <2>1. CASE VerifyHandle(h)
    BY <2>1 DEF VerifyHandle, TypeOK
  <2>2. CASE ExpireCode(h)
    BY <2>2, Types DEF ExpireCode, TypeOK, Record
  <2>3. CASE WindowEnds(h)
    BY <2>3 DEF WindowEnds, TypeOK
  <2> QED
    BY <1>4, <2>1, <2>2, <2>3 DEF HandleStep
<1> QED
  BY <1>1, <1>2, <1>3, <1>4 DEF Next

-----------------------------------------------------------------------------
(* Codes                                                                   *)

SameHistory == UNCHANGED <<newest, raced, shared, refused, logins>>

(* A step that issues no code, finds none and writes none back can only    *)
(* drop the traces of a code.                                              *)
LEMMA DroppingTraces ==
  ASSUME TypeOK, CodeInv, SameHistory, ended \subseteq ended',
         \A h \in Handles : store'[h] \in {store[h], NULL},
         \A v \in Verifiers :
           \/ verifier'[v] \in {verifier[v], NoVerify}
           \/ /\ verifier[v].pc = "found" /\ verifier'[v].pc \in {"refusing", "consuming"}
              /\ verifier'[v].h = verifier[v].h /\ verifier'[v].rec = verifier[v].rec
  PROVE  /\ TracedAreIssued' /\ OneHandle' /\ UsedOnce'
         /\ AttemptsAreRefusals' /\ NewestIsHeld'
<1> USE DEF SameHistory
<1>1. ASSUME NEW h \in Handles, NEW c \in Codes, Stored(h, c)'
      PROVE  Stored(h, c) /\ store'[h] = store[h]
  BY <1>1 DEF Stored
<1>2. ASSUME NEW v \in Verifiers, NEW c \in Codes, Holds(v, c)'
      PROVE  Holds(v, c) /\ verifier'[v].h = verifier[v].h /\ verifier'[v].rec = verifier[v].rec
  BY <1>2 DEF Holds, NoVerify
<1>3. ASSUME NEW v \in Verifiers, NEW c \in Codes, Opening(v, c)'
      PROVE  Opening(v, c)
  BY <1>3 DEF Opening, NoVerify
<1>4. TracedAreIssued'
  BY <1>1, <1>2, <1>3 DEF CodeInv, TracedAreIssued, Traced, Issued
<1>5. OneHandle'
  BY <1>1, <1>2 DEF CodeInv, OneHandle
<1>6. UsedOnce'
  BY <1>1, <1>2, <1>3 DEF CodeInv, UsedOnce
<1>7. AttemptsAreRefusals'
  <2>1. ASSUME NEW v \in Verifiers, verifier'[v].pc \in {"found", "refusing", "consuming"}
        PROVE  verifier'[v].rec.attempts < MaxAttempts
    BY <2>1 DEF CodeInv, AttemptsAreRefusals, NoVerify
  <2> QED
    BY <1>1, <1>2, <2>1 DEF CodeInv, AttemptsAreRefusals
<1>8. NewestIsHeld'
  BY <1>2 DEF CodeInv, NewestIsHeld
<1> QED
  BY <1>4, <1>5, <1>6, <1>7, <1>8

(* A code that is issued now has left no trace.                            *)
LEMMA CreateCodeKeeps ==
  ASSUME TypeOK, CodeInv, NEW s \in Starters, CreateCode(s)
  PROVE  CodeInv'
<1> DEFINE h == starter[s].h
<1>1. h \in Handles
  BY Types DEF CreateCode, Start
<1>2. PICK c \in Codes \ ended :
        /\ ~Issued(c)
        /\ store' = [store EXCEPT ![h] = [code |-> c, attempts |-> 0]]
        /\ newest' = [newest EXCEPT ![h] = c]
        /\ raced' = IF \E v \in Verifiers : verifier[v].h = h /\ \E d \in Codes : Holds(v, d)
                    THEN raced \cup {c} ELSE raced
        /\ ended' = IF newest[h] = NULL THEN ended ELSE ended \cup {newest[h]}
  BY DEF CreateCode, Created
<1>3. UNCHANGED <<verifier, shared, refused, logins>>
  BY DEF CreateCode, verifyVars
<1>4. c \in Codes /\ ~Traced(c)
  BY <1>2 DEF CodeInv, TracedAreIssued
<1>5. /\ \A k \in Handles : k # h => store'[k] = store[k] /\ newest'[k] = newest[k]
      /\ store'[h] = [code |-> c, attempts |-> 0] /\ newest'[h] = c
  BY <1>1, <1>2 DEF TypeOK
<1>6. \A k \in Handles, d \in Codes : Stored(k, d)' => (Stored(k, d) /\ k # h) \/ (k = h /\ d = c)
  BY <1>5 DEF Stored
<1>7. \A v \in Verifiers, d \in Codes : Holds(v, d)' = Holds(v, d) /\ Opening(v, d)' = Opening(v, d)
  BY <1>3 DEF Holds, Opening
<1>8. /\ \A k \in Handles : ~Stored(k, c)
      /\ \A v \in Verifiers : ~Holds(v, c) /\ ~Opening(v, c)
      /\ logins[c] = 0 /\ refused[c] = 0
  BY <1>4 DEF Traced, TypeOK
<1>9. TracedAreIssued'
  <2>1. \A d \in Codes : Traced(d)' => Traced(d) \/ d = c
    BY <1>3, <1>6, <1>7 DEF Traced
  <2>2. \A d \in Codes : d \in ended \/ Issued(d) => d \in ended' \/ Issued(d)'
    BY <1>1, <1>2, <1>5, OtpAssumption DEF Issued, TypeOK
  <2>3. Issued(c)'
    BY <1>1, <1>5 DEF Issued
  <2> QED
    BY <2>1, <2>2, <2>3 DEF CodeInv, TracedAreIssued
<1>10. OneHandle'
  BY <1>3, <1>6, <1>7, <1>8 DEF CodeInv, OneHandle
<1>11. UsedOnce'
  BY <1>3, <1>6, <1>7, <1>8 DEF CodeInv, UsedOnce
<1>12. AttemptsAreRefusals'
  BY <1>3, <1>5, <1>6, <1>7, <1>8 DEF CodeInv, AttemptsAreRefusals
<1>13. NewestIsHeld'
  <2>1. ASSUME NEW k \in Handles, NEW v \in Verifiers, NEW d \in Codes,
               newest'[k] \notin raced', newest'[k] # NULL, verifier[v].h = k, Holds(v, d)
        PROVE  d = newest'[k]
    <3>1. CASE k = h
      BY <1>2, <1>5, <2>1, <3>1
    <3>2. CASE k # h
      <4>1. newest[k] \notin raced /\ newest'[k] = newest[k]
        BY <1>2, <1>5, <2>1, <3>2
      <4> QED
        BY <2>1, <4>1 DEF CodeInv, NewestIsHeld
    <3> QED
      BY <3>1, <3>2
  <2> QED
    BY <1>3, <1>7, <2>1 DEF NewestIsHeld
<1>14. NewestCodeStands'
  <2>1. ended \subseteq ended' /\ raced \subseteq raced'
    BY <1>2
  <2>2. ASSUME NEW k \in Handles, newest'[k] \notin raced', newest'[k] # NULL
        PROVE  IF store'[k] = NULL THEN newest'[k] \in ended' ELSE store'[k].code = newest'[k]
    <3>1. CASE k = h
      BY <1>5, <3>1, OtpAssumption
    <3>2. CASE k # h
      BY <1>5, <2>1, <2>2, <3>2 DEF CodeInv, NewestCodeStands
    <3> QED
      BY <3>1, <3>2
  <2> QED
    BY <2>2 DEF NewestCodeStands
<1> QED
  BY <1>9, <1>10, <1>11, <1>12, <1>13, <1>14 DEF CodeInv

(* Steps that leave the codes and the verifications alone.                 *)
LEMMA OthersKeep ==
  ASSUME TypeOK, CodeInv, UNCHANGED <<storeVars, verifyVars>>
  PROVE  CodeInv'
<1> USE DEF storeVars, verifyVars
<1>1. TracedAreIssued' /\ OneHandle' /\ UsedOnce' /\ AttemptsAreRefusals' /\ NewestIsHeld'
  BY DroppingTraces DEF SameHistory
<1>2. NewestCodeStands'
  BY DEF CodeInv, NewestCodeStands
<1> QED
  BY <1>1, <1>2 DEF CodeInv

(* The newest code goes when it expires, or when the verification that     *)
(* deletes what is stored has it in hand.                                  *)
LEMMA ExpireCodeKeeps ==
  ASSUME TypeOK, CodeInv, NEW h \in Handles, ExpireCode(h)
  PROVE  CodeInv'
<1> USE DEF verifyVars
<1>1. TracedAreIssued' /\ OneHandle' /\ UsedOnce' /\ AttemptsAreRefusals' /\ NewestIsHeld'
  BY DroppingTraces DEF ExpireCode, SameHistory, TypeOK
<1>2. NewestCodeStands'
  BY DEF ExpireCode, CodeInv, NewestCodeStands, TypeOK
<1> QED
  BY <1>1, <1>2 DEF CodeInv

LEMMA DeleteKeeps ==
  ASSUME TypeOK, CodeInv, NEW v \in Verifiers, Delete(v),
         verifier[v].pc \in {"locking", "consuming"}
  PROVE  NewestCodeStands' /\ ended \subseteq ended'
         /\ \A h \in Handles : store'[h] \in {store[h], NULL}
<1> DEFINE h == verifier[v].h
           c == verifier[v].rec.code
<1>1. h \in Handles /\ c \in Codes /\ Holds(v, c)
  BY Types DEF Holds, Verify, Record
<1>2. newest[h] # NULL /\ newest[h] \notin raced => newest[h] = c
  BY <1>1 DEF CodeInv, NewestIsHeld
<1>3. /\ \A k \in Handles : store'[k] = IF k = h THEN NULL ELSE store[k]
      /\ ended' = ended \cup {c}
  BY DEF Delete, TypeOK
<1>4. NewestCodeStands'
  BY <1>1, <1>2, <1>3 DEF Delete, CodeInv, NewestCodeStands
<1> QED
  BY <1>3, <1>4

(* The code that is found is not in hand anywhere, or is shared from now on.*)
LEMMA FindKeeps ==
  ASSUME TypeOK, CodeInv, NEW v \in Verifiers, NEW h \in Handles, Find(v, h)
  PROVE  CodeInv'
<1> DEFINE c == store[h].code
<1> USE DEF storeVars
<1>1. c \in Codes /\ Stored(h, c) /\ store[h] \in Record /\ UNCHANGED <<store, newest, raced, ended, refused, logins>>
  BY Types DEF Find, Stored, Record
<1>2. /\ \A w \in Verifiers : w # v => verifier'[w] = verifier[w]
      /\ verifier'[v] = [pc |-> AfterFind(store[h]), h |-> h, rec |-> store[h]]
  BY DEF Find, TypeOK
<1>3. /\ \A w \in Verifiers, d \in Codes : Holds(w, d)' => (Holds(w, d) /\ w # v) \/ (w = v /\ d = c)
      /\ \A w \in Verifiers, d \in Codes : Opening(w, d)' => Opening(w, d) /\ w # v
  BY <1>2 DEF Holds, Opening, AfterFind
<1>4. /\ \A k \in Handles, d \in Codes : Stored(k, d)' = Stored(k, d)
      /\ shared \subseteq shared'
      /\ c \notin shared' => \A w \in Verifiers : ~Holds(w, c)
  BY <1>1 DEF Stored, Find
<1>5. TracedAreIssued'
  <2>1. \A d \in Codes : Traced(d)' => Traced(d)
    BY <1>1, <1>3, <1>4 DEF Traced
  <2> QED
    BY <1>1, <2>1 DEF CodeInv, TracedAreIssued, Issued
<1>6. OneHandle'
  BY <1>1, <1>2, <1>3, <1>4 DEF CodeInv, OneHandle
<1>7. UsedOnce'
  BY <1>1, <1>2, <1>3, <1>4 DEF CodeInv, UsedOnce
<1>8. AttemptsAreRefusals'
  <2>1. ASSUME NEW w \in Verifiers, verifier'[w].pc \in {"found", "refusing", "consuming"}
        PROVE  verifier'[w].rec.attempts < MaxAttempts
    BY <1>1, <1>2, <2>1, OtpAssumption DEF CodeInv, AttemptsAreRefusals, AfterFind, Record
  <2>2. ASSUME NEW d \in Codes \ shared'
        PROVE  /\ \A k \in Handles : Stored(k, d) => store[k].attempts = refused[d]
               /\ \A w \in Verifiers : Holds(w, d)' => verifier'[w].rec.attempts = refused[d]
               /\ refused[d] <= MaxAttempts
    BY <1>1, <1>2, <1>3, <1>4 DEF CodeInv, AttemptsAreRefusals
  <2> QED
    BY <1>1, <1>4, <2>1, <2>2 DEF AttemptsAreRefusals
<1>9. NewestIsHeld'
  <2>1. ASSUME NEW k \in Handles, NEW w \in Verifiers, NEW d \in Codes,
               newest[k] # NULL, newest[k] \notin raced, verifier'[w].h = k, Holds(w, d)'
        PROVE  d = newest[k]
    <3>1. CASE w = v
      BY <1>1, <1>2, <1>3, <2>1, <3>1 DEF CodeInv, NewestCodeStands, Stored
    <3>2. CASE w # v
      BY <1>2, <1>3, <2>1, <3>2 DEF CodeInv, NewestIsHeld
    <3> QED
      BY <3>1, <3>2
  <2> QED
    BY <1>1, <2>1 DEF NewestIsHeld
<1>10. NewestCodeStands'
  BY <1>1 DEF CodeInv, NewestCodeStands
<1> QED
  BY <1>5, <1>6, <1>7, <1>8, <1>9, <1>10 DEF CodeInv

(* The record that is written back is of the code that was guessed at; the *)
(* one who writes it is the only one who held it, unless it is shared.     *)
LEMMA WriteAttemptKeeps ==
  ASSUME TypeOK, CodeInv, NEW v \in Verifiers, WriteAttempt(v)
  PROVE  CodeInv'
<1> DEFINE h == verifier[v].h
           n == verifier[v].rec.attempts
<1>0. PICK c \in Codes : c = verifier[v].rec.code
  BY Types DEF WriteAttempt, Holds, Verify, Record
<1>1. /\ h \in Handles /\ n \in Nat /\ verifier[v].rec \in Record
      /\ Holds(v, c) /\ n < MaxAttempts
  BY <1>0, Types DEF WriteAttempt, Holds, Verify, Record, CodeInv, AttemptsAreRefusals
<1>2. UNCHANGED <<newest, ended, raced, shared, logins>>
  BY DEF WriteAttempt
<1>3. /\ \A k \in Handles : k # h => store'[k] = store[k]
      /\ store[h] = NULL => store'[h] = NULL
      /\ store[h] # NULL => store'[h] = Refused(verifier[v].rec)
  BY <1>1 DEF WriteAttempt, TypeOK
<1>4. /\ Refused(verifier[v].rec).code = c /\ Refused(verifier[v].rec).attempts = n + 1
      /\ Refused(verifier[v].rec) \in Record
  BY <1>0, <1>1 DEF Refused, Record
<1>5. /\ verifier'[v] = NoVerify
      /\ \A w \in Verifiers : w # v => verifier'[w] = verifier[w]
      /\ refused'[c] = refused[c] + 1
      /\ \A d \in Codes : d # c => refused'[d] = refused[d]
  BY <1>0, <1>1 DEF WriteAttempt, EndVerify, TypeOK
<1>6. /\ \A w \in Verifiers, d \in Codes : Holds(w, d)' => Holds(w, d) /\ w # v
      /\ \A w \in Verifiers, d \in Codes : Opening(w, d)' => Opening(w, d) /\ w # v
  BY <1>5 DEF Holds, Opening, NoVerify
<1>7. \A k \in Handles, d \in Codes :
        Stored(k, d)' => (Stored(k, d) /\ k # h) \/ (k = h /\ d = c /\ store'[k] = Refused(verifier[v].rec))
  BY <1>3, <1>4 DEF Stored
<1>8. TracedAreIssued'
  <2>1. Traced(c)
    BY <1>1 DEF Traced
  <2>2. \A d \in Codes : Traced(d)' => Traced(d)
    BY <1>2, <1>5, <1>6, <1>7, <2>1 DEF Traced
  <2> QED
    BY <1>2, <2>2 DEF CodeInv, TracedAreIssued, Issued
<1>9. OneHandle'
  BY <1>1, <1>5, <1>6, <1>7 DEF CodeInv, OneHandle
<1>10. UsedOnce'
  BY <1>1, <1>2, <1>6, <1>7 DEF CodeInv, UsedOnce
<1>11. AttemptsAreRefusals'
  <2>1. ASSUME NEW w \in Verifiers, verifier'[w].pc \in {"found", "refusing", "consuming"}
        PROVE  verifier'[w].rec.attempts < MaxAttempts
    BY <1>5, <2>1 DEF CodeInv, AttemptsAreRefusals, NoVerify
  <2>2. ASSUME NEW d \in Codes \ shared, d # c
        PROVE  /\ \A k \in Handles : Stored(k, d)' => store'[k].attempts = refused'[d]
               /\ \A w \in Verifiers : Holds(w, d)' => verifier'[w].rec.attempts = refused'[d]
               /\ refused'[d] <= MaxAttempts
    BY <1>3, <1>5, <1>6, <1>7, <2>2 DEF CodeInv, AttemptsAreRefusals
  <2>3. ASSUME c \notin shared
        PROVE  /\ \A k \in Handles : Stored(k, c)' => store'[k].attempts = refused'[c]
               /\ \A w \in Verifiers : Holds(w, c)' => verifier'[w].rec.attempts = refused'[c]
               /\ refused'[c] <= MaxAttempts
    <3>1. refused[c] = n
      BY <1>0, <1>1, <2>3 DEF CodeInv, AttemptsAreRefusals
    <3>2. \A w \in Verifiers : ~Holds(w, c)'
      BY <1>1, <1>6, <2>3 DEF CodeInv, UsedOnce
    <3>3. \A k \in Handles : Stored(k, c)' => store'[k] = Refused(verifier[v].rec)
      BY <1>1, <1>7 DEF CodeInv, OneHandle
    <3> QED
      BY <1>1, <1>4, <1>5, <3>1, <3>2, <3>3, OtpAssumption
  <2> QED
    BY <1>2, <2>1, <2>2, <2>3 DEF AttemptsAreRefusals
<1>12. NewestIsHeld'
  BY <1>2, <1>5, <1>6 DEF CodeInv, NewestIsHeld
<1>13. NewestCodeStands'
  <2>1. newest[h] # NULL /\ newest[h] \notin raced => newest[h] = c
    BY <1>1 DEF CodeInv, NewestIsHeld
  <2> QED
    BY <1>1, <1>2, <1>3, <1>4, <2>1, OtpAssumption DEF CodeInv, NewestCodeStands, Record
<1> QED
  BY <1>8, <1>9, <1>10, <1>11, <1>12, <1>13 DEF CodeInv

(* What is deleted is the code, unless it was replaced: from here on it is *)
(* stored nowhere, and nobody else holds it, unless it is shared.          *)
LEMMA ConsumeKeeps ==
  ASSUME TypeOK, CodeInv, NEW v \in Verifiers, Consume(v)
  PROVE  CodeInv'
<1> DEFINE h == verifier[v].h
<1>0. PICK c \in Codes : c = verifier[v].rec.code
  BY Types DEF Consume, Verify, Record
<1>1. h \in Handles /\ Holds(v, c) /\ verifier[v] \in Verify
  BY <1>0, Types DEF Consume, Holds, Verify
<1>2. UNCHANGED <<newest, raced, shared, refused, logins>> /\ ended' = ended \cup {c}
  BY <1>0 DEF Consume, Delete
<1>3. \A k \in Handles : store'[k] = IF k = h THEN NULL ELSE store[k]
  BY <1>1 DEF Consume, Delete, TypeOK
<1>4. /\ verifier'[v] = [verifier[v] EXCEPT !.pc = "opening"]
      /\ \A w \in Verifiers : w # v => verifier'[w] = verifier[w]
  BY <1>1 DEF Consume, To, TypeOK
<1>5. /\ verifier'[v].pc = "opening" /\ verifier'[v].rec.code = c
  BY <1>0, <1>1, <1>4 DEF Verify
<1>6. /\ \A w \in Verifiers, d \in Codes : Holds(w, d)' => Holds(w, d) /\ w # v
      /\ \A w \in Verifiers, d \in Codes :
           Opening(w, d)' => (Opening(w, d) /\ w # v) \/ (w = v /\ d = c)
  BY <1>4, <1>5 DEF Holds, Opening
<1>7. \A k \in Handles, d \in Codes : Stored(k, d)' => Stored(k, d) /\ k # h /\ store'[k] = store[k]
  BY <1>3 DEF Stored
<1>8. TracedAreIssued'
  BY <1>0, <1>1, <1>2, <1>6, <1>7 DEF CodeInv, TracedAreIssued, Traced, Issued
<1>9. OneHandle'
  BY <1>4, <1>6, <1>7 DEF CodeInv, OneHandle
<1>10. UsedOnce'
  <2>1. ASSUME NEW d \in Codes \ shared, d # c
        PROVE  /\ \A w, x \in Verifiers : Holds(w, d)' /\ Holds(x, d)' => w = x
               /\ \A w, x \in Verifiers : Opening(w, d)' /\ Opening(x, d)' => w = x
               /\ (logins[d] > 0 \/ \E w \in Verifiers : Opening(w, d)') =>
                    /\ \A k \in Handles : ~Stored(k, d)'
                    /\ \A w \in Verifiers : ~Holds(w, d)'
               /\ logins[d] > 0 => \A w \in Verifiers : ~Opening(w, d)'
               /\ logins[d] <= 1
    BY <1>6, <1>7, <2>1 DEF CodeInv, UsedOnce
  <2>2. ASSUME c \notin shared
        PROVE  /\ \A w \in Verifiers : ~Holds(w, c)' /\ (Opening(w, c)' => w = v)
               /\ \A k \in Handles : ~Stored(k, c)'
               /\ ~(logins[c] > 0) /\ logins[c] <= 1
    <3>1. \A k \in Handles : ~Stored(k, c)'
      BY <1>1, <1>7 DEF CodeInv, OneHandle
    <3>2. \A w \in Verifiers : ~Holds(w, c)' /\ (Opening(w, c)' => w = v)
      BY <1>1, <1>6, <2>2 DEF CodeInv, UsedOnce
    <3>3. ~(logins[c] > 0) /\ logins[c] <= 1
      BY <1>1, <2>2 DEF CodeInv, UsedOnce
    <3> QED
      BY <3>1, <3>2, <3>3
  <2> QED
    BY <1>2, <2>1, <2>2 DEF UsedOnce
<1>11. AttemptsAreRefusals'
  <2>1. ASSUME NEW w \in Verifiers, verifier'[w].pc \in {"found", "refusing", "consuming"}
        PROVE  verifier'[w].rec.attempts < MaxAttempts
    BY <1>4, <1>5, <2>1 DEF CodeInv, AttemptsAreRefusals
  <2> QED
    BY <1>2, <1>4, <1>6, <1>7, <2>1 DEF CodeInv, AttemptsAreRefusals
<1>12. NewestIsHeld'
  BY <1>2, <1>4, <1>6 DEF CodeInv, NewestIsHeld
<1>13. NewestCodeStands'
  BY DeleteKeeps DEF Consume
<1> QED
  BY <1>8, <1>9, <1>10, <1>11, <1>12, <1>13 DEF CodeInv

(* The one session of a code that is not shared.                           *)
LEMMA OpenSessionKeeps ==
  ASSUME TypeOK, CodeInv, NEW v \in Verifiers, OpenSession(v)
  PROVE  CodeInv'
<1> USE DEF storeVars
<1>0. PICK c \in Codes : c = verifier[v].rec.code
  BY Types DEF OpenSession, Verify, Record
<1>1. Opening(v, c)
  BY <1>0 DEF OpenSession, Opening
<1>2. UNCHANGED <<store, newest, ended, raced, shared, refused>>
  BY DEF OpenSession
<1>3. /\ logins'[c] = logins[c] + 1
      /\ \A d \in Codes : d # c => logins'[d] = logins[d]
      /\ \A d \in Codes : logins[d] \in Nat
  BY <1>0 DEF OpenSession, TypeOK
<1>4. /\ verifier'[v] = NoVerify
      /\ \A w \in Verifiers : w # v => verifier'[w] = verifier[w]
  BY DEF OpenSession, EndVerify, TypeOK
<1>5. /\ \A w \in Verifiers, d \in Codes : Holds(w, d)' => Holds(w, d) /\ w # v
      /\ \A w \in Verifiers, d \in Codes : Opening(w, d)' => Opening(w, d) /\ w # v
      /\ \A k \in Handles, d \in Codes : Stored(k, d)' = Stored(k, d)
  BY <1>2, <1>4 DEF Holds, Opening, Stored, NoVerify
<1>6. TracedAreIssued'
  <2>1. Traced(c)
    BY <1>1 DEF Traced
  <2>2. \A d \in Codes : Traced(d)' => Traced(d)
    BY <1>2, <1>3, <1>5, <2>1 DEF Traced
  <2> QED
    BY <1>2, <2>2 DEF CodeInv, TracedAreIssued, Issued
<1>7. OneHandle'
  BY <1>4, <1>5 DEF CodeInv, OneHandle
<1>8. UsedOnce'
  <2>1. ASSUME NEW d \in Codes \ shared, d # c
        PROVE  logins'[d] = logins[d]
    BY <1>3, <2>1
  <2>2. ASSUME c \notin shared
        PROVE  /\ \A w \in Verifiers : ~Holds(w, c)' /\ ~Opening(w, c)'
               /\ \A k \in Handles : ~Stored(k, c)'
               /\ logins'[c] <= 1
    BY <1>1, <1>3, <1>5, <2>2 DEF CodeInv, UsedOnce
  <2> QED
    BY <1>2, <1>5, <2>1, <2>2 DEF CodeInv, UsedOnce
<1>9. AttemptsAreRefusals'
  <2>1. ASSUME NEW w \in Verifiers, verifier'[w].pc \in {"found", "refusing", "consuming"}
        PROVE  verifier'[w].rec.attempts < MaxAttempts
    BY <1>4, <2>1 DEF CodeInv, AttemptsAreRefusals, NoVerify
  <2> QED
    BY <1>2, <1>4, <1>5, <2>1 DEF CodeInv, AttemptsAreRefusals
<1>10. NewestIsHeld'
  BY <1>2, <1>4, <1>5 DEF CodeInv, NewestIsHeld
<1>11. NewestCodeStands'
  BY <1>2 DEF CodeInv, NewestCodeStands
<1> QED
  BY <1>6, <1>7, <1>8, <1>9, <1>10, <1>11 DEF CodeInv

LEMMA CodeStep == TypeOK /\ CodeInv /\ [Next]_vars => CodeInv'
<1> SUFFICES ASSUME TypeOK, CodeInv, [Next]_vars PROVE CodeInv'
  OBVIOUS
<1>1. CASE UNCHANGED vars
  BY <1>1, OthersKeep DEF vars
<1>2. ASSUME NEW v \in Verifiers, VerifyStep(v) PROVE CodeInv'
  <2>1. ASSUME NEW h \in Handles, Find(v, h) PROVE CodeInv'
    BY <2>1, FindKeeps
  <2>2. ASSUME UNCHANGED <<storeVars, shared, refused, logins>>,
               \/ EndVerify(v)
               \/ verifier[v].pc = "found" /\ (To(v, "consuming") \/ To(v, "refusing"))
        PROVE  CodeInv'
    <3>1. \A w \in Verifiers :
            \/ verifier'[w] \in {verifier[w], NoVerify}
            \/ /\ verifier[w].pc = "found" /\ verifier'[w].pc \in {"refusing", "consuming"}
               /\ verifier'[w].h = verifier[w].h /\ verifier'[w].rec = verifier[w].rec
      BY <2>2, Types DEF EndVerify, To, TypeOK, Verify
    <3>2. TracedAreIssued' /\ OneHandle' /\ UsedOnce' /\ AttemptsAreRefusals' /\ NewestIsHeld'
      BY <2>2, <3>1, DroppingTraces DEF SameHistory, storeVars
    <3>3. NewestCodeStands'
      BY <2>2 DEF CodeInv, NewestCodeStands, storeVars
    <3> QED
      BY <3>2, <3>3 DEF CodeInv
  <2>3. CASE Compare(v)
    BY <2>2, <2>3 DEF Compare
  <2>4. CASE WriteAttempt(v)
    BY <2>4, WriteAttemptKeeps
  <2>5. CASE DeleteLocked(v)
    <3>1. \A w \in Verifiers : verifier'[w] \in {verifier[w], NoVerify}
      BY <2>5 DEF DeleteLocked, EndVerify, TypeOK
    <3>2. NewestCodeStands' /\ ended \subseteq ended'
          /\ \A h \in Handles : store'[h] \in {store[h], NULL}
      BY <2>5, DeleteKeeps DEF DeleteLocked
    <3>3. SameHistory
      BY <2>5 DEF DeleteLocked, Delete, SameHistory
    <3>4. TracedAreIssued' /\ OneHandle' /\ UsedOnce' /\ AttemptsAreRefusals' /\ NewestIsHeld'
      BY <3>1, <3>2, <3>3, DroppingTraces
    <3> QED
      BY <3>2, <3>4 DEF CodeInv
  <2>6. CASE Consume(v)
    BY <2>6, ConsumeKeeps
  <2>7. CASE OpenSession(v)
    BY <2>7, OpenSessionKeeps
  <2>8. CASE VerifyFails(v)
    BY <2>2, <2>8 DEF VerifyFails
  <2> QED
    BY <1>2, <2>1, <2>3, <2>4, <2>5, <2>6, <2>7, <2>8 DEF VerifyStep
<1>3. ASSUME NEW s \in Starters, StartStep(s) PROVE CodeInv'
  <2>1. CASE CreateCode(s)
    BY <2>1, CreateCodeKeeps
  <2>2. CASE UNCHANGED <<storeVars, verifyVars>>
    BY <2>2, OthersKeep
  <2> QED
    BY <1>3, <2>1, <2>2 DEF StartStep, Increment, ArmWindow, RedisFails, StartEnds
<1>4. ASSUME NEW h \in Handles, HandleStep(h) PROVE CodeInv'
  <2>1. CASE ExpireCode(h)
    BY <2>1, ExpireCodeKeeps
  <2>2. CASE UNCHANGED <<storeVars, verifyVars>>
    BY <2>2, OthersKeep
  <2> QED
    BY <1>4, <2>1, <2>2 DEF HandleStep, VerifyHandle, WindowEnds
<1> QED
  BY <1>1, <1>2, <1>3, <1>4 DEF Next

-----------------------------------------------------------------------------
(* Guesses                                                                 *)

Counts == 0..MaxAttempts - 1

(* The verifications that may refuse a guess at a code after at most a     *)
(* attempts: all of them while the store has such a record, and whoever    *)
(* has such a record in hand.                                              *)
Low(c, a) ==
  {v \in Verifiers :
     \/ \E h \in Handles : Stored(h, c) /\ store[h].attempts <= a
     \/ Holds(v, c) /\ verifier[v].rec.attempts <= a}

Spread(c) == [a \in Counts |-> Cardinality(Low(c, a))]

(* The distributions a code can still come to after it had d: the order is *)
(* lexicographic.                                                          *)
Less(e, d) == \E a \in Counts : e[a] < d[a] /\ \A b \in Counts : b < a => e[b] <= d[b]
Below(d)   == {e \in Distributions : Less(e, d)}

(* Guesses that were answered, and those that may still be, are together   *)
(* fewer than the distributions.                                           *)
GuessInv ==
  \A c \in Codes : refused[c] + Cardinality(Below(Spread(c))) < Cardinality(Distributions)

LEMMA DistributionsFinite == IsFiniteSet(Distributions)
<1> DEFINE N == Cardinality(Verifiers)
           F == [Counts -> 0..N]
           Graph == [f \in F |-> {<<a, f[a]>> : a \in Counts}]
<1>1. N \in Nat /\ MaxAttempts \in Nat
  BY OtpAssumption, FS_CardinalityType
<1>2. IsFiniteSet(Counts) /\ IsFiniteSet(0..N)
  BY <1>1, FS_Interval DEF Counts
<1>3. IsFiniteSet(SUBSET (Counts \X (0..N)))
  BY <1>2, FS_Product, FS_SUBSET
<1>4. Graph \in Injection(F, SUBSET (Counts \X (0..N)))
  <2>1. Graph \in [F -> SUBSET (Counts \X (0..N))]
    OBVIOUS
  <2>2. ASSUME NEW f \in F, NEW g \in F, Graph[f] = Graph[g] PROVE f = g
    <3>1. ASSUME NEW a \in Counts PROVE f[a] = g[a]
      <4>1. <<a, f[a]>> \in {<<b, g[b]>> : b \in Counts}
        BY <2>2
      <4> QED
        BY <4>1
    <3> QED
      BY <3>1
  <2> QED
    BY <2>1, <2>2 DEF Injection, IsInjective
<1>5. IsFiniteSet(F)
  BY <1>3, <1>4, FS_Injection
<1> QED
  BY <1>5, FS_Subset DEF Distributions, Counts

LEMMA SpreadIsDistribution ==
  ASSUME TypeOK, NEW c \in Codes
  PROVE  Spread(c) \in Distributions
<1>1. \A a \in Counts : IsFiniteSet(Low(c, a)) /\ Cardinality(Low(c, a)) \in 0..Cardinality(Verifiers)
  <2> TAKE a \in Counts
  <2>1. Low(c, a) \in SUBSET Verifiers
    BY DEF Low
  <2> QED
    BY <2>1, OtpAssumption, FS_Subset, FS_CardinalityType
<1>2. ASSUME NEW a \in Counts, NEW b \in Counts, a <= b
      PROVE  Cardinality(Low(c, a)) <= Cardinality(Low(c, b))
  <2>1. \A h \in Handles : Stored(h, c) => store[h].attempts \in Nat
    BY Types DEF Stored, Record
  <2>2. \A v \in Verifiers : Holds(v, c) => verifier[v].rec.attempts \in Nat
    BY Types DEF Verify, Record
  <2>3. a \in Int /\ b \in Int
    BY DEF Counts
  <2>4. Low(c, a) \in SUBSET Low(c, b)
    BY <1>2, <2>1, <2>2, <2>3 DEF Low
  <2> QED
    BY <1>1, <2>4, FS_Subset
<1> QED
  BY <1>1, <1>2 DEF Spread, Distributions, Counts

LEMMA BelowIsFewer ==
  ASSUME NEW d \in Distributions
  PROVE  /\ Cardinality(Below(d)) \in Nat
         /\ Cardinality(Distributions) \in Nat
         /\ Cardinality(Below(d)) < Cardinality(Distributions)
<1>1. d \notin Below(d)
  BY OtpAssumption, FS_CardinalityType DEF Below, Less, Distributions, Counts
<1>2. Below(d) \in SUBSET (Distributions \ {d})
  BY <1>1 DEF Below
<1>3. /\ IsFiniteSet(Distributions \ {d})
      /\ Cardinality(Distributions \ {d}) = Cardinality(Distributions) - 1
  BY DistributionsFinite, FS_RemoveElement
<1> QED
  BY <1>2, <1>3, DistributionsFinite, FS_Subset, FS_CardinalityType

(* A distribution with no more of any count has no more below it; one that *)
(* is below has fewer.                                                     *)
LEMMA BelowShrinks ==
  ASSUME NEW d \in Distributions, NEW e \in Distributions
  PROVE  /\ (\A a \in Counts : e[a] <= d[a]) =>
              Cardinality(Below(e)) <= Cardinality(Below(d))
         /\ Less(e, d) => Cardinality(Below(e)) < Cardinality(Below(d))
<1>1. /\ \A f \in Distributions, a \in Counts : f[a] \in Int
      /\ Counts \subseteq Int
  BY OtpAssumption, FS_CardinalityType DEF Distributions, Counts
<1>2. IsFiniteSet(Below(d)) /\ Below(e) \in SUBSET Distributions
  BY DistributionsFinite, FS_Subset DEF Below
<1>3. ASSUME \A a \in Counts : e[a] <= d[a]
      PROVE  Cardinality(Below(e)) <= Cardinality(Below(d))
  <2>1. ASSUME NEW f \in Distributions, Less(f, e) PROVE Less(f, d)
    BY <1>1, <1>3, <2>1 DEF Less
  <2>2. Below(e) \in SUBSET Below(d)
    BY <2>1 DEF Below
  <2> QED
    BY <1>2, <2>2, FS_Subset
<1>4. ASSUME Less(e, d) PROVE Cardinality(Below(e)) < Cardinality(Below(d))
  <2>1. PICK a \in Counts : e[a] < d[a] /\ \A b \in Counts : b < a => e[b] <= d[b]
    BY <1>4 DEF Less
  <2>2. ASSUME NEW f \in Distributions, Less(f, e) PROVE Less(f, d)
    <3>1. PICK b \in Counts : f[b] < e[b] /\ \A k \in Counts : k < b => f[k] <= e[k]
      BY <2>2 DEF Less
    <3>2. CASE a < b
      <4>1. f[a] < d[a] /\ \A k \in Counts : k < a => f[k] <= d[k]
        BY <1>1, <2>1, <3>1, <3>2
      <4> QED
        BY <4>1 DEF Less
    <3>3. CASE ~(a < b)
      <4>1. f[b] < d[b]
        BY <1>1, <2>1, <3>1, <3>3
      <4>2. \A k \in Counts : k < b => f[k] <= d[k]
        BY <1>1, <2>1, <3>1, <3>3
      <4> QED
        BY <4>1, <4>2 DEF Less
    <3> QED
      BY <3>2, <3>3
  <2>3. e \notin Below(e) /\ e \in Below(d)
    BY <1>1, <1>4 DEF Below, Less
  <2>4. Below(e) \in SUBSET (Below(d) \ {e})
    BY <2>2, <2>3 DEF Below
  <2>5. /\ IsFiniteSet(Below(d) \ {e})
        /\ Cardinality(Below(d) \ {e}) = Cardinality(Below(d)) - 1
        /\ Cardinality(Below(d)) \in Nat
    BY <1>2, <2>3, FS_RemoveElement, FS_CardinalityType
  <2>6. /\ IsFiniteSet(Below(e))
        /\ Cardinality(Below(e)) <= Cardinality(Below(d) \ {e})
    BY <2>4, <2>5, FS_Subset
  <2>7. Cardinality(Below(e)) \in Nat
    BY <2>6, FS_CardinalityType
  <2> QED
    BY <2>5, <2>6, <2>7
<1> QED
  BY <1>3, <1>4

SpreadsAreDistributions == \A c \in Codes : Spread(c) \in Distributions

LEMMA SpreadsNow == TypeOK => SpreadsAreDistributions
BY SpreadIsDistribution DEF SpreadsAreDistributions

LEMMA SpreadsNext == TypeOK' => SpreadsAreDistributions'
BY SpreadsNow, PTL

(* A step that leaves a code's refusals as they are and brings nobody to   *)
(* one of its low counts keeps the bound for it.                           *)
LEMMA LowerKeeps ==
  ASSUME TypeOK, TypeOK', GuessInv, NEW c \in Codes, refused'[c] = refused[c],
         \A a \in Counts : Low(c, a)' \subseteq Low(c, a)
  PROVE  refused'[c] + Cardinality(Below(Spread(c)')) < Cardinality(Distributions)
<1>1. PICK d \in Distributions : d = Spread(c)
  BY SpreadsNow DEF SpreadsAreDistributions
<1>2. PICK e \in Distributions : e = Spread(c)'
  BY SpreadsNext DEF SpreadsAreDistributions
<1>3. ASSUME NEW a \in Counts PROVE e[a] <= d[a]
  <2>1. Low(c, a) \in SUBSET Verifiers /\ Low(c, a)' \in SUBSET Low(c, a)
    BY DEF Low
  <2>2. Cardinality(Low(c, a)') <= Cardinality(Low(c, a))
    BY <2>1, OtpAssumption, FS_Subset
  <2> QED
    BY <1>1, <1>2, <2>2 DEF Spread
<1>4. Cardinality(Below(e)) <= Cardinality(Below(d))
  BY <1>3, BelowShrinks
<1>5. refused[c] + Cardinality(Below(d)) < Cardinality(Distributions) /\ refused[c] \in Nat
  BY <1>1 DEF GuessInv, TypeOK
<1>6. /\ Cardinality(Below(d)) \in Nat /\ Cardinality(Below(e)) \in Nat
      /\ Cardinality(Distributions) \in Nat
  BY BelowIsFewer
<1> QED
  BY <1>2, <1>4, <1>5, <1>6

(* A code nobody has guessed at has its bound whatever is stored or held.  *)
LEMMA UnguessedKeeps ==
  ASSUME TypeOK', NEW c \in Codes, refused'[c] = 0
  PROVE  refused'[c] + Cardinality(Below(Spread(c)')) < Cardinality(Distributions)
<1>1. PICK e \in Distributions : e = Spread(c)'
  BY SpreadsNext DEF SpreadsAreDistributions
<1> QED
  BY <1>1, BelowIsFewer

(* Whoever refuses after n attempts writes n + 1: nobody can refuse after  *)
(* at most n any more but those who have such a record in hand.            *)
LEMMA RefusalLowers ==
  ASSUME TypeOK, TypeOK', CodeInv, GuessInv, NEW v \in Verifiers, WriteAttempt(v),
         NEW c \in Codes
  PROVE  refused'[c] + Cardinality(Below(Spread(c)')) < Cardinality(Distributions)
<1> DEFINE h == verifier[v].h
<1>1. PICK g \in Codes, n \in Nat : g = verifier[v].rec.code /\ n = verifier[v].rec.attempts
  BY Types DEF WriteAttempt, Verify, Record
<1>2. /\ h \in Handles /\ verifier[v].rec \in Record /\ Holds(v, g)
      /\ n \in Counts
  <2>1. verifier[v] \in Verify /\ verifier[v].pc = "refusing"
    BY Types DEF WriteAttempt
  <2>2. n < MaxAttempts
    BY <1>1, <2>1 DEF CodeInv, AttemptsAreRefusals
  <2> QED
    BY <1>1, <2>1, <2>2, OtpAssumption DEF Verify, Record, Holds, Counts
<1>3. /\ \A k \in Handles : k # h => store'[k] = store[k]
      /\ store[h] = NULL => store'[h] = NULL
      /\ store[h] # NULL => store'[h].code = g /\ store'[h].attempts = n + 1
  BY <1>1, <1>2 DEF WriteAttempt, TypeOK, Refused, Record
<1>4. /\ verifier'[v] = NoVerify
      /\ \A w \in Verifiers : w # v => verifier'[w] = verifier[w]
      /\ refused'[g] = refused[g] + 1
      /\ \A d \in Codes : d # g => refused'[d] = refused[d]
  BY <1>1, <1>2 DEF WriteAttempt, EndVerify, TypeOK
<1>5. \A w \in Verifiers, d \in Codes :
        Holds(w, d)' => Holds(w, d) /\ w # v /\ verifier'[w] = verifier[w]
  BY <1>4 DEF Holds, NoVerify
<1>6. CASE c # g
  <2>1. \A k \in Handles : Stored(k, c)' => Stored(k, c) /\ store'[k] = store[k]
    BY <1>3, <1>6 DEF Stored
  <2>2. \A a \in Counts : Low(c, a)' \subseteq Low(c, a)
    BY <1>5, <2>1 DEF Low
  <2> QED
    BY <1>4, <1>6, <2>2, LowerKeeps
<1>7. CASE c = g
  <2>1. PICK d \in Distributions : d = Spread(c)
    BY SpreadsNow DEF SpreadsAreDistributions
  <2>2. PICK e \in Distributions : e = Spread(c)'
    BY SpreadsNext DEF SpreadsAreDistributions
  <2>3. \A k \in Handles : Stored(k, c)' => k = h /\ store'[k].attempts = n + 1
    <3>1. \A k \in Handles : Stored(k, c) => k = h
      BY <1>2, <1>7 DEF CodeInv, OneHandle
    <3> QED
      BY <1>3, <3>1 DEF Stored
  <2>4. ASSUME NEW a \in Counts, a <= n
        PROVE  Low(c, a)' \in SUBSET (Low(c, a) \ {v})
    <3>1. ~(n + 1 <= a)
      BY <1>2, <2>4 DEF Counts
    <3>2. \A k \in Handles : ~(Stored(k, c)' /\ store'[k].attempts <= a)
      BY <2>3, <3>1
    <3> QED
      BY <1>5, <3>2 DEF Low
  <2>5. \A a \in Counts : /\ IsFiniteSet(Low(c, a))
                          /\ d[a] = Cardinality(Low(c, a)) /\ e[a] = Cardinality(Low(c, a)')
    <3> TAKE a \in Counts
    <3>1. Low(c, a) \in SUBSET Verifiers
      BY DEF Low
    <3> QED
      BY <2>1, <2>2, <3>1, OtpAssumption, FS_Subset DEF Spread
  <2>6. ASSUME NEW a \in Counts, a <= n PROVE e[a] <= d[a]
    <3>1. Low(c, a)' \in SUBSET Low(c, a)
      BY <2>4, <2>6
    <3> QED
      BY <2>5, <3>1, FS_Subset
  <2>7. e[n] < d[n]
    <3>1. v \in Low(c, n)
      BY <1>1, <1>2, <1>7 DEF Low
    <3>2. Low(c, n)' \in SUBSET (Low(c, n) \ {v})
      BY <1>2, <2>4
    <3>3. /\ IsFiniteSet(Low(c, n) \ {v})
          /\ Cardinality(Low(c, n) \ {v}) = d[n] - 1
      <4>1. IsFiniteSet(Low(c, n)) /\ d[n] = Cardinality(Low(c, n))
        BY <1>2, <2>5
      <4> QED
        BY <3>1, <4>1, FS_RemoveElement
    <3>4. e[n] <= d[n] - 1
      BY <1>2, <2>5, <3>2, <3>3, FS_Subset
    <3>5. e[n] \in Int /\ d[n] \in Int
      BY <1>2, OtpAssumption, FS_CardinalityType DEF Distributions, Counts
    <3> QED
      BY <3>4, <3>5
  <2>8. Less(e, d)
    <3>1. \A a \in Counts : a < n => e[a] <= d[a]
      BY <1>2, <2>6 DEF Counts
    <3> QED
      BY <1>2, <2>7, <3>1 DEF Less
  <2>9. Cardinality(Below(e)) < Cardinality(Below(d))
    BY <2>8, BelowShrinks
  <2>10. /\ refused[c] + Cardinality(Below(d)) < Cardinality(Distributions)
         /\ refused[c] \in Nat /\ refused'[c] = refused[c] + 1
    BY <1>4, <1>7, <2>1 DEF GuessInv, TypeOK
  <2>11. /\ Cardinality(Below(d)) \in Nat /\ Cardinality(Below(e)) \in Nat
         /\ Cardinality(Distributions) \in Nat
    BY BelowIsFewer
  <2> QED
    BY <2>2, <2>9, <2>10, <2>11
<1> QED
  BY <1>6, <1>7

(* Of the other steps only a new code brings verifications to low counts,  *)
(* and nobody has guessed at it.                                           *)
LEMMA GuessStep ==
  ASSUME TypeOK, TypeOK', CodeInv, GuessInv, [Next]_vars
  PROVE  GuessInv'
<1> SUFFICES ASSUME NEW c \in Codes
             PROVE  refused'[c] + Cardinality(Below(Spread(c)')) < Cardinality(Distributions)
  BY DEF GuessInv, Below, Less
<1>1. ASSUME refused' = refused,
             \A h \in Handles : store'[h] \in {store[h], NULL},
             \A v \in Verifiers, d \in Codes :
               Holds(v, d)' => Holds(v, d) /\ verifier'[v].rec = verifier[v].rec
      PROVE  refused'[c] + Cardinality(Below(Spread(c)')) < Cardinality(Distributions)
  <2>1. \A h \in Handles : Stored(h, c)' => Stored(h, c) /\ store'[h] = store[h]
    BY <1>1 DEF Stored
  <2>2. \A a \in Counts : Low(c, a)' \subseteq Low(c, a)
    BY <1>1, <2>1 DEF Low
  <2> QED
    BY <1>1, <2>2, LowerKeeps
<1>2. ASSUME NEW v \in Verifiers, VerifyStep(v)
      PROVE  refused'[c] + Cardinality(Below(Spread(c)')) < Cardinality(Distributions)
  <2>1. ASSUME NEW h \in Handles, Find(v, h)
        PROVE  refused'[c] + Cardinality(Below(Spread(c)')) < Cardinality(Distributions)
    <3>1. /\ store[h] # NULL /\ UNCHANGED <<store, refused>>
          /\ \A w \in Verifiers : w # v => verifier'[w] = verifier[w]
          /\ verifier'[v].rec = store[h]
      BY <2>1 DEF Find, TypeOK, storeVars
    <3>2. \A w \in Verifiers :
            Holds(w, c)' => \/ Holds(w, c) /\ verifier'[w].rec = verifier[w].rec
                            \/ w = v /\ Stored(h, c) /\ verifier'[v].rec = store[h]
      BY <3>1 DEF Holds, Stored
    <3>3. \A a \in Counts : Low(c, a)' \subseteq Low(c, a)
      BY <3>1, <3>2 DEF Low, Stored
    <3> QED
      BY <3>1, <3>3, LowerKeeps
  <2>2. CASE WriteAttempt(v)
    BY <2>2, RefusalLowers
  <2>3. ASSUME EndVerify(v) \/ (verifier[v].pc \in HoldPcs /\ \E pc \in HoldPcs \cup {"opening"} : To(v, pc))
        PROVE  \A w \in Verifiers, d \in Codes :
                 Holds(w, d)' => Holds(w, d) /\ verifier'[w].rec = verifier[w].rec
    <3>1. \A w \in Verifiers : w # v => verifier'[w] = verifier[w]
      BY <2>3 DEF EndVerify, To, TypeOK
    <3>2. CASE EndVerify(v)
      <4>1. verifier'[v] = NoVerify
        BY <3>2 DEF EndVerify, TypeOK
      <4> QED
        BY <3>1, <4>1 DEF Holds, NoVerify
    <3>3. CASE verifier[v].pc \in HoldPcs /\ \E pc \in HoldPcs \cup {"opening"} : To(v, pc)
      <4>1. verifier[v] \in Verify
        BY <3>3, Types DEF HoldPcs
      <4>2. verifier'[v].rec = verifier[v].rec
        BY <3>3, <4>1 DEF To, TypeOK, Verify
      <4> QED
        BY <3>1, <3>3, <4>2 DEF Holds, HoldPcs
    <3> QED
      BY <2>3, <3>2, <3>3
  <2>4. CASE Compare(v) \/ VerifyFails(v)
    BY <1>1, <2>3, <2>4 DEF Compare, VerifyFails, storeVars, HoldPcs
  <2>5. CASE DeleteLocked(v) \/ Consume(v)
    <3>1. \A h \in Handles : store'[h] \in {store[h], NULL}
      BY <2>5 DEF DeleteLocked, Consume, Delete, TypeOK
    <3> QED
      BY <1>1, <2>3, <2>5, <3>1 DEF DeleteLocked, Consume, HoldPcs
  <2>6. CASE OpenSession(v)
    BY <1>1, <2>3, <2>6 DEF OpenSession, storeVars
  <2> QED
    BY <1>2, <2>1, <2>2, <2>4, <2>5, <2>6 DEF VerifyStep
<1>3. ASSUME NEW s \in Starters, CreateCode(s)
      PROVE  refused'[c] + Cardinality(Below(Spread(c)')) < Cardinality(Distributions)
  <2>1. PICK g \in Codes \ ended :
          /\ ~Issued(g)
          /\ store' = [store EXCEPT ![starter[s].h] = [code |-> g, attempts |-> 0]]
    BY <1>3 DEF CreateCode, Created
  <2>2. UNCHANGED <<verifier, refused>>
    BY <1>3 DEF CreateCode, verifyVars
  <2>3. CASE c = g
    <3>1. refused[c] = 0
      BY <2>1, <2>3 DEF CodeInv, TracedAreIssued, Traced, TypeOK
    <3> QED
      BY <2>2, <3>1, UnguessedKeeps
  <2>4. CASE c # g
    <3>1. \A h \in Handles : Stored(h, c)' => Stored(h, c) /\ store'[h] = store[h]
      BY <2>1, <2>4 DEF Stored, TypeOK
    <3>2. \A a \in Counts : Low(c, a)' \subseteq Low(c, a)
      BY <2>2, <3>1 DEF Low, Holds
    <3> QED
      BY <2>2, <3>2, LowerKeeps
  <2> QED
    BY <2>3, <2>4
<1>4. ASSUME UNCHANGED <<verifier, refused>>, \A h \in Handles : store'[h] \in {store[h], NULL}
      PROVE  refused'[c] + Cardinality(Below(Spread(c)')) < Cardinality(Distributions)
  BY <1>1, <1>4 DEF Holds
<1>5. ASSUME NEW h \in Handles, ExpireCode(h)
      PROVE  refused'[c] + Cardinality(Below(Spread(c)')) < Cardinality(Distributions)
  BY <1>4, <1>5 DEF ExpireCode, TypeOK, verifyVars
<1>6. ASSUME UNCHANGED <<storeVars, verifyVars>>
      PROVE  refused'[c] + Cardinality(Below(Spread(c)')) < Cardinality(Distributions)
  BY <1>4, <1>6 DEF storeVars, verifyVars
<1>7. ASSUME NEW s \in Starters, StartStep(s)
      PROVE  CreateCode(s) \/ UNCHANGED <<storeVars, verifyVars>>
  BY <1>7 DEF StartStep, Increment, ArmWindow, RedisFails, StartEnds
<1>8. ASSUME NEW h \in Handles, HandleStep(h)
      PROVE  ExpireCode(h) \/ UNCHANGED <<storeVars, verifyVars>>
  BY <1>8 DEF HandleStep, VerifyHandle, WindowEnds
<1>9. UNCHANGED vars => UNCHANGED <<storeVars, verifyVars>>
  BY DEF vars
<1> QED
  BY <1>2, <1>3, <1>5, <1>6, <1>7, <1>8, <1>9 DEF Next

-----------------------------------------------------------------------------
(* Counters                                                                *)

LEMMA CounterStep == TypeOK /\ CountersExpire /\ [Next]_vars => CountersExpire'
<1> SUFFICES ASSUME TypeOK, CountersExpire, [Next]_vars PROVE CountersExpire'
  OBVIOUS
<1>1. CASE UNCHANGED <<limiterVars, starter>>
  BY <1>1 DEF CountersExpire, limiterVars
<1>2. ASSUME NEW s \in Starters, StartStep(s) PROVE CountersExpire'
  <2>1. starter[s].pc = "expiring" => starter[s].h \in Handles
    BY Types DEF Start
  <2>2. ASSUME NEW h \in Handles, Increment(s, h) PROVE CountersExpire'
    <3>1. /\ \A k \in Handles : count'[k] = IF k = h THEN count[k] + 1 ELSE count[k]
          /\ starter'[s] = [pc |-> NextCall(count[h] + 1), h |-> h]
          /\ \A t \in Starters : t # s => starter'[t] = starter[t]
          /\ starter[s].pc = "idle" /\ UNCHANGED <<armed, broken>>
          /\ \A k \in Handles : count[k] \in Nat
      BY <2>2 DEF Increment, SetStarter, TypeOK
    <3>2. count[h] = 0 => starter'[s].pc = "expiring" /\ starter'[s].h = h
      BY <3>1 DEF NextCall
    <3>3. \A k \in Handles, t \in Starters :
            starter[t].pc = "expiring" /\ starter[t].h = k
              => starter'[t].pc = "expiring" /\ starter'[t].h = k
      BY <3>1
    <3> QED
      BY <3>1, <3>2, <3>3 DEF CountersExpire
  <2>3. ASSUME UNCHANGED count, armed \subseteq armed', broken \subseteq broken',
               \A t \in Starters : t # s => starter'[t] = starter[t],
               starter[s].pc = "expiring" => starter[s].h \in armed' \cup broken'
        PROVE  CountersExpire'
    BY <2>3 DEF CountersExpire
  <2>4. CASE ArmWindow(s)
    BY <2>3, <2>4 DEF ArmWindow, SetStarter, TypeOK
  <2>5. CASE RedisFails(s)
    BY <2>3, <2>5 DEF RedisFails, SetStarter, TypeOK
  <2>6. CASE StartEnds(s)
    BY <2>3, <2>6 DEF StartEnds, EndStarter, TypeOK
  <2>7. CASE CreateCode(s)
    BY <2>3, <2>7 DEF CreateCode, EndStarter, TypeOK, limiterVars
  <2> QED
    BY <1>2, <2>2, <2>4, <2>5, <2>6, <2>7 DEF StartStep
<1>3. ASSUME NEW h \in Handles, WindowEnds(h) PROVE CountersExpire'
  BY <1>3 DEF WindowEnds, CountersExpire, TypeOK
<1> QED
  BY <1>1, <1>2, <1>3 DEF Next, VerifyStep, Find, Compare, WriteAttempt, DeleteLocked,
     Consume, OpenSession, VerifyFails, HandleStep, VerifyHandle, ExpireCode, vars

-----------------------------------------------------------------------------
LEMMA SpecInv == Spec => []IInv
<1>1. IInv /\ [Next]_vars => IInv'
  BY TypeStep, CodeStep, CounterStep DEF IInv
<1> QED
  BY InitInv, <1>1, PTL DEF Spec

(* The state of OtpSignin keeps its types.                                 *)
THEOREM OtpTypesHold == Spec => []TypeOK
<1>1. IInv => TypeOK
  BY DEF IInv
<1> QED
  BY SpecInv, <1>1, PTL

(* verifyOtpSignin opens one session for a code, however many requests     *)
(* come, as long as no two that look at this code overlap.                 *)
THEOREM OneLogin == Spec => []OneCodeOneLogin
<1>1. IInv => OneCodeOneLogin
  <2> SUFFICES ASSUME IInv, NEW c \in Codes, c \notin shared PROVE ~(logins[c] > 1)
    BY DEF OneCodeOneLogin
  <2> QED
    BY DEF IInv, CodeInv, UsedOnce, TypeOK
<1> QED
  BY SpecInv, <1>1, PTL

(* verifyOtpSignin answers no more than MaxAttempts wrong guesses at such  *)
(* a code.                                                                 *)
THEOREM GuessesLimited == Spec => []AttemptsCounted
<1>1. IInv => AttemptsCounted
  <2> SUFFICES ASSUME IInv, NEW c \in Codes, c \notin shared PROVE ~(refused[c] > MaxAttempts)
    BY DEF AttemptsCounted
  <2> QED
    BY OtpAssumption DEF IInv, CodeInv, AttemptsAreRefusals, TypeOK
<1> QED
  BY SpecInv, <1>1, PTL

(* verifyOtpSignin answers a bounded number of wrong guesses at any code,  *)
(* whatever overlaps, fails and is written back: the updates it loses are  *)
(* paid for by verifications that started at a lower count.                *)
THEOREM GuessesAreBounded == Spec => []GuessesBounded
<1>1. Init => GuessInv
  <2> SUFFICES ASSUME Init, NEW c \in Codes
               PROVE  refused[c] + Cardinality(Below(Spread(c))) < Cardinality(Distributions)
    BY DEF GuessInv
  <2>1. Spread(c) \in Distributions
    BY InitInv, SpreadIsDistribution DEF IInv
  <2>2. refused[c] = 0
    BY DEF Init
  <2> QED
    BY <2>1, <2>2, BelowIsFewer
<1>2. IInv /\ IInv' /\ GuessInv /\ [Next]_vars => GuessInv'
  BY GuessStep DEF IInv
<1>3. IInv /\ GuessInv => GuessesBounded
  <2> SUFFICES ASSUME IInv, GuessInv, NEW c \in Codes
               PROVE  refused[c] < Cardinality(Distributions)
    BY DEF GuessesBounded
  <2>1. Spread(c) \in Distributions /\ refused[c] \in Nat
    BY SpreadIsDistribution DEF IInv, TypeOK
  <2> QED
    BY <2>1, BelowIsFewer DEF GuessInv
<1> QED
  BY <1>1, <1>2, <1>3, SpecInv, PTL DEF Spec

(* The code startOtpSignin sent last is the one that is stored, until it   *)
(* is used up, replaced or expires, unless a verification was under way    *)
(* when it was created.                                                    *)
THEOREM NewestStands == Spec => []NewestCodeStands
<1>1. IInv => NewestCodeStands
  BY DEF IInv, CodeInv
<1> QED
  BY SpecInv, <1>1, PTL

(* A window counter that checkRateLimit raised goes away, unless Redis     *)
(* failed or the process stopped between its two calls.                    *)
THEOREM WindowsEnd == Spec => []CountersExpire
<1>1. IInv => CountersExpire
  BY DEF IInv
<1> QED
  BY SpecInv, <1>1, PTL
=============================================================================
