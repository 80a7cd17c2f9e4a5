------------------------- MODULE PatVerifierProofs -------------------------
(***************************************************************************)
(* VInv is an inductive invariant of PatVerifier, for any callers, tokens, *)
(* holders, TTL and timeout.  The argument: a positive answer was true at  *)
(* some moment of its call, which lasts Timeout at most, so an entry made  *)
(* from it ends no later than Timeout + TTL after a revocation; and an     *)
(* entry stays for its TTL, so who has to ask was not covered (KeptOK).    *)
(***************************************************************************)
EXTENDS PatVerifier, TLAPS

LEMMA InitVInv == Init => VInv
  BY VerifierAssumption
  DEF VerifierAssumption, Init, VInv, TypeOK, CallState, Steps, Outcomes, Sources, Time,
      Never, NoEntry, CacheOK, AnswerOK, KeptOK, PastOK, RevocationBound, ActsAsHolder,
      NoFalseRefusal

\* A verification begins, or ends at once from the cache or without a token.
LEMMA VerifyVInv ==
  ASSUME VInv, NEW c \in Callers, Verify(c)
  PROVE  VInv'
<1>1. PICK t \in Pats \cup {NoToken} :
        /\ call[c].step = "idle"
        /\ IF t = NoToken THEN End(c, t, now, 0, "none")
           ELSE IF Cached(Key(t)) THEN End(c, t, now, cache[Key(t)].user, "cache")
           ELSE /\ now + Timeout <= MaxTime
                /\ call' = [call EXCEPT ![c] =
                              [step |-> "asked", token |-> t, start |-> now,
                               user |-> 0, source |-> "none",
                               outcome |-> "none", end |-> Never]]
        /\ UNCHANGED <<now, issued, revoked, cache>>
  BY VerifierAssumption DEF VerifierAssumption, Verify
<1> USE VerifierAssumption
    DEF VInv, TypeOK, CallState, Steps, Outcomes, Sources, Time, Never
<1>2. CASE t = NoToken
  <2>1. call' = [call EXCEPT ![c] = [step |-> "idle", token |-> t, start |-> now,
                                     user |-> 0, source |-> "none",
                                     outcome |-> "invalid", end |-> now]]
    BY <1>1, <1>2 DEF End, Outcome
  <2>2. KeptOK'
    BY <1>1, <1>2, <2>1 DEF KeptOK, Asks, Covers
  <2> QED
    BY <1>1, <1>2, <2>1, <2>2
    DEF CacheOK, AnswerOK, PastOK, RevocationBound, ActsAsHolder, NoFalseRefusal, Covers
<1>3. CASE t # NoToken /\ Cached(t)
  <2>1. call' = [call EXCEPT ![c] = [step |-> "idle", token |-> t, start |-> now,
                                     user |-> cache[t].user, source |-> "cache",
                                     outcome |-> "admitted", end |-> now]]
    BY <1>1, <1>3 DEF End, Key, Cached, Outcome, CacheOK
  <2>2. KeptOK'
    BY <1>1, <1>3, <2>1 DEF KeptOK, Asks, Covers
  <2> QED
    BY <1>1, <1>3, <2>1, <2>2
    DEF Cached, CacheOK, AnswerOK, PastOK, RevocationBound, ActsAsHolder, NoFalseRefusal,
        Covers
<1>4. CASE t # NoToken /\ ~Cached(t)
  <2>1. call' = [call EXCEPT ![c] = [step |-> "asked", token |-> t, start |-> now,
                                     user |-> 0, source |-> "none",
                                     outcome |-> "none", end |-> Never]]
    BY <1>1, <1>4 DEF Key
  <2>2. KeptOK'
    BY <1>1, <1>4, <2>1 DEF KeptOK, Asks, Covers, Cached
  <2> QED
    BY <1>1, <1>4, <2>1, <2>2
    DEF CacheOK, AnswerOK, PastOK, RevocationBound, ActsAsHolder, NoFalseRefusal, Covers
<1> QED BY <1>1, <1>2, <1>3, <1>4

\* The auth service judges: what it says is true at this moment.
LEMMA JudgeVInv ==
  ASSUME VInv, NEW c \in Callers, Judge(c)
  PROVE  VInv'
<1> USE VerifierAssumption
    DEF VInv, TypeOK, CallState, Steps, Outcomes, Sources, Time, Never
<1> DEFINE u == IF Active(call[c].token) THEN Holder[call[c].token] ELSE 0
<1>1. /\ call[c].step = "asked" /\ call[c].token \in Pats
      /\ call' = [call EXCEPT ![c].step = "judged", ![c].user = u]
      /\ UNCHANGED <<now, issued, revoked, cache>>
  BY DEF Judge, AnswerOK
<1>2. u \in Nat
  BY <1>1
<1>3. TypeOK'
  <2>1. [call[c] EXCEPT !.step = "judged", !.user = u] \in CallState
    <3> HIDE DEF u
    <3> QED BY <1>2
  <2>2. call' = [call EXCEPT ![c] = [call[c] EXCEPT !.step = "judged", !.user = u]]
    BY <1>1
  <2> QED BY <1>1, <2>1, <2>2
<1>4. AnswerOK'
  BY <1>1, <1>2 DEF AnswerOK, Active, PastOK
<1>5. (CacheOK /\ PastOK)'
  BY <1>1 DEF CacheOK, PastOK
<1>6. \A d \in Callers :
        /\ call'[d].token = call[d].token /\ call'[d].source = call[d].source
        /\ call'[d].outcome = call[d].outcome /\ call'[d].start = call[d].start
        /\ call'[d].end = call[d].end
        /\ call'[d].step # "idle" <=> call[d].step # "idle"
        /\ d # c => call'[d] = call[d]
  BY <1>1
<1> HIDE DEF u
<1>7. \A d, e \in Callers : (Asks(d)' <=> Asks(d)) /\ (Covers(d, e)' <=> Covers(d, e))
  BY <1>6 DEF Asks, Covers
<1>8. KeptOK'
  BY <1>1, <1>6, <1>7 DEF KeptOK
<1>9. NoFalseRefusal'
  BY <1>1, <1>6, <1>7 DEF NoFalseRefusal
<1>10. call[c].outcome = "none"
  BY <1>1 DEF AnswerOK
<1>11. (RevocationBound /\ ActsAsHolder)'
  BY <1>1, <1>6, <1>10 DEF RevocationBound, ActsAsHolder
<1> QED BY <1>3, <1>4, <1>5, <1>8, <1>9, <1>11

\* An answer that arrives within Timeout makes an entry that ends in time.
LEMMA AnsweredVInv ==
  ASSUME VInv, NEW c \in Callers, Answered(c)
  PROVE  VInv'
<1> USE VerifierAssumption
    DEF VInv, TypeOK, CallState, Steps, Outcomes, Sources, Time, Never
<1> DEFINE t == call[c].token
           u == call[c].user
<1>1. /\ call[c].step = "judged" /\ now <= call[c].start + Timeout
      /\ t \in Pats /\ u \in Nat /\ call[c].start \in Nat
      /\ cache' = IF u = 0 THEN cache
                  ELSE [cache EXCEPT ![t] = [user |-> u, until |-> now + TTL]]
      /\ call' = [call EXCEPT ![c] =
                    [step |-> "idle", token |-> t, start |-> call[c].start, user |-> u,
                     source |-> "service",
                     outcome |-> IF u = 0 THEN "invalid" ELSE "admitted", end |-> now]]
      /\ UNCHANGED <<now, issued, revoked>>
  BY DEF Answered, AnswerOK, Remember, Key, End, Outcome
<1>2. TypeOK'
  BY <1>1
<1>3. CacheOK'
  BY <1>1 DEF CacheOK, AnswerOK
<1>4. (AnswerOK /\ PastOK)'
  BY <1>1 DEF AnswerOK, PastOK
<1>5. (RevocationBound /\ ActsAsHolder)'
  BY <1>1 DEF AnswerOK, RevocationBound, ActsAsHolder
<1>6. NoFalseRefusal'
  BY <1>1 DEF AnswerOK, PastOK, NoFalseRefusal, Covers
<1>7. KeptOK'
  BY <1>1 DEF KeptOK, CacheOK, PastOK, AnswerOK, Asks, Covers
<1> QED BY <1>2, <1>3, <1>4, <1>5, <1>6, <1>7

\* Giving up refuses the call and leaves the cache alone.
LEMMA GiveUpVInv ==
  ASSUME VInv, NEW c \in Callers, call[c].step # "idle", GiveUp(c)
  PROVE  VInv'
<1> USE VerifierAssumption
    DEF VInv, TypeOK, CallState, Steps, Outcomes, Sources, Time, Never
<1>1. /\ call' = [call EXCEPT ![c] =
                    [step |-> "idle", token |-> call[c].token, start |-> call[c].start,
                     user |-> 0, source |-> "error", outcome |-> "invalid", end |-> now]]
      /\ UNCHANGED <<now, issued, revoked, cache>>
  BY DEF GiveUp, End, Outcome
<1>2. (TypeOK /\ CacheOK)'
  BY <1>1 DEF CacheOK
<1>3. (AnswerOK /\ PastOK)'
  BY <1>1 DEF AnswerOK, PastOK
<1>4. (RevocationBound /\ ActsAsHolder)'
  BY <1>1 DEF RevocationBound, ActsAsHolder
<1>5. KeptOK'
  BY <1>1 DEF KeptOK, Asks, Covers
<1>6. NoFalseRefusal'
  BY <1>1, <1>5 DEF NoFalseRefusal, KeptOK, Asks, Covers
<1> QED BY <1>2, <1>3, <1>4, <1>5, <1>6

\* The auth service issues or revokes a token, or time passes.
LEMMA OutsideVInv ==
  ASSUME VInv, (\E t \in Pats : Issue(t) \/ Revoke(t)) \/ Tick
  PROVE  VInv'
<1> USE VerifierAssumption
    DEF VInv, TypeOK, CallState, Steps, Outcomes, Sources, Time, Never
<1>1. ASSUME NEW t \in Pats, Issue(t) PROVE VInv'
  <2>1. /\ issued[t] = -1 /\ issued' = [issued EXCEPT ![t] = now]
        /\ UNCHANGED <<now, revoked, cache, call>>
    BY <1>1 DEF Issue
  <2>2. (TypeOK /\ CacheOK /\ PastOK)'
    BY <2>1 DEF CacheOK, PastOK
  <2>3. AnswerOK'
    BY <2>1 DEF AnswerOK
  <2>4. (RevocationBound /\ ActsAsHolder)'
    BY <2>1 DEF RevocationBound, ActsAsHolder
  <2>5. NoFalseRefusal'
    BY <2>1 DEF NoFalseRefusal, PastOK, Covers
  <2>6. KeptOK'
    BY <2>1 DEF KeptOK, Asks, Covers
  <2> QED BY <2>2, <2>3, <2>4, <2>5, <2>6
<1>2. ASSUME NEW t \in Pats, Revoke(t) PROVE VInv'
  <2>1. /\ issued[t] # -1 /\ revoked[t] = -1 /\ revoked' = [revoked EXCEPT ![t] = now]
        /\ UNCHANGED <<now, issued, cache, call>>
    BY <1>2 DEF Revoke, Active
  <2>2. (TypeOK /\ PastOK)'
    BY <2>1 DEF PastOK
  <2>3. CacheOK'
    BY <2>1 DEF CacheOK
  <2>4. AnswerOK'
    BY <2>1 DEF AnswerOK
  <2>5. RevocationBound'
    BY <2>1 DEF RevocationBound, PastOK
  <2>6. (ActsAsHolder /\ NoFalseRefusal)'
    BY <2>1 DEF ActsAsHolder, NoFalseRefusal, PastOK, Covers
  <2>7. KeptOK'
    BY <2>1 DEF KeptOK, Asks, Covers
  <2> QED BY <2>2, <2>3, <2>4, <2>5, <2>6, <2>7
<1>3. ASSUME Tick PROVE VInv'
  <2>1. now' = now + 1 /\ UNCHANGED <<issued, revoked, cache, call>>
    BY <1>3 DEF Tick
  <2>2. KeptOK'
    BY <2>1 DEF KeptOK, Asks, Covers
  <2> QED
    BY <2>1, <2>2
    DEF CacheOK, AnswerOK, PastOK, RevocationBound, ActsAsHolder, NoFalseRefusal, Covers
<1> QED BY <1>1, <1>2, <1>3

LEMMA StepVInv == VInv /\ [Next]_vars => VInv'
<1> SUFFICES ASSUME VInv, [Next]_vars PROVE VInv'
  OBVIOUS
<1>1. ASSUME NEW c \in Callers, TimeOut(c) \/ Unreachable(c) PROVE VInv'
  BY <1>1, GiveUpVInv DEF TimeOut, Unreachable
<1>2. CASE UNCHANGED vars
  BY <1>2
  DEF vars, VInv, TypeOK, CacheOK, AnswerOK, KeptOK, PastOK, RevocationBound,
      ActsAsHolder, NoFalseRefusal, Asks, Covers
<1> QED
  BY <1>1, <1>2, VerifyVInv, JudgeVInv, AnsweredVInv, OutsideVInv DEF Next

\* The inductive invariant holds in every reachable state: cache entries and
\* answers under way are never older than the code's two durations allow.
THEOREM VerifierInvariant == Spec => []VInv
<1> QED BY InitVInv, StepVInv, PTL DEF Spec

\* A revoked token is admitted for TTL + Timeout at most (pat_verifier.go:76).
THEOREM RevocationTakesEffect == Spec => []RevocationBound
<1>1. VInv => RevocationBound
  BY DEF VInv
<1> QED BY <1>1, VerifierInvariant, PTL

\* A call is admitted as the user of its own token (pat_verifier.go:81).
THEOREM HolderOnly == Spec => []ActsAsHolder
<1>1. VInv => ActsAsHolder
  BY DEF VInv
<1> QED BY <1>1, VerifierInvariant, PTL

\* Only a failed introspection, and none within TTL of a successful one, makes
\* an active token refused (pat_verifier.go:50).
THEOREM NewTokensWork == Spec => []NoFalseRefusal
<1>1. VInv => NoFalseRefusal
  BY DEF VInv
<1> QED BY <1>1, VerifierInvariant, PTL
=============================================================================
