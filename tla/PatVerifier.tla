---------------------------- MODULE PatVerifier ----------------------------
(***************************************************************************)
(* pkg/authadapter/pat_verifier.go behind the Connect interceptor: each    *)
(* call carries a personal access token, which is looked up in a cache     *)
(* shared by all calls or, on a miss, introspected at the auth service.    *)
(* The service issues and revokes tokens meanwhile.  Positive answers are  *)
(* cached for TTL from the moment they arrive; the HTTP client gives up    *)
(* Timeout after it asked.  Waiting takes time, computing does not.        *)
(***************************************************************************)
EXTENDS Integers

CONSTANTS
  Callers,   \* goroutines, each serving one call after another
  Pats,      \* "pat_..." bearer tokens, told apart by their SHA-256
  NoToken,   \* a header without a usable bearer token
  Headers,   \* Headers[c]: what the calls of c may carry
  Holder,    \* Holder[t]: user of token t at the auth service; 0: none
  TTL,       \* defaultPatCacheTTL
  Timeout,   \* defaultIntrospectionTimeout
  MaxTime    \* bound of the model: the clock stops here

ASSUME VerifierAssumption ==
  /\ NoToken \notin Pats
  /\ Headers \in [Callers -> SUBSET (Pats \cup {NoToken})]
  /\ Holder \in [Pats -> Nat]
  /\ TTL \in Nat
  /\ Timeout \in Nat
  /\ MaxTime \in Nat

VARIABLES
  now,       \* time.Now()
  issued,    \* issued[t]: when the service issued t, or Never
  revoked,   \* revoked[t]: when the service revoked t (or t expired), or Never
  cache,     \* cache[t]: the user t was verified for and until when
  call       \* call[c]: what caller c is doing

vars == <<now, issued, revoked, cache, call>>

Never == -1
NoEntry == [user |-> 0, until |-> Never]
Time == Nat \cup {Never}

Steps == {"idle", "asked", "judged"}
Outcomes == {"none", "admitted", "invalid"}

\* What VerifyBearerToken went by: the cache, the service's answer, or an error
\* in place of one.  A caller is not told.
Sources == {"none", "cache", "service", "error"}

\* start: when the call began and, on a miss, asked; user: whose token it is
\* (0: nobody's); outcome, end: how and when the call ended; source: history.
CallState == [step : Steps, token : Pats \cup {NoToken}, start : Time,
              user : Nat, source : Sources, outcome : Outcomes, end : Time]

Active(t) == issued[t] # Never /\ revoked[t] = Never

\* The interceptor passes the call on when the verifier names a user, and
\* answers Unauthenticated when it does not, for whatever reason.
Outcome(user) == IF user = 0 THEN "invalid" ELSE "admitted"

End(c, token, start, user, source) ==
  call' = [call EXCEPT ![c] = [step |-> "idle", token |-> token, start |-> start,
                               user |-> user, source |-> source,
                               outcome |-> Outcome(user), end |-> now]]

-----------------------------------------------------------------------------
\* Variant: the key is made of what all tokens have in common.
KeyOfPrefix(t) == CHOOSE k \in Pats : TRUE

\* sha256.Sum256 of the token.
Key(t) == t

\* Variant: the entry is used whatever its age.
CachedForever(k) == cache[k].until # Never

\* cachedUser: there is an entry under the key, and it has not expired.
Cached(k) == cache[k].until # Never /\ ~(now > cache[k].until)

\* The interceptor takes the token from the header; the verifier answers from
\* the cache or calls the introspection endpoint.
Verify(c) == \E t \in Headers[c] :
  /\ call[c].step = "idle"
  /\ IF t = NoToken THEN End(c, t, now, 0, "none")
     ELSE IF Cached(Key(t)) THEN End(c, t, now, cache[Key(t)].user, "cache")
     ELSE /\ now + Timeout <= MaxTime
          /\ call' = [call EXCEPT ![c] =
                        [step |-> "asked", token |-> t, start |-> now,
                         user |-> 0, source |-> "none",
                         outcome |-> "none", end |-> Never]]
  /\ UNCHANGED <<now, issued, revoked, cache>>

\* The auth service judges the token; its answer travels.
Judge(c) ==
  /\ call[c].step = "asked"
  /\ call' = [call EXCEPT ![c].step = "judged", ![c].user =
                IF Active(call[c].token) THEN Holder[call[c].token] ELSE 0]
  /\ UNCHANGED <<now, issued, revoked, cache>>

\* Variant: negative answers are cached too.
RememberAll(k, user) == cache' = [cache EXCEPT ![k] = [user |-> user, until |-> now + TTL]]

\* The cache after an answer: negative ones are never cached.
Remember(k, user) ==
  cache' = IF user = 0 THEN cache
           ELSE [cache EXCEPT ![k] = [user |-> user, until |-> now + TTL]]

\* The answer arrives in time and decides.
Answered(c) ==
  /\ call[c].step = "judged" /\ now <= call[c].start + Timeout
  /\ Remember(Key(call[c].token), call[c].user)
  /\ End(c, call[c].token, call[c].start, call[c].user, "service")
  /\ UNCHANGED <<now, issued, revoked>>

\* introspect returns an error, which names no user.
GiveUp(c) ==
  /\ End(c, call[c].token, call[c].start, 0, "error")
  /\ UNCHANGED <<now, issued, revoked, cache>>

\* Variant: the timeout covers the wait for an answer, not its arrival.
TimeOutBeforeAnswer(c) ==
  call[c].step = "asked" /\ now >= call[c].start + Timeout /\ GiveUp(c)

\* The client's timeout passes before the answer has been read.
TimeOut(c) ==
  call[c].step # "idle" /\ now >= call[c].start + Timeout /\ GiveUp(c)

\* The service cannot be reached or answers with an error.
Unreachable(c) == call[c].step # "idle" /\ GiveUp(c)

Issue(t) ==
  /\ issued[t] = Never
  /\ issued' = [issued EXCEPT ![t] = now]
  /\ UNCHANGED <<now, revoked, cache, call>>

Revoke(t) ==
  /\ Active(t)
  /\ revoked' = [revoked EXCEPT ![t] = now]
  /\ UNCHANGED <<now, issued, cache, call>>

Tick ==
  /\ now < MaxTime /\ now' = now + 1
  /\ UNCHANGED <<issued, revoked, cache, call>>

Init ==
  /\ now = 0
  /\ issued = [t \in Pats |-> Never]
  /\ revoked = [t \in Pats |-> Never]
  /\ cache = [t \in Pats |-> NoEntry]
  /\ call = [c \in Callers |->
               [step |-> "idle", token |-> NoToken, start |-> Never,
                user |-> 0, source |-> "none", outcome |-> "none", end |-> Never]]

Next ==
  \/ \E c \in Callers : Verify(c) \/ Judge(c) \/ Answered(c)
                        \/ TimeOut(c) \/ Unreachable(c)
  \/ \E t \in Pats : Issue(t) \/ Revoke(t)
  \/ Tick

Spec == Init /\ [][Next]_vars

\* Time passes and net/http's timer fires.  Nothing makes the service answer.
FairSpec == Spec /\ WF_vars(Tick) /\ \A c \in Callers : WF_vars(TimeOut(c))
-----------------------------------------------------------------------------
TypeOK ==
  /\ now \in Nat
  /\ issued \in [Pats -> Time]
  /\ revoked \in [Pats -> Time]
  /\ cache \in [Pats -> [user : Nat, until : Time]]
  /\ call \in [Callers -> CallState]

\* Revocation takes effect: a call is admitted only for a token that was active
\* at most TTL + Timeout ago, whatever answers were under way when the service
\* revoked it and in whatever order they arrive.  (TTL alone, the 60 seconds of
\* mcp_auth_design.md:63, is exceeded: an answer given before the revocation
\* counts from its arrival.)
RevocationBound == \A c \in Callers : call[c].outcome = "admitted" =>
  LET t == call[c].token
  IN t \in Pats /\ (revoked[t] = Never \/ call[c].end <= revoked[t] + TTL + Timeout)

\* A call acts as its own token's user, never as a user some other call's token
\* left in the cache.
ActsAsHolder == \A c \in Callers : call[c].outcome = "admitted" =>
  /\ call[c].token \in Pats
  /\ call[c].user = Holder[call[c].token] /\ call[c].user # 0

\* d was admitted by the service itself, for c's token, so shortly before c
\* began that c needed no further answer.
Covers(d, c) ==
  /\ call[d].token = call[c].token
  /\ call[d].source = "service" /\ call[d].outcome = "admitted"
  /\ call[d].end < call[c].start /\ call[c].start <= call[d].end + TTL

\* "Negative results are never cached: a token created moments ago must work
\* immediately" (pat_verifier.go:50).  The interceptor calls a token invalid
\* also when introspection fails.  But nothing else makes it refuse a user's
\* token that was active all through the call: not what another call was
\* answered, nor what this one was answered before; and not even a failure when
\* the token was verified for some call less than TTL before.
NoFalseRefusal == \A c \in Callers : call[c].outcome = "invalid" =>
  LET t == call[c].token
  IN \/ t = NoToken \/ Holder[t] = 0
     \/ issued[t] = Never \/ issued[t] >= call[c].start
     \/ revoked[t] # Never /\ revoked[t] <= call[c].end
     \/ call[c].source = "error" /\ \A d \in Callers : ~Covers(d, c)

\* A verification that asks the auth service ends although it never answers.
AllVerified == \A c \in Callers : call[c].step # "idle" ~> call[c].step = "idle"

-----------------------------------------------------------------------------
\* The inductive invariant behind RevocationBound, ActsAsHolder and
\* NoFalseRefusal: what is in the cache, and what is under way to it, comes
\* from a token that was active not long ago.
CacheOK == \A t \in Pats : cache[t].until # Never =>
  /\ cache[t].user = Holder[t] /\ cache[t].user # 0
  /\ issued[t] # Never /\ cache[t].until <= now + TTL
  /\ revoked[t] = Never \/ cache[t].until <= revoked[t] + Timeout + TTL

AnswerOK == \A c \in Callers : call[c].step # "idle" =>
  LET t == call[c].token
  IN /\ t \in Pats /\ call[c].outcome = "none"
     /\ call[c].start # Never /\ call[c].start <= now
     /\ call[c].step = "judged" =>
          IF call[c].user = 0
            THEN \/ Holder[t] = 0 \/ issued[t] = Never
                 \/ issued[t] >= call[c].start \/ revoked[t] # Never
            ELSE /\ call[c].user = Holder[t] /\ issued[t] # Never
                 /\ revoked[t] = Never \/ call[c].start <= revoked[t]

\* What the service confirmed stays in the cache for TTL, so that a call which
\* asks, or asked in vain, was covered by no earlier one.
Asks(c) == call[c].step # "idle" \/ call[c].source = "error"
KeptOK == \A d \in Callers :
  call[d].source = "service" /\ call[d].outcome = "admitted" =>
    /\ call[d].token \in Pats /\ call[d].end # Never
    /\ cache[call[d].token].until >= call[d].end + TTL
    /\ \A c \in Callers : Asks(c) => ~Covers(d, c)

\* Nothing has happened in the future.
PastOK ==
  /\ \A t \in Pats : issued[t] <= now /\ revoked[t] <= now
  /\ \A c \in Callers : call[c].start <= now /\ call[c].end <= now

VInv == /\ TypeOK /\ CacheOK /\ AnswerOK /\ KeptOK /\ PastOK
        /\ RevocationBound /\ ActsAsHolder /\ NoFalseRefusal
=============================================================================
