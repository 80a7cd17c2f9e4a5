----------------------------- MODULE SsoSession -----------------------------
(***************************************************************************)
(* The web client's token: auth.ts mints JWTs from the SSO session cookie, *)
(* at start-up, by a timer and when an RPC is refused; connect.ts sends    *)
(* RPCs with whatever token the page holds and retries once after a 401.   *)
(* Every fetch is a request that travels, is served and answers, while the *)
(* page goes on; what the page does between two awaits is one step.        *)
(***************************************************************************)
EXTENDS Integers

CONSTANTS
  Rpcs,       \* calls of callConnectRPC, each made once
  Mints,      \* places for calls of mintToken that are under way
  MaxMinted,  \* bound of the model: how many JWTs the auth service issues
  Faults      \* whether fetches may fail

ASSUME SsoAssumption == MaxMinted \in Nat \ {0} /\ Faults \in BOOLEAN

VARIABLES
  mode,      \* authState.mode
  cookie,    \* whether the SSO session at the auth service is alive
  minted,    \* number of JWTs issued; they are told apart by their number
  expired,   \* JWTs that have expired
  token,     \* authState.currentToken, 0 for none
  timers,    \* setTimeout timers that will call mintToken
  armed,     \* whether authState.remintTimer is one of them
  mint,      \* mint[m]: a call of mintToken
  rpc,       \* rpc[r]: a call of callConnectRPC
  leaving,   \* signOut waits for the auth service: "no", "asked" or "answered"
  failed     \* history: whether a mint of this page load has failed

page == <<token, timers, armed>>
outside == <<mode, cookie, minted, expired>>
vars == <<outside, page, mint, rpc, leaving, failed>>

Nobody == "nobody"   \* a mint that no RPC waits for
ASSUME NobodyAssumption == Nobody \notin Rpcs
FreeMint == [step |-> "free", caller |-> Nobody, got |-> 0]
Unauthorized == 0    \* mint[m].got: HTTP 401
Failed == -1         \* mint[m].got: another failure

FirstTry == [step |-> "idle", token |-> 0, again |-> FALSE, status |-> "none",
             sends |-> 0, ran |-> 0]

AskMint(m, caller) == mint' = [mint EXCEPT ![m] = [FreeMint EXCEPT !.step = "asked", !.caller = caller]]

Live(n) == IF armed THEN n - 1 ELSE n   \* clearTimeout(authState.remintTimer)

-----------------------------------------------------------------------------
\* Variant: the timer is left running.
ClearAuthKeepsTimer == token' = 0 /\ UNCHANGED <<timers, armed>>

\* Variant: a token is renewed once.
ScheduleRemintOnce == timers' = Live(timers) + (IF token = 0 THEN 1 ELSE 0)
                      /\ armed' = (token = 0)

ScheduleRemint == timers' = Live(timers) + 1 /\ armed' = TRUE
ClearAuth == token' = 0 /\ timers' = Live(timers) /\ armed' = FALSE

\* The timer fires; remintTimer still names it, which no longer matters.
TimerFires(m) ==
  /\ timers > 0 /\ mint[m].step = "free"
  /\ timers' = timers - 1 /\ armed' = (armed /\ timers > 1)
  /\ AskMint(m, Nobody)
  /\ UNCHANGED <<outside, token, rpc, leaving, failed>>

\* GET /auth/token at the auth service.
ServeMint(m) ==
  /\ mint[m].step = "asked"
  /\ cookie => minted < MaxMinted
  /\ minted' = IF cookie THEN minted + 1 ELSE minted
  /\ mint' = [mint EXCEPT ![m].step = "answered",
                          ![m].got = IF cookie THEN minted' ELSE Unauthorized]
  /\ UNCHANGED <<mode, cookie, expired, page, rpc, leaving, failed>>

FailMint(m) ==
  /\ Faults /\ mint[m].step = "asked"
  /\ mint' = [mint EXCEPT ![m].step = "answered", ![m].got = Failed]
  /\ failed' = TRUE
  /\ UNCHANGED <<outside, page, rpc, leaving>>

Done(r, status) == [rpc EXCEPT ![r].step = "done", ![r].status = status]

\* Variant: isRetry is not passed on.
ResendEndlessly(r, t) ==
  [rpc EXCEPT ![r].step = "sent", ![r].token = t, ![r].sends = @ + 1]

\* callConnectRPC calls itself with isRetry = true.
Resend(r, t) ==
  [rpc EXCEPT ![r].step = "sent", ![r].again = TRUE, ![r].token = t, ![r].sends = @ + 1]

\* mintToken goes on with the response, and so does the RPC that waits for it.
MintToken(m) == LET got == mint[m].got  r == mint[m].caller IN
  /\ mint[m].step = "answered"
  /\ CASE got = Failed -> UNCHANGED page
       [] got = Unauthorized -> ClearAuth
       [] OTHER -> token' = got /\ ScheduleRemint
  /\ rpc' = IF r = Nobody THEN rpc
            ELSE IF got \in {Failed, Unauthorized} THEN Done(r, "401")
            ELSE Resend(r, got)
  /\ mint' = [mint EXCEPT ![m] = FreeMint]
  /\ UNCHANGED <<outside, leaving, failed>>

-----------------------------------------------------------------------------
\* callConnectRPC with the token of this moment.
Call(r) ==
  /\ rpc[r].step = "idle"
  /\ rpc' = [rpc EXCEPT ![r].step = "sent", ![r].token = token, ![r].sends = 1]
  /\ UNCHANGED <<outside, page, mint, leaving, failed>>

\* notes-server: 401 unless the token is good, else the handler runs.
Accepted(t) == t # 0 /\ t \notin expired
ServeRpc(r) ==
  /\ rpc[r].step = "sent"
  /\ rpc' = [rpc EXCEPT ![r].step = "answered",
               ![r].status = IF Accepted(rpc[r].token) THEN "ok" ELSE "401",
               ![r].ran = IF Accepted(rpc[r].token) THEN @ + 1 ELSE @]
  /\ UNCHANGED <<outside, page, mint, leaving, failed>>

\* The request or its response is lost, or the handler answers with another
\* error.
LoseRpc(r) ==
  /\ Faults /\ rpc[r].step \in {"sent", "answered"} /\ rpc[r].status # "failed"
  /\ rpc' = [rpc EXCEPT ![r].step = "answered", ![r].status = "failed"]
  /\ UNCHANGED <<outside, page, mint, leaving, failed>>

\* Variant: any failure is worth a retry.
WorthRetryAny(r) == rpc[r].status # "ok" /\ mode = "jwt" /\ ~rpc[r].again

WorthRetry(r) == rpc[r].status = "401" /\ mode = "jwt" /\ ~rpc[r].again

\* callConnectRPC goes on with the response.
Answer(r) ==
  /\ rpc[r].step = "answered"
  /\ IF WorthRetry(r)
       THEN \E m \in Mints :
              /\ mint[m].step = "free" /\ AskMint(m, r)
              /\ rpc' = [rpc EXCEPT ![r].step = "minting"]
       ELSE rpc' = Done(r, rpc[r].status) /\ UNCHANGED mint
  /\ UNCHANGED <<outside, page, leaving, failed>>

-----------------------------------------------------------------------------
\* "Sign out" is shown while the page is connected.
SignOut ==
  /\ mode = "jwt" /\ token # 0 /\ leaving = "no"
  /\ leaving' = "asked"
  /\ UNCHANGED <<outside, page, mint, rpc, failed>>

ServeLogout ==
  /\ leaving = "asked" /\ leaving' = "answered"
  /\ \/ cookie' = FALSE
     \/ Faults /\ UNCHANGED cookie
  /\ UNCHANGED <<mode, minted, expired, page, mint, rpc, failed>>

\* Whether or not the auth service could be told.
SignedOut ==
  /\ leaving = "answered" /\ leaving' = "no" /\ ClearAuth
  /\ UNCHANGED <<outside, mint, rpc, failed>>

\* The login page sends the browser back: the page is loaded anew and mints.
SignIn(m) ==
  /\ mode = "jwt" /\ token = 0
  /\ cookie' = TRUE
  /\ timers' = 0 /\ armed' = FALSE /\ leaving' = "no" /\ failed' = FALSE
  /\ mint' = [x \in Mints |-> IF x = m THEN [FreeMint EXCEPT !.step = "asked"] ELSE FreeMint]
  /\ rpc' = [r \in Rpcs |-> IF rpc[r].step = "idle" THEN rpc[r]
                            ELSE [rpc[r] EXCEPT !.step = "done"]]
  /\ UNCHANGED <<mode, minted, expired, token>>

\* dev mode: a static token is entered or dropped.
DevToken ==
  /\ mode = "dev"
  /\ IF token = 0 THEN token' = 1 /\ UNCHANGED <<timers, armed>> ELSE ClearAuth
  /\ UNCHANGED <<outside, mint, rpc, leaving, failed>>

\* JWTs and SSO sessions expire.
Expire == \E t \in 1 .. minted \ expired :
  /\ mode = "jwt" /\ expired' = expired \cup {t}
  /\ UNCHANGED <<mode, cookie, minted, page, mint, rpc, leaving, failed>>
EndSession ==
  /\ cookie /\ cookie' = FALSE
  /\ UNCHANGED <<mode, minted, expired, page, mint, rpc, leaving, failed>>

\* bootstrap: in jwt mode the page starts with a mint, in dev mode without.
Init ==
  /\ mode \in {"jwt", "dev"}
  /\ cookie \in BOOLEAN
  /\ minted = 0 /\ expired = {}
  /\ token = 0 /\ timers = 0 /\ armed = FALSE
  /\ \E boot \in Mints : mint = [m \in Mints |->
       IF m = boot /\ mode = "jwt" THEN [FreeMint EXCEPT !.step = "asked"] ELSE FreeMint]
  /\ rpc = [r \in Rpcs |-> FirstTry]
  /\ leaving = "no" /\ failed = FALSE

Next ==
  \/ \E m \in Mints :
       TimerFires(m) \/ ServeMint(m) \/ FailMint(m) \/ MintToken(m) \/ SignIn(m)
  \/ \E r \in Rpcs : Call(r) \/ ServeRpc(r) \/ LoseRpc(r) \/ Answer(r)
  \/ SignOut \/ ServeLogout \/ SignedOut
  \/ DevToken \/ Expire \/ EndSession

Spec == Init /\ [][Next]_vars

\* Timers fire, and the auth service answers; users need not do anything.
FairSpec ==
  /\ Spec
  /\ \A m \in Mints : WF_vars(TimerFires(m) \/ ServeMint(m) \/ MintToken(m))
-----------------------------------------------------------------------------
TypeOK ==
  /\ mode \in {"jwt", "dev"} /\ cookie \in BOOLEAN
  /\ minted \in 0 .. MaxMinted /\ expired \subseteq 1 .. minted
  /\ token \in 0 .. MaxMinted /\ timers \in Nat /\ armed \in BOOLEAN
  /\ mint \in [Mints -> [step : {"free", "asked", "answered"},
                         caller : Rpcs \cup {Nobody}, got : -1 .. MaxMinted]]
  /\ rpc \in [Rpcs -> [step : {"idle", "sent", "answered", "minting", "done"},
                       token : 0 .. MaxMinted, again : BOOLEAN,
                       status : {"none", "ok", "401", "failed"},
                       sends : Nat, ran : Nat]]
  /\ leaving \in {"no", "asked", "answered"} /\ failed \in BOOLEAN

\* However mints by timer, by RPCs and sign-outs overlap, at most one timer is
\* running, it is the one the page can clear, and a page without a token runs
\* none: it does not sign itself in again.
OneTimer ==
  /\ timers = (IF armed THEN 1 ELSE 0)
  /\ token = 0 => timers = 0

\* A retry never repeats a call that the server carried out.
CarriedOutOnce == \A r \in Rpcs : rpc[r].ran <= 1

\* "a single 401 triggers silent re-mint and one automatic retry"
\* (connect.ts:5): with another token than the one refused, and never again.
OneRetry ==
  [][\A r \in Rpcs : rpc[r].sends > 0 /\ rpc'[r].sends # rpc[r].sends =>
       /\ rpc'[r].sends <= 2
       /\ rpc'[r].token \notin {0, rpc[r].token}]_vars

\* Unless a mint fails, a page whose SSO session has ended stops showing itself
\* as connected, although nobody uses it.
EndNoticed == mode = "jwt" /\ ~cookie ~> token = 0 \/ cookie \/ failed
-----------------------------------------------------------------------------
\* The inductive invariant behind the safety properties above.

\* An RPC waits for one mint, which brings a newer JWT than the one refused.
MintsAwaited == \A m \in Mints : LET r == mint[m].caller IN
  r # Nobody =>
    /\ rpc[r].step = "minting"
    /\ \A k \in Mints \ {m} : mint[k].caller # r
    /\ mint[m].got > 0 => mint[m].got > rpc[r].token

\* An RPC that may be sent yet has not been carried out, and one that waits for
\* a mint has been sent once.
NotCarriedOutYet == \A r \in Rpcs :
  /\ rpc[r].step = "idle" => rpc[r] = FirstTry
  /\ rpc[r].step \in {"sent", "minting"} => rpc[r].ran = 0
  /\ rpc[r].step = "answered" /\ rpc[r].status = "401" => rpc[r].ran = 0
  /\ rpc[r].step = "minting" => ~rpc[r].again
  /\ ~rpc[r].again => rpc[r].sends <= 1

\* JWTs in use have been issued; dev mode neither mints nor waits to.
TokensIssued ==
  /\ \A m \in Mints : mint[m].got <= minted
  /\ mode = "jwt" => token <= minted /\ \A r \in Rpcs : rpc[r].token <= minted
  /\ mode = "dev" => timers = 0 /\ \A m \in Mints : mint[m].step = "free"

SessionInv ==
  /\ TypeOK /\ MintsAwaited /\ NotCarriedOutYet /\ TokensIssued
  /\ OneTimer /\ CarriedOutOnce

-----------------------------------------------------------------------------
\* "refreshes them automatically before they expire" (README.md:59): while the
\* page holds a JWT, a renewal is scheduled or under way.
RenewalScheduled ==
  mode = "jwt" /\ token # 0 => timers > 0 \/ \E m \in Mints : mint[m].step # "free"
=============================================================================
