-------------------------- MODULE SsoSessionProofs --------------------------
(***************************************************************************)
(* Proofs about SsoSession, for any number of RPCs and of mints under way  *)
(* at once, and any number of JWTs.  The argument is the inductive         *)
(* invariant SessionInv.                                                   *)
(***************************************************************************)
EXTENDS SsoSession, TLAPS

Rpc == [step : {"idle", "sent", "answered", "minting", "done"},
        token : 0 .. MaxMinted, again : BOOLEAN,
        status : {"none", "ok", "401", "failed"}, sends : Nat, ran : Nat]
Minting == [step : {"free", "asked", "answered"},
            caller : Rpcs \cup {Nobody}, got : -1 .. MaxMinted]

LEMMA MaxMintedType == MaxMinted \in Nat \ {0}
BY SsoAssumption

LEMMA TypeParts ==
  ASSUME TypeOK
  PROVE  /\ mode \in {"jwt", "dev"} /\ minted \in Nat /\ minted <= MaxMinted
         /\ token \in Nat /\ timers \in Nat /\ armed \in BOOLEAN
         /\ mint \in [Mints -> Minting] /\ rpc \in [Rpcs -> Rpc]
         /\ \A m \in Mints : mint[m].got \in Int
         /\ \A r \in Rpcs : rpc[r].token \in Nat
BY MaxMintedType DEF TypeOK, Rpc, Minting

LEMMA FirstTryType == FirstTry \in Rpc
BY MaxMintedType DEF FirstTry, Rpc

LEMMA FreeMintType ==
  /\ FreeMint \in Minting /\ FreeMint.step = "free"
  /\ FreeMint.caller = Nobody /\ FreeMint.got = 0
BY MaxMintedType DEF FreeMint, Minting

\* A call of mintToken begins.
LEMMA Asking ==
  ASSUME TypeOK, NEW m \in Mints, NEW c \in Rpcs \cup {Nobody}, AskMint(m, c)
  PROVE  /\ mint' \in [Mints -> Minting]
         /\ mint'[m].step = "asked" /\ mint'[m].caller = c /\ mint'[m].got = 0
         /\ \A k \in Mints \ {m} : mint'[k] = mint[k]
<1> DEFINE asked == [FreeMint EXCEPT !.step = "asked", !.caller = c]
<1>1. asked.step = "asked" /\ asked.caller = c /\ asked.got = 0
  BY FreeMintType DEF Minting
<1>2. asked \in Minting
  BY FreeMintType DEF Minting
<1>3. mint' = [mint EXCEPT ![m] = asked] /\ mint \in [Mints -> Minting]
  BY TypeParts DEF AskMint
<1> HIDE DEF asked
<1>. QED  BY <1>1, <1>2, <1>3

\* An RPC is sent again with the JWT that was minted for it.
LEMMA Resending ==
  ASSUME TypeOK, NEW r \in Rpcs, NEW t \in 0 .. MaxMinted, rpc' = Resend(r, t)
  PROVE  /\ rpc' \in [Rpcs -> Rpc]
         /\ rpc'[r].step = "sent" /\ rpc'[r].again = TRUE /\ rpc'[r].token = t
         /\ rpc'[r].sends = rpc[r].sends + 1
         /\ rpc'[r].ran = rpc[r].ran /\ rpc'[r].status = rpc[r].status
         /\ \A q \in Rpcs \ {r} : rpc'[q] = rpc[q]
<1>1. rpc \in [Rpcs -> Rpc] /\ rpc[r] \in Rpc
  BY TypeParts
<1>2. rpc[r].sends + 1 \in Nat /\ TRUE \in BOOLEAN
  BY <1>1 DEF Rpc
<1>3. /\ rpc'[r].step = "sent" /\ rpc'[r].again = TRUE /\ rpc'[r].token = t
      /\ rpc'[r].sends = rpc[r].sends + 1
      /\ rpc'[r].ran = rpc[r].ran /\ rpc'[r].status = rpc[r].status
      /\ \A q \in Rpcs \ {r} : rpc'[q] = rpc[q]
  BY <1>1 DEF Resend, Rpc
<1>4. rpc' \in [Rpcs -> Rpc]
  BY <1>1, <1>2 DEF Resend, Rpc
<1>. QED  BY <1>3, <1>4

\* An RPC ends.
LEMMA Ending ==
  ASSUME TypeOK, NEW r \in Rpcs, NEW status \in {"none", "ok", "401", "failed"},
         rpc' = Done(r, status)
  PROVE  /\ rpc' \in [Rpcs -> Rpc]
         /\ rpc'[r].step = "done" /\ rpc'[r].again = rpc[r].again
         /\ rpc'[r].token = rpc[r].token /\ rpc'[r].sends = rpc[r].sends
         /\ rpc'[r].ran = rpc[r].ran
         /\ \A q \in Rpcs \ {r} : rpc'[q] = rpc[q]
<1>1. rpc \in [Rpcs -> Rpc] /\ rpc[r] \in Rpc
  BY TypeParts
<1>. QED  BY <1>1 DEF Done, Rpc

LEMMA InitSession == Init => SessionInv
<1> SUFFICES ASSUME Init PROVE SessionInv
  OBVIOUS
<1>1. PICK boot \in Mints : mint = [m \in Mints |->
        IF m = boot /\ mode = "jwt" THEN [FreeMint EXCEPT !.step = "asked"] ELSE FreeMint]
  BY DEF Init
<1> DEFINE asked == [FreeMint EXCEPT !.step = "asked"]
<1>2. asked \in Minting /\ asked.caller = Nobody /\ asked.got = 0
  BY FreeMintType DEF Minting
<1> HIDE DEF asked
<1>3. /\ mint \in [Mints -> Minting]
      /\ \A m \in Mints : mint[m].caller = Nobody /\ mint[m].got = 0
      /\ mode = "dev" => \A m \in Mints : mint[m].step = "free"
  BY <1>1, <1>2, FreeMintType DEF asked
<1>4. rpc \in [Rpcs -> Rpc] /\ \A r \in Rpcs : rpc[r] = FirstTry
  BY FirstTryType DEF Init
<1>5. TypeOK
  <2>1. minted \in 0 .. MaxMinted /\ expired \subseteq 1 .. minted /\ token \in 0 .. MaxMinted
    BY MaxMintedType DEF Init
  <2>. QED  BY <1>3, <1>4, <2>1 DEF Init, TypeOK, Rpc, Minting
<1>6. MintsAwaited
  BY <1>3 DEF MintsAwaited
<1>7. NotCarriedOutYet /\ CarriedOutOnce
  BY <1>4 DEF NotCarriedOutYet, CarriedOutOnce, FirstTry
<1>8. TokensIssued
  BY <1>3, <1>4 DEF Init, TokensIssued, FirstTry
<1>. QED  BY <1>5, <1>6, <1>7, <1>8 DEF Init, SessionInv, OneTimer

\* What is known of one RPC, and of one mint.
LEMMA RpcParts ==
  ASSUME SessionInv, NEW r \in Rpcs
  PROVE  /\ rpc[r] \in Rpc /\ rpc[r].ran \in Nat /\ rpc[r].sends \in Nat
         /\ rpc[r].step = "idle" => rpc[r] = FirstTry
         /\ rpc[r].step \in {"sent", "minting"} => rpc[r].ran = 0
         /\ rpc[r].step = "answered" /\ rpc[r].status = "401" => rpc[r].ran = 0
         /\ rpc[r].step = "minting" => ~rpc[r].again
         /\ ~rpc[r].again => rpc[r].sends <= 1
         /\ rpc[r].ran <= 1
         /\ mode = "jwt" => rpc[r].token <= minted
BY TypeParts DEF SessionInv, NotCarriedOutYet, CarriedOutOnce, TokensIssued, Rpc

LEMMA MintParts ==
  ASSUME SessionInv, NEW m \in Mints
  PROVE  /\ mint[m] \in Minting /\ mint[m].got \in Int /\ mint[m].got <= minted
         /\ mint[m].step # "free" => mode = "jwt"
         /\ mint[m].caller # Nobody =>
              /\ mint[m].caller \in Rpcs
              /\ rpc[mint[m].caller].step = "minting"
              /\ \A k \in Mints \ {m} : mint[k].caller # mint[m].caller
              /\ mint[m].got > 0 => mint[m].got > rpc[mint[m].caller].token
BY TypeParts DEF SessionInv, MintsAwaited, TokensIssued, TypeOK, Minting

\* A step of the server, of the network or of a mint leaves the page alone.
LEMMA OneTimerStays ==
  ASSUME OneTimer, UNCHANGED page
  PROVE  OneTimer'
BY DEF OneTimer, page

LEMMA RpcsStay ==
  ASSUME SessionInv, UNCHANGED rpc
  PROVE  NotCarriedOutYet' /\ CarriedOutOnce'
BY DEF SessionInv, NotCarriedOutYet, CarriedOutOnce

LEMMA TimerFiresKeeps ==
  ASSUME SessionInv, NEW m \in Mints, TimerFires(m)
  PROVE  SessionInv'
<1> USE DEF SessionInv
<1>1. /\ mint' \in [Mints -> Minting]
      /\ mint'[m].step = "asked" /\ mint'[m].caller = Nobody /\ mint'[m].got = 0
      /\ \A k \in Mints \ {m} : mint'[k] = mint[k]
  BY Asking DEF TimerFires
<1>2. TypeOK'
  <2>1. UNCHANGED outside /\ UNCHANGED <<token, rpc, leaving, failed>>
    BY DEF TimerFires
  <2>2. timers' \in Nat
    BY TypeParts DEF TimerFires
  <2>3. armed' \in BOOLEAN
    BY Zenon DEF TimerFires
  <2>. QED  BY <1>1, <2>1, <2>2, <2>3 DEF TypeOK, Minting, outside
<1>3. MintsAwaited'
  BY <1>1, MintParts DEF TimerFires, MintsAwaited
<1>4. TokensIssued'
  BY <1>1, MintParts, TypeParts DEF TimerFires, TokensIssued, outside
<1>5. OneTimer'
  <2>1. timers = 1
    BY TypeParts DEF TimerFires, OneTimer
  <2>2. timers' = 0
    BY <2>1 DEF TimerFires
  <2>3. ~(timers > 1)
    BY <2>1
  <2>4. ~armed'
    BY <2>3, Zenon DEF TimerFires
  <2>. QED  BY <2>2, <2>4 DEF OneTimer
<1>. QED  BY <1>2, <1>3, <1>4, <1>5, RpcsStay DEF TimerFires

\* A call of mintToken gets its answer.
LEMMA Answering ==
  ASSUME TypeOK, NEW m \in Mints, NEW got \in -1 .. MaxMinted,
         mint' = [mint EXCEPT ![m].step = "answered", ![m].got = got]
  PROVE  /\ mint' \in [Mints -> Minting]
         /\ mint'[m].step = "answered" /\ mint'[m].caller = mint[m].caller
         /\ mint'[m].got = got
         /\ \A k \in Mints \ {m} : mint'[k] = mint[k]
<1>1. mint \in [Mints -> Minting] /\ mint[m] \in Minting
  BY TypeParts
<1>2. \A k \in Mints : mint[k] \in Minting
  BY <1>1
<1>3. /\ mint'[m].step = "answered" /\ mint'[m].caller = mint[m].caller
      /\ mint'[m].got = got
      /\ \A k \in Mints \ {m} : mint'[k] = mint[k]
  BY <1>1 DEF Minting
<1>4. mint' \in [Mints -> Minting]
  BY <1>1 DEF Minting
<1>. QED  BY <1>3, <1>4

\* The auth service answers.
LEMMA ServeMintKeeps ==
  ASSUME SessionInv, NEW m \in Mints, ServeMint(m)
  PROVE  SessionInv'
<1> USE DEF SessionInv
<1>1. minted \in Nat /\ minted' \in Nat /\ minted <= minted' /\ minted' <= MaxMinted
      /\ MaxMinted \in Nat
  BY TypeParts, MaxMintedType DEF ServeMint
<1> DEFINE got == IF cookie THEN minted' ELSE Unauthorized
<1>2. /\ got \in -1 .. MaxMinted
      /\ got = 0 \/ (got = minted + 1 /\ minted' = minted + 1)
  BY <1>1 DEF ServeMint, Unauthorized
<1>11. mint' = [mint EXCEPT ![m].step = "answered", ![m].got = got]
  BY DEF ServeMint
<1> HIDE DEF got
<1>3. /\ mint' \in [Mints -> Minting]
      /\ mint'[m].step = "answered" /\ mint'[m].caller = mint[m].caller
      /\ mint'[m].got = got
      /\ \A k \in Mints \ {m} : mint'[k] = mint[k]
  BY <1>2, <1>11, Answering
<1>4. UNCHANGED page /\ UNCHANGED <<mode, cookie, expired, rpc, leaving, failed>>
  BY DEF ServeMint
<1>5. TypeOK'
  <2>1. expired' \subseteq 1 .. minted'
    BY <1>1, <1>4 DEF TypeOK
  <2>. QED  BY <1>1, <1>3, <1>4, <2>1 DEF TypeOK, Minting, page
<1>6. mode = "jwt"
  BY MintParts DEF ServeMint
<1>7. MintsAwaited'
  <2> SUFFICES ASSUME NEW k \in Mints, mint'[k].caller # Nobody
               PROVE  /\ rpc'[mint'[k].caller].step = "minting"
                      /\ \A n \in Mints \ {k} : mint'[n].caller # mint'[k].caller
                      /\ mint'[k].got > 0 => mint'[k].got > rpc'[mint'[k].caller].token
    BY DEF MintsAwaited
  <2>1. \A n \in Mints : mint'[n].caller = mint[n].caller
    BY <1>3
  <2>2. mint[k].caller \in Rpcs /\ rpc[mint[k].caller].token <= minted
        /\ rpc[mint[k].caller].token \in Nat
    BY <1>6, <2>1, MintParts, RpcParts, TypeParts
  <2>. QED  BY <1>1, <1>2, <1>3, <1>4, <2>1, <2>2, MintParts
<1>8. TokensIssued'
  <2>1. \A k \in Mints : mint'[k].got <= minted'
    BY <1>1, <1>2, <1>3, MintParts
  <2>2. token <= minted /\ \A r \in Rpcs : rpc[r].token <= minted
    BY <1>6 DEF TokensIssued
  <2>3. token <= minted' /\ \A r \in Rpcs : rpc[r].token <= minted'
    BY <1>1, <2>2, TypeParts
  <2>. QED  BY <1>4, <1>6, <2>1, <2>3 DEF TokensIssued, page
<1>. QED  BY <1>4, <1>5, <1>7, <1>8, RpcsStay, OneTimerStays

LEMMA FailMintKeeps ==
  ASSUME SessionInv, NEW m \in Mints, FailMint(m)
  PROVE  SessionInv'
<1> USE DEF SessionInv
<1>1. /\ mint' \in [Mints -> Minting]
      /\ mint'[m].step = "answered" /\ mint'[m].caller = mint[m].caller
      /\ mint'[m].got = -1
      /\ \A k \in Mints \ {m} : mint'[k] = mint[k]
  <2>1. -1 \in -1 .. MaxMinted
    BY MaxMintedType
  <2>. QED  BY <2>1, Answering DEF FailMint, Failed
<1>3. UNCHANGED page /\ UNCHANGED outside /\ UNCHANGED rpc /\ UNCHANGED leaving
      /\ failed' = TRUE
  BY DEF FailMint
<1>4. TypeOK'
  BY <1>1, <1>3 DEF TypeOK, Minting, page, outside
<1>5. MintsAwaited'
  BY <1>1, <1>3, MintParts DEF MintsAwaited
<1>6. TokensIssued'
  <2>1. mode = "jwt"
    BY MintParts DEF FailMint
  <2>2. \A k \in Mints : mint'[k].got <= minted
    BY <1>1, MintParts, TypeParts
  <2>. QED  BY <1>3, <2>1, <2>2 DEF TokensIssued, page, outside
<1>. QED  BY <1>3, <1>4, <1>5, <1>6, RpcsStay, OneTimerStays

\* After clearTimeout no timer is left.
LEMMA LiveNone ==
  ASSUME OneTimer
  PROVE  Live(timers) = 0
BY DEF OneTimer, Live

LEMMA Clearing ==
  ASSUME OneTimer, ClearAuth
  PROVE  token' = 0 /\ timers' = 0 /\ armed' = FALSE
BY LiveNone DEF ClearAuth

\* A mint without a token ends its RPC, one with a token sends it again.
LEMMA MintTokenPage ==
  ASSUME SessionInv, NEW m \in Mints, MintToken(m)
  PROVE  /\ OneTimer' /\ timers' \in Nat /\ armed' \in BOOLEAN
         /\ token' \in 0 .. MaxMinted /\ (mode = "jwt" => token' <= minted)
<1> USE DEF SessionInv
<1> DEFINE got == mint[m].got
<1>1. got \in Int /\ got <= minted /\ got \in -1 .. MaxMinted
  BY MintParts DEF Minting
<1>2. token \in 0 .. MaxMinted /\ (mode = "jwt" => token <= minted) /\ armed \in BOOLEAN
      /\ timers \in Nat /\ minted \in Nat
  BY TypeParts DEF TypeOK, TokensIssued
<1>3. CASE got = Failed
  <2>1. UNCHANGED page
    BY <1>3 DEF MintToken, Failed, Unauthorized
  <2>. QED  BY <1>2, <2>1, OneTimerStays DEF page
<1>4. CASE got = Unauthorized
  <2>1. ClearAuth
    BY <1>4 DEF MintToken, Failed, Unauthorized
  <2>2. token' = 0 /\ timers' = 0 /\ armed' = FALSE
    BY <2>1, Clearing
  <2>3. OneTimer' /\ timers' \in Nat /\ token' \in 0 .. MaxMinted
    BY <2>2, MaxMintedType DEF OneTimer
  <2>4. armed' \in BOOLEAN
    BY <2>2
  <2>. QED  BY <1>2, <2>2, <2>3, <2>4
<1>5. CASE got # Failed /\ got # Unauthorized
  <2>1. token' = got /\ ScheduleRemint
    BY <1>5 DEF MintToken
  <2>2. timers' = 1 /\ armed' = TRUE
    BY <2>1, LiveNone DEF ScheduleRemint
  <2>3. got > 0
    BY <1>1, <1>5 DEF Failed, Unauthorized
  <2>. QED  BY <1>1, <2>1, <2>2, <2>3 DEF OneTimer
<1>. QED  BY <1>3, <1>4, <1>5

LEMMA MintTokenRpc ==
  ASSUME SessionInv, NEW m \in Mints, MintToken(m)
  PROVE  LET r == mint[m].caller  got == mint[m].got IN
         /\ rpc' \in [Rpcs -> Rpc]
         /\ \A q \in Rpcs \ {r} : rpc'[q] = rpc[q]
         /\ r # Nobody =>
              /\ r \in Rpcs /\ rpc[r].step = "minting" /\ rpc'[r].ran = rpc[r].ran
              /\ \/ /\ rpc'[r].step = "done" /\ rpc'[r].again = rpc[r].again
                    /\ rpc'[r].token = rpc[r].token /\ rpc'[r].sends = rpc[r].sends
                 \/ /\ rpc'[r].step = "sent" /\ rpc'[r].again = TRUE
                    /\ rpc'[r].token = got /\ got > rpc[r].token /\ got > 0
                    /\ rpc'[r].sends = rpc[r].sends + 1
<1> USE DEF SessionInv
<1> DEFINE r == mint[m].caller
           got == mint[m].got
<1>1. got \in Int /\ got \in -1 .. MaxMinted
  BY MintParts DEF Minting
<1>2. CASE r = Nobody
  <2>1. rpc' = rpc
    BY <1>2 DEF MintToken
  <2>. QED  BY <1>2, <2>1, TypeParts
<1>3. CASE r # Nobody
  <2>1. r \in Rpcs /\ rpc[r].step = "minting" /\ (got > 0 => got > rpc[r].token)
    BY <1>3, MintParts
  <2>2. CASE got \in {Failed, Unauthorized}
    <3>1. rpc' = Done(r, "401")
      BY <1>3, <2>2 DEF MintToken
    <3>2. r \in Rpcs
      BY <2>1
    <3>. HIDE DEF r
    <3>3. /\ rpc' \in [Rpcs -> Rpc]
          /\ rpc'[r].step = "done" /\ rpc'[r].again = rpc[r].again
          /\ rpc'[r].token = rpc[r].token /\ rpc'[r].sends = rpc[r].sends
          /\ rpc'[r].ran = rpc[r].ran
          /\ \A q \in Rpcs \ {r} : rpc'[q] = rpc[q]
      BY <3>1, <3>2, Ending
    <3>. QED  BY <2>1, <3>3 DEF r
  <2>3. CASE got \notin {Failed, Unauthorized}
    <3>1. rpc' = Resend(r, got)
      BY <1>3, <2>3 DEF MintToken
    <3>2. got > 0 /\ got \in 0 .. MaxMinted
      BY <1>1, <2>3 DEF Failed, Unauthorized
    <3>3. r \in Rpcs
      BY <2>1
    <3>. HIDE DEF r, got
    <3>4. /\ rpc' \in [Rpcs -> Rpc]
          /\ rpc'[r].step = "sent" /\ rpc'[r].again = TRUE /\ rpc'[r].token = got
          /\ rpc'[r].sends = rpc[r].sends + 1
          /\ rpc'[r].ran = rpc[r].ran
          /\ \A q \in Rpcs \ {r} : rpc'[q] = rpc[q]
      BY <3>1, <3>2, <3>3, Resending
    <3>. QED  BY <2>1, <3>2, <3>4 DEF r, got
  <2>. QED  BY <2>2, <2>3
<1>. QED  BY <1>2, <1>3

LEMMA MintTokenKeeps ==
  ASSUME SessionInv, NEW m \in Mints, MintToken(m)
  PROVE  SessionInv'
<1> USE DEF SessionInv
<1> DEFINE r == mint[m].caller
           got == mint[m].got
<1>1. /\ mint' \in [Mints -> Minting]
      /\ mint'[m].step = "free" /\ mint'[m].caller = Nobody /\ mint'[m].got = 0
      /\ \A k \in Mints \ {m} : mint'[k] = mint[k]
  BY TypeParts, FreeMintType DEF MintToken
<1>2. UNCHANGED <<outside, leaving, failed>>
  BY DEF MintToken
<1>3. /\ rpc' \in [Rpcs -> Rpc]
      /\ \A q \in Rpcs \ {r} : rpc'[q] = rpc[q]
      /\ r # Nobody =>
           /\ r \in Rpcs /\ rpc[r].step = "minting" /\ rpc'[r].ran = rpc[r].ran
           /\ \/ /\ rpc'[r].step = "done" /\ rpc'[r].again = rpc[r].again
                 /\ rpc'[r].token = rpc[r].token /\ rpc'[r].sends = rpc[r].sends
              \/ /\ rpc'[r].step = "sent" /\ rpc'[r].again = TRUE
                 /\ rpc'[r].token = got /\ rpc'[r].sends = rpc[r].sends + 1
  BY MintTokenRpc
<1>4. TypeOK'
  BY <1>1, <1>2, <1>3, MintTokenPage DEF TypeOK, Rpc, Minting, outside
<1>5. MintsAwaited'
  <2> SUFFICES ASSUME NEW k \in Mints, mint'[k].caller # Nobody
               PROVE  /\ rpc'[mint'[k].caller].step = "minting"
                      /\ \A n \in Mints \ {k} : mint'[n].caller # mint'[k].caller
                      /\ mint'[k].got > 0 => mint'[k].got > rpc'[mint'[k].caller].token
    BY DEF MintsAwaited
  <2>1. k # m /\ mint'[k] = mint[k]
    BY <1>1
  <2>2. mint[k].caller \in Rpcs \ {r}
    BY <2>1, MintParts
  <2>. QED  BY <1>1, <1>3, <2>1, <2>2, MintParts
<1>6. \A q \in Rpcs : rpc[q] \in Rpc /\ rpc[q].ran \in Nat /\ rpc[q].sends \in Nat
  BY RpcParts
<1>7. NotCarriedOutYet' /\ CarriedOutOnce'
  <2> SUFFICES ASSUME NEW q \in Rpcs
               PROVE  /\ rpc'[q].step = "idle" => rpc'[q] = FirstTry
                      /\ rpc'[q].step \in {"sent", "minting"} => rpc'[q].ran = 0
                      /\ rpc'[q].step = "answered" /\ rpc'[q].status = "401"
                           => rpc'[q].ran = 0
                      /\ rpc'[q].step = "minting" => ~rpc'[q].again
                      /\ ~rpc'[q].again => rpc'[q].sends <= 1
                      /\ rpc'[q].ran <= 1
    BY DEF NotCarriedOutYet, CarriedOutOnce
  <2>1. CASE q # r
    BY <1>3, <2>1, RpcParts
  <2>2. CASE q = r
    <3>1. r # Nobody
      BY <2>2, NobodyAssumption
    <3>. HIDE DEF r
    <3>. QED  BY <1>3, <1>6, <2>2, <3>1, RpcParts
  <2>. QED  BY <2>1, <2>2
<1>8. TokensIssued'
  <2>1. \A k \in Mints : mint'[k].got <= minted
    BY <1>1, MintParts, TypeParts
  <2>2. mode = "jwt" => token' <= minted
    BY MintTokenPage
  <2>3. mode = "jwt" => \A q \in Rpcs : rpc'[q].token <= minted
    <3>1. got <= minted
      BY MintParts
    <3>. HIDE DEF r, got
    <3>. QED  BY <1>3, <3>1, RpcParts, NobodyAssumption
  <2>3a. mode # "dev"
    BY MintParts, TypeParts DEF MintToken
  <2>. QED  BY <1>2, <2>1, <2>2, <2>3, <2>3a DEF TokensIssued, outside
<1>. QED  BY <1>4, <1>5, <1>7, <1>8, MintTokenPage

\* An RPC goes on by itself: the others are left alone, and so are those that
\* wait for a mint, unless this step lets it wait.
LEMMA RpcStepKeeps ==
  ASSUME SessionInv, NEW r \in Rpcs, rpc[r].step # "minting",
         UNCHANGED <<outside, page, mint, leaving, failed>>,
         rpc' \in [Rpcs -> Rpc],
         \A q \in Rpcs \ {r} : rpc'[q] = rpc[q],
         rpc'[r].step \in {"sent", "answered", "done"},
         rpc'[r].step = "sent" => rpc'[r].ran = 0,
         rpc'[r].step = "answered" /\ rpc'[r].status = "401" => rpc'[r].ran = 0,
         ~rpc'[r].again => rpc'[r].sends <= 1,
         rpc'[r].ran <= 1,
         mode = "jwt" => rpc'[r].token <= minted
  PROVE  SessionInv'
<1> USE DEF SessionInv
<1>1. TypeOK'
  BY DEF TypeOK, Rpc, Minting, outside, page
<1>2. MintsAwaited'
  <2> SUFFICES ASSUME NEW k \in Mints, mint[k].caller # Nobody
               PROVE  /\ rpc'[mint[k].caller].step = "minting"
                      /\ \A n \in Mints \ {k} : mint[n].caller # mint[k].caller
                      /\ mint[k].got > 0 => mint[k].got > rpc'[mint[k].caller].token
    BY DEF MintsAwaited
  <2>1. mint[k].caller \in Rpcs \ {r}
    BY MintParts
  <2>2. rpc'[mint[k].caller] = rpc[mint[k].caller]
    BY <2>1
  <2>. QED  BY <2>2, MintParts
<1>3. NotCarriedOutYet' /\ CarriedOutOnce'
  <2> SUFFICES ASSUME NEW q \in Rpcs
               PROVE  /\ rpc'[q].step = "idle" => rpc'[q] = FirstTry
                      /\ rpc'[q].step \in {"sent", "minting"} => rpc'[q].ran = 0
                      /\ rpc'[q].step = "answered" /\ rpc'[q].status = "401"
                           => rpc'[q].ran = 0
                      /\ rpc'[q].step = "minting" => ~rpc'[q].again
                      /\ ~rpc'[q].again => rpc'[q].sends <= 1
                      /\ rpc'[q].ran <= 1
    BY DEF NotCarriedOutYet, CarriedOutOnce
  <2>1. CASE q # r
    BY <2>1, RpcParts
  <2>2. CASE q = r
    BY <2>2
  <2>. QED  BY <2>1, <2>2
<1>4. TokensIssued'
  <2>1. mode = "jwt" => \A q \in Rpcs : rpc'[q].token <= minted
    BY RpcParts
  <2>. QED  BY <2>1 DEF TokensIssued, outside, page
<1>. QED  BY <1>1, <1>2, <1>3, <1>4, OneTimerStays

LEMMA CallKeeps ==
  ASSUME SessionInv, NEW r \in Rpcs, Call(r)
  PROVE  SessionInv'
<1> USE DEF SessionInv
<1>1. rpc \in [Rpcs -> Rpc] /\ rpc[r] \in Rpc /\ rpc[r] = FirstTry /\ rpc[r].step = "idle"
      /\ token \in 0 .. MaxMinted
  BY RpcParts, TypeParts DEF Call, TypeOK
<1>2. rpc[r].again = FALSE /\ rpc[r].ran = 0
  BY <1>1 DEF FirstTry
<1>3. /\ rpc'[r].step = "sent" /\ rpc'[r].token = token /\ rpc'[r].sends = 1
      /\ rpc'[r].ran = rpc[r].ran
      /\ \A q \in Rpcs \ {r} : rpc'[q] = rpc[q]
  BY <1>1 DEF Call, Rpc
<1>4. rpc' \in [Rpcs -> Rpc]
  BY <1>1 DEF Call, Rpc
<1>5. mode = "jwt" => token <= minted
  BY DEF TokensIssued
<1>6. rpc[r].step # "minting" /\ UNCHANGED <<outside, page, mint, leaving, failed>>
  BY DEF Call
<1>. QED  BY <1>2, <1>3, <1>4, <1>5, <1>6, RpcStepKeeps

\* The server runs the handler of an RPC that it accepts; it has not run yet.
LEMMA ServeRpcKeeps ==
  ASSUME SessionInv, NEW r \in Rpcs, ServeRpc(r)
  PROVE  SessionInv'
<1> USE DEF SessionInv
<1>1. rpc \in [Rpcs -> Rpc] /\ rpc[r] \in Rpc /\ rpc[r].ran = 0
      /\ (~rpc[r].again => rpc[r].sends <= 1) /\ (mode = "jwt" => rpc[r].token <= minted)
  BY RpcParts, TypeParts DEF ServeRpc
<1> DEFINE status == IF Accepted(rpc[r].token) THEN "ok" ELSE "401"
           ran == IF Accepted(rpc[r].token) THEN rpc[r].ran + 1 ELSE rpc[r].ran
<1>2. status \in {"ok", "401"} /\ ran \in {0, 1} /\ (status = "401" => ran = 0)
  BY <1>1
<1>3. rpc' = [rpc EXCEPT ![r].step = "answered", ![r].status = status, ![r].ran = ran]
  BY <1>1 DEF ServeRpc, Rpc
<1> HIDE DEF status, ran
<1>4. /\ rpc'[r].step = "answered" /\ rpc'[r].status = status /\ rpc'[r].ran = ran
      /\ rpc'[r].again = rpc[r].again /\ rpc'[r].sends = rpc[r].sends
      /\ rpc'[r].token = rpc[r].token
      /\ \A q \in Rpcs \ {r} : rpc'[q] = rpc[q]
  BY <1>1, <1>3 DEF Rpc
<1>5. rpc' \in [Rpcs -> Rpc]
  <2>1. status \in {"none", "ok", "401", "failed"} /\ ran \in Nat
    BY <1>2
  <2>. QED  BY <1>1, <1>3, <2>1 DEF Rpc
<1>6. rpc[r].step # "minting" /\ UNCHANGED <<outside, page, mint, leaving, failed>>
  BY DEF ServeRpc
<1>. QED  BY <1>1, <1>2, <1>4, <1>5, <1>6, RpcStepKeeps

LEMMA LoseRpcKeeps ==
  ASSUME SessionInv, NEW r \in Rpcs, LoseRpc(r)
  PROVE  SessionInv'
<1> USE DEF SessionInv
<1>1. rpc \in [Rpcs -> Rpc] /\ rpc[r] \in Rpc /\ rpc[r].ran <= 1
      /\ (~rpc[r].again => rpc[r].sends <= 1) /\ (mode = "jwt" => rpc[r].token <= minted)
  BY RpcParts, TypeParts DEF LoseRpc
<1>2. /\ rpc'[r].step = "answered" /\ rpc'[r].status = "failed" /\ rpc'[r].ran = rpc[r].ran
      /\ rpc'[r].again = rpc[r].again /\ rpc'[r].sends = rpc[r].sends
      /\ rpc'[r].token = rpc[r].token
      /\ \A q \in Rpcs \ {r} : rpc'[q] = rpc[q]
  BY <1>1 DEF LoseRpc, Rpc
<1>3. rpc' \in [Rpcs -> Rpc]
  BY <1>1 DEF LoseRpc, Rpc
<1>4. rpc[r].step # "minting" /\ UNCHANGED <<outside, page, mint, leaving, failed>>
  BY DEF LoseRpc
<1>. QED  BY <1>1, <1>2, <1>3, <1>4, RpcStepKeeps

\* A response is handed to the caller, or a mint begins for one more try.
LEMMA AnswerKeeps ==
  ASSUME SessionInv, NEW r \in Rpcs, Answer(r)
  PROVE  SessionInv'
<1> USE DEF SessionInv
<1>1. rpc \in [Rpcs -> Rpc] /\ rpc[r] \in Rpc /\ rpc[r].ran <= 1 /\ rpc[r].step = "answered"
      /\ (~rpc[r].again => rpc[r].sends <= 1) /\ (mode = "jwt" => rpc[r].token <= minted)
  BY RpcParts, TypeParts DEF Answer
<1>2. UNCHANGED <<outside, page, leaving, failed>>
  BY DEF Answer
<1>3. CASE ~WorthRetry(r)
  <2>1. rpc' = Done(r, rpc[r].status) /\ UNCHANGED mint
    BY <1>3 DEF Answer
  <2>2. rpc[r].status \in {"none", "ok", "401", "failed"}
    BY <1>1 DEF Rpc
  <2>3. /\ rpc' \in [Rpcs -> Rpc]
        /\ rpc'[r].step = "done" /\ rpc'[r].again = rpc[r].again
        /\ rpc'[r].token = rpc[r].token /\ rpc'[r].sends = rpc[r].sends
        /\ rpc'[r].ran = rpc[r].ran
        /\ \A q \in Rpcs \ {r} : rpc'[q] = rpc[q]
    BY <2>1, <2>2, Ending
  <2>. QED  BY <1>1, <1>2, <2>1, <2>3, RpcStepKeeps
<1>4. CASE WorthRetry(r)
  <2>1. PICK m \in Mints : mint[m].step = "free" /\ AskMint(m, r)
                           /\ rpc' = [rpc EXCEPT ![r].step = "minting"]
    BY <1>4 DEF Answer
  <2>2. /\ mint' \in [Mints -> Minting]
        /\ mint'[m].step = "asked" /\ mint'[m].caller = r /\ mint'[m].got = 0
        /\ \A k \in Mints \ {m} : mint'[k] = mint[k]
    BY <2>1, Asking
  <2>3. /\ rpc'[r].step = "minting" /\ rpc'[r].ran = rpc[r].ran
        /\ rpc'[r].again = rpc[r].again /\ rpc'[r].sends = rpc[r].sends
        /\ rpc'[r].token = rpc[r].token
        /\ \A q \in Rpcs \ {r} : rpc'[q] = rpc[q]
    BY <1>1, <2>1 DEF Rpc
  <2>4. rpc' \in [Rpcs -> Rpc]
    BY <1>1, <2>1 DEF Rpc
  <2>5. mode = "jwt" /\ ~rpc[r].again /\ rpc[r].ran = 0
    BY <1>1, <1>4, RpcParts DEF WorthRetry
  <2>6. TypeOK'
    BY <1>2, <2>2, <2>4 DEF TypeOK, Rpc, Minting, outside, page
  <2>7. MintsAwaited'
    <3> SUFFICES ASSUME NEW k \in Mints, mint'[k].caller # Nobody
                 PROVE  /\ rpc'[mint'[k].caller].step = "minting"
                        /\ \A n \in Mints \ {k} : mint'[n].caller # mint'[k].caller
                        /\ mint'[k].got > 0 => mint'[k].got > rpc'[mint'[k].caller].token
      BY DEF MintsAwaited
    <3>1. \A n \in Mints \ {m} : mint'[n].caller # r
      BY <1>1, <2>2, MintParts, NobodyAssumption
    <3>2. CASE k = m
      BY <2>2, <2>3, <3>1, <3>2
    <3>3. CASE k # m
      <4>1. mint[k].caller \in Rpcs \ {r} /\ mint'[k] = mint[k]
        BY <2>2, <3>1, <3>3, MintParts
      <4>. QED  BY <2>2, <2>3, <3>3, <4>1, MintParts
    <3>. QED  BY <3>2, <3>3
  <2>8. NotCarriedOutYet' /\ CarriedOutOnce'
    <3> SUFFICES ASSUME NEW q \in Rpcs
                 PROVE  /\ rpc'[q].step = "idle" => rpc'[q] = FirstTry
                        /\ rpc'[q].step \in {"sent", "minting"} => rpc'[q].ran = 0
                        /\ rpc'[q].step = "answered" /\ rpc'[q].status = "401"
                             => rpc'[q].ran = 0
                        /\ rpc'[q].step = "minting" => ~rpc'[q].again
                        /\ ~rpc'[q].again => rpc'[q].sends <= 1
                        /\ rpc'[q].ran <= 1
      BY DEF NotCarriedOutYet, CarriedOutOnce
    <3>. QED  BY <1>1, <2>3, <2>5, RpcParts
  <2>9. TokensIssued'
    <3>1. \A q \in Rpcs : rpc'[q].token <= minted
      BY <2>3, <2>5, RpcParts
    <3>2. \A k \in Mints : mint'[k].got <= minted
      BY <2>2, MintParts, TypeParts
    <3>. QED  BY <1>2, <2>5, <3>1, <3>2 DEF TokensIssued, outside, page
  <2>. QED  BY <1>2, <2>6, <2>7, <2>8, <2>9, OneTimerStays
<1>. QED  BY <1>3, <1>4

LEMMA SignOutKeeps ==
  ASSUME SessionInv, SignOut
  PROVE  SessionInv'
<1> USE DEF SessionInv
<1>1. UNCHANGED <<outside, page, mint, rpc, failed>> /\ leaving' = "asked"
  BY DEF SignOut
<1>2. TypeOK'
  BY <1>1 DEF TypeOK, outside, page
<1>3. MintsAwaited' /\ TokensIssued'
  BY <1>1 DEF MintsAwaited, TokensIssued, outside, page
<1>. QED  BY <1>1, <1>2, <1>3, RpcsStay, OneTimerStays

LEMMA ServeLogoutKeeps ==
  ASSUME SessionInv, ServeLogout
  PROVE  SessionInv'
<1> USE DEF SessionInv
<1>1. UNCHANGED <<mode, minted, expired, page, mint, rpc, failed>>
      /\ leaving' = "answered" /\ cookie' \in BOOLEAN
  BY DEF ServeLogout, TypeOK
<1>2. TypeOK'
  BY <1>1 DEF TypeOK, page
<1>3. MintsAwaited' /\ TokensIssued'
  BY <1>1 DEF MintsAwaited, TokensIssued, page
<1>. QED  BY <1>1, <1>2, <1>3, RpcsStay, OneTimerStays

\* The page drops its token and its timer together.
LEMMA SignedOutKeeps ==
  ASSUME SessionInv, SignedOut
  PROVE  SessionInv'
<1> USE DEF SessionInv
<1>1. UNCHANGED <<outside, mint, rpc, failed>> /\ leaving' = "no"
  BY DEF SignedOut
<1>2. token' = 0 /\ timers' = 0 /\ armed' = FALSE
  BY Clearing DEF SignedOut
<1>3. TypeOK'
  <2>1. armed' \in BOOLEAN
    BY <1>2
  <2>. QED  BY <1>1, <1>2, <2>1, MaxMintedType DEF TypeOK, outside
<1>4. MintsAwaited'
  BY <1>1 DEF MintsAwaited
<1>5. TokensIssued' /\ OneTimer'
  BY <1>1, <1>2, TypeParts DEF TokensIssued, OneTimer, outside
<1>. QED  BY <1>1, <1>3, <1>4, <1>5, RpcsStay

\* A page loaded anew: nothing of the old one is under way any more.
LEMMA SignInKeeps ==
  ASSUME SessionInv, NEW m \in Mints, SignIn(m)
  PROVE  SessionInv'
<1> USE DEF SessionInv
<1> DEFINE asked == [FreeMint EXCEPT !.step = "asked"]
<1>1. asked \in Minting /\ asked.caller = Nobody /\ asked.got = 0
  BY FreeMintType DEF Minting
<1>2. mint' = [x \in Mints |-> IF x = m THEN asked ELSE FreeMint]
  BY DEF SignIn
<1> HIDE DEF asked
<1>3. /\ mint' \in [Mints -> Minting]
      /\ \A k \in Mints : mint'[k].caller = Nobody /\ mint'[k].got = 0
  BY <1>1, <1>2, FreeMintType
<1>4. /\ rpc \in [Rpcs -> Rpc]
      /\ rpc' = [r \in Rpcs |-> IF rpc[r].step = "idle" THEN rpc[r]
                                ELSE [rpc[r] EXCEPT !.step = "done"]]
  BY TypeParts DEF SignIn
<1>5. \A r \in Rpcs : rpc[r].step = "idle" => rpc'[r] = rpc[r]
  BY <1>4
<1>6. \A r \in Rpcs : rpc[r].step # "idle" =>
        /\ rpc'[r] \in Rpc /\ rpc'[r].step = "done" /\ rpc'[r].ran = rpc[r].ran
        /\ rpc'[r].again = rpc[r].again /\ rpc'[r].sends = rpc[r].sends
        /\ rpc'[r].token = rpc[r].token
  <2> SUFFICES ASSUME NEW r \in Rpcs, rpc[r].step # "idle"
               PROVE  /\ rpc'[r] \in Rpc /\ rpc'[r].step = "done"
                      /\ rpc'[r].ran = rpc[r].ran
                      /\ rpc'[r].again = rpc[r].again /\ rpc'[r].sends = rpc[r].sends
                      /\ rpc'[r].token = rpc[r].token
    OBVIOUS
  <2>1. rpc[r] \in Rpc /\ rpc'[r] = [rpc[r] EXCEPT !.step = "done"]
    BY <1>4
  <2>. QED  BY <2>1 DEF Rpc
<1>7. rpc' \in [Rpcs -> Rpc]
  <2>1. \A r \in Rpcs : rpc'[r] \in Rpc
    BY <1>4, <1>5, <1>6
  <2>2. DOMAIN rpc' = Rpcs /\ rpc' = [r \in Rpcs |-> rpc'[r]]
    BY <1>4
  <2>. QED  BY <2>1, <2>2
<1>8. /\ mode = "jwt" /\ UNCHANGED <<mode, minted, expired, token>> /\ cookie' = TRUE
      /\ timers' = 0 /\ armed' = FALSE /\ leaving' = "no" /\ failed' = FALSE
  BY DEF SignIn
<1>9. TypeOK'
  <2>1. cookie' \in BOOLEAN /\ armed' \in BOOLEAN /\ failed' \in BOOLEAN
    BY <1>8
  <2>. QED  BY <1>3, <1>7, <1>8, <2>1 DEF TypeOK, Rpc, Minting
<1>10. MintsAwaited'
  BY <1>3 DEF MintsAwaited
<1>11. NotCarriedOutYet' /\ CarriedOutOnce'
  <2> SUFFICES ASSUME NEW q \in Rpcs
               PROVE  /\ rpc'[q].step = "idle" => rpc'[q] = FirstTry
                      /\ rpc'[q].step \in {"sent", "minting"} => rpc'[q].ran = 0
                      /\ rpc'[q].step = "answered" /\ rpc'[q].status = "401"
                           => rpc'[q].ran = 0
                      /\ rpc'[q].step = "minting" => ~rpc'[q].again
                      /\ ~rpc'[q].again => rpc'[q].sends <= 1
                      /\ rpc'[q].ran <= 1
    BY DEF NotCarriedOutYet, CarriedOutOnce
  <2>. QED  BY <1>5, <1>6, RpcParts
<1>12. TokensIssued'
  <2>1. \A k \in Mints : mint'[k].got <= minted
    BY <1>3, TypeParts
  <2>2. \A r \in Rpcs : rpc'[r].token = rpc[r].token
    BY <1>5, <1>6
  <2>. QED  BY <1>8, <2>1, <2>2 DEF TokensIssued
<1>13. OneTimer'
  BY <1>8 DEF OneTimer
<1>. QED  BY <1>9, <1>10, <1>11, <1>12, <1>13

LEMMA DevTokenKeeps ==
  ASSUME SessionInv, DevToken
  PROVE  SessionInv'
<1> USE DEF SessionInv
<1>1. UNCHANGED <<outside, mint, rpc, leaving, failed>> /\ mode = "dev"
  BY DEF DevToken
<1>2. timers = 0 /\ armed \in BOOLEAN
  BY <1>1, TypeParts DEF TokensIssued
<1>3. armed' \in BOOLEAN /\ timers' = 0 /\ token' \in {0, 1} /\ OneTimer'
  <2>1. CASE token = 0
    <3>1. token' = 1 /\ UNCHANGED <<timers, armed>>
      BY <2>1 DEF DevToken
    <3>. QED  BY <1>2, <3>1 DEF OneTimer
  <2>2. CASE token # 0
    <3>1. ClearAuth
      BY <2>2 DEF DevToken
    <3>2. token' = 0 /\ timers' = 0 /\ armed' = FALSE
      BY <3>1, Clearing
    <3>3. armed' \in BOOLEAN
      BY <3>2
    <3>. QED  BY <3>2, <3>3 DEF OneTimer
  <2>. QED  BY <2>1, <2>2
<1>4. TypeOK'
  BY <1>1, <1>3, MaxMintedType DEF TypeOK, outside
<1>5. MintsAwaited' /\ TokensIssued'
  BY <1>1, <1>3 DEF MintsAwaited, TokensIssued, outside
<1>. QED  BY <1>1, <1>3, <1>4, <1>5, RpcsStay

LEMMA ExpireKeeps ==
  ASSUME SessionInv, Expire
  PROVE  SessionInv'
<1> USE DEF SessionInv
<1>1. UNCHANGED <<mode, cookie, minted, page, mint, rpc, leaving, failed>>
      /\ expired' \subseteq 1 .. minted
  BY DEF Expire, TypeOK
<1>2. TypeOK'
  BY <1>1 DEF TypeOK, page
<1>3. MintsAwaited' /\ TokensIssued'
  BY <1>1 DEF MintsAwaited, TokensIssued, page
<1>. QED  BY <1>1, <1>2, <1>3, RpcsStay, OneTimerStays

LEMMA EndSessionKeeps ==
  ASSUME SessionInv, EndSession
  PROVE  SessionInv'
<1> USE DEF SessionInv
<1>1. UNCHANGED <<mode, minted, expired, page, mint, rpc, leaving, failed>>
      /\ cookie' \in BOOLEAN
  BY DEF EndSession
<1>2. TypeOK'
  BY <1>1 DEF TypeOK, page
<1>3. MintsAwaited' /\ TokensIssued'
  BY <1>1 DEF MintsAwaited, TokensIssued, page
<1>. QED  BY <1>1, <1>2, <1>3, RpcsStay, OneTimerStays

LEMMA NextSession == SessionInv /\ [Next]_vars => SessionInv'
<1> SUFFICES ASSUME SessionInv, [Next]_vars PROVE SessionInv'
  OBVIOUS
<1>1. CASE UNCHANGED vars
  BY <1>1 DEF SessionInv, TypeOK, MintsAwaited, NotCarriedOutYet, TokensIssued,
              OneTimer, CarriedOutOnce, vars, outside, page
<1>2. ASSUME NEW m \in Mints,
             TimerFires(m) \/ ServeMint(m) \/ FailMint(m) \/ MintToken(m) \/ SignIn(m)
      PROVE  SessionInv'
  BY <1>2, TimerFiresKeeps, ServeMintKeeps, FailMintKeeps, MintTokenKeeps, SignInKeeps
<1>3. ASSUME NEW r \in Rpcs, Call(r) \/ ServeRpc(r) \/ LoseRpc(r) \/ Answer(r)
      PROVE  SessionInv'
  BY <1>3, CallKeeps, ServeRpcKeeps, LoseRpcKeeps, AnswerKeeps
<1>4. CASE SignOut \/ ServeLogout \/ SignedOut \/ DevToken \/ Expire \/ EndSession
  BY <1>4, SignOutKeeps, ServeLogoutKeeps, SignedOutKeeps, DevTokenKeeps, ExpireKeeps,
     EndSessionKeeps
<1>. QED  BY <1>1, <1>2, <1>3, <1>4 DEF Next

\* The inductive invariant: every RPC that waits for a mint waits for one of its
\* own, whose JWT is newer than the one refused, and no RPC that may be sent
\* again has been carried out (auth.ts, connect.ts).
THEOREM SessionInvariantHolds == Spec => []SessionInv
<1>. QED  BY InitSession, NextSession, PTL DEF Spec

\* However many mints, by the timer and by RPCs, overlap with sign-outs and
\* page loads: one remint timer at most, the one that clearTimeout can reach,
\* and none on a page without a token (auth.ts, scheduleRemint and clearAuth).
THEOREM TimerIsOne == Spec => []OneTimer
<1>1. SessionInv => OneTimer
  BY DEF SessionInv
<1>. QED  BY <1>1, SessionInvariantHolds, PTL

\* The server runs the handler at most once for each call of callConnectRPC.
THEOREM NeverCarriedOutTwice == Spec => []CarriedOutOnce
<1>1. SessionInv => CarriedOutOnce
  BY DEF SessionInv
<1>. QED  BY <1>1, SessionInvariantHolds, PTL

\* A call is sent at most twice, the second time with another JWT than the one
\* refused (connect.ts, callConnectRPC).
THEOREM RetriedOnce == Spec => OneRetry
<1> DEFINE Retry == \A r \in Rpcs : rpc[r].sends > 0 /\ rpc'[r].sends # rpc[r].sends =>
             /\ rpc'[r].sends <= 2
             /\ rpc'[r].token \notin {0, rpc[r].token}
<1>1. SessionInv /\ [Next]_vars => [Retry]_vars
  <2> SUFFICES ASSUME SessionInv, Next,
                      NEW r \in Rpcs, rpc[r].sends > 0, rpc'[r].sends # rpc[r].sends
               PROVE  /\ rpc'[r].sends <= 2
                      /\ rpc'[r].token \notin {0, rpc[r].token}
    OBVIOUS
  <2>1. rpc \in [Rpcs -> Rpc] /\ rpc[r] \in Rpc /\ rpc[r].sends \in Nat
    BY RpcParts, TypeParts DEF SessionInv
  <2>2. ~ UNCHANGED rpc
    OBVIOUS
  <2>3. CASE \E m \in Mints : MintToken(m)
    <3>1. PICK m \in Mints : MintToken(m)
      BY <2>3
    <3>2. r = mint[m].caller
      BY <3>1, MintTokenRpc
    <3>3. /\ rpc[r].step = "minting"
          /\ rpc'[r].token = mint[m].got /\ mint[m].got > rpc[r].token /\ mint[m].got > 0
          /\ rpc'[r].sends = rpc[r].sends + 1
      BY <3>1, <3>2, MintTokenRpc, NobodyAssumption
    <3>4. rpc[r].sends <= 1 /\ mint[m].got \in Int /\ rpc[r].token \in Nat
      BY <3>3, RpcParts, MintParts, TypeParts DEF SessionInv
    <3>. QED  BY <2>1, <3>3, <3>4
  <2>4. CASE \E m \in Mints : SignIn(m)
    <3>1. rpc' = [q \in Rpcs |-> IF rpc[q].step = "idle" THEN rpc[q]
                                 ELSE [rpc[q] EXCEPT !.step = "done"]]
      BY <2>4 DEF SignIn
    <3>2. rpc'[r] = rpc[r] \/ rpc'[r] = [rpc[r] EXCEPT !.step = "done"]
      BY <3>1
    <3>. QED  BY <2>1, <3>2 DEF Rpc
  <2>5. CASE \E q \in Rpcs : Call(q)
    <3>1. PICK q \in Rpcs : Call(q)
      BY <2>5
    <3>2. rpc' = [rpc EXCEPT ![q].step = "sent", ![q].token = token, ![q].sends = 1]
      BY <3>1 DEF Call
    <3>3. q = r
      BY <2>1, <3>2
    <3>4. rpc[r] = FirstTry
      BY <3>1, <3>3, RpcParts DEF Call
    <3>. QED  BY <3>4 DEF FirstTry
  <2>6. CASE \E q \in Rpcs : ServeRpc(q) \/ LoseRpc(q) \/ Answer(q)
    <3>1. PICK q \in Rpcs : ServeRpc(q) \/ LoseRpc(q) \/ Answer(q)
      BY <2>6
    <3>2. rpc[q] \in Rpc
      BY <2>1
    <3>3. rpc'[r].sends = rpc[r].sends
      BY <2>1, <3>1, <3>2 DEF ServeRpc, LoseRpc, Answer, Done, Rpc
    <3>. QED  BY <3>3
  <2>7. CASE SignOut \/ ServeLogout \/ SignedOut \/ DevToken \/ Expire \/ EndSession
    BY <2>2, <2>7 DEF SignOut, ServeLogout, SignedOut, DevToken, Expire, EndSession
  <2>8. CASE \E m \in Mints : TimerFires(m) \/ ServeMint(m) \/ FailMint(m)
    BY <2>2, <2>8 DEF TimerFires, ServeMint, FailMint
  <2>. QED  BY <2>3, <2>4, <2>5, <2>6, <2>7, <2>8 DEF Next
<1>. QED  BY <1>1, SessionInvariantHolds, PTL DEF Spec, OneRetry
=============================================================================
