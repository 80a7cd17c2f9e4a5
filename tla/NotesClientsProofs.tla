------------------------- MODULE NotesClientsProofs -------------------------
(***************************************************************************)
(* ClientsInv is an inductive invariant of NotesClients, for any clients,  *)
(* tokens, notes and inputs, and a note saved as it was shown keeps its    *)
(* content.  The argument: the token alone decides who calls and what he   *)
(* may do, and nobody calls when the auth service fails (TokenLemma);      *)
(* every write stamps its note with a time beyond all stamps so far        *)
(* (ClockOK), so it can be told from no write; and what is shown of a note *)
(* is a fixed point of the conversions on the way back.                    *)
(***************************************************************************)
EXTENDS NotesClients, FiniteSetTheorems, FunctionTheorems, WellFoundedInduction, TLAPS

-----------------------------------------------------------------------------
\* Facts about the constants and the conversions.

LEMMA CardinalityOfIDs == Cardinality(NoteIDs) \in Nat
  BY ClientsAssumption, FS_CardinalityType DEF ClientsAssumption

LEMMA MaxCallsNat == MaxCalls \in Nat
  BY ClientsAssumption DEF ClientsAssumption

LEMMA NormalTags ==
  ASSUME NEW raw \in SUBSET RawTags
  PROVE  normalizeTags(raw) \in SUBSET Tags
  BY RulesAssumption DEF normalizeTags, Tags, RulesAssumption

\* Normal tags are what they were typed as, to the service and, when -tags
\* cuts none of them, to the CLI.
LEMMA TagsStay ==
  ASSUME NEW tags \in SUBSET Tags
  PROVE  /\ normalizeTags(tags) = tags
         /\ (\A t \in tags : Parts[t] = {t}) => SplitTags(tags) = tags
         /\ \A t \in tags : Norm[t] # Blank
<1>1. \A t \in tags : Norm[t] = t /\ t # Blank
  BY RulesAssumption DEF Tags, RulesAssumption
<1>2. ASSUME \A t \in tags : Parts[t] = {t}
      PROVE  SplitTags(tags) = tags
  <2>1. \A p : p \in SplitTags(tags) <=> \E t \in tags : p \in Parts[t]
    BY DEF SplitTags
  <2>2. \A p : (\E t \in tags : p \in Parts[t]) <=> p \in tags
    BY <1>2
  <2> QED  BY <2>1, <2>2
<1> QED  BY <1>1, <1>2 DEF normalizeTags

\* What -tags is cut into are tags.
LEMMA SplitTypes ==
  ASSUME NEW raw \in SUBSET RawTags
  PROVE  SplitTags(raw) \in SUBSET RawTags
<1>1. Parts \in [RawTags -> SUBSET RawTags]
  BY ClientsAssumption DEF ClientsAssumption
<1>2. \A t \in raw : Parts[t] \in SUBSET RawTags
  BY <1>1
<1> QED  BY <1>2 DEF SplitTags

LEMMA StatusTypes ==
  ASSUME NEW s \in RawStatuses
  PROVE  /\ noteStatusFromString(s) \in Statuses \cup {"absent"}
         /\ normalizeStatus(noteStatusFromString(s)) \in Statuses
  BY DEF noteStatusFromString, normalizeStatus, Statuses

LEMMA StatusStays ==
  ASSUME NEW s \in Statuses
  PROVE  normalizeStatus(noteStatusFromString(s)) = s
         /\ noteStatusFromString(s) = s
  BY ClientsAssumption
  DEF ClientsAssumption, noteStatusFromString, normalizeStatus, Statuses

LEMMA InputFacts ==
  /\ "" \in Bodies /\ Tags \subseteq RawTags
  /\ "" \in RawStatuses /\ Statuses \subseteq RawStatuses
<1>1. "" \in Bodies /\ Tags \subseteq RawTags
  BY RulesAssumption DEF RulesAssumption
<1>2. Statuses \cup {""} \subseteq RawStatuses
  BY ClientsAssumption DEF ClientsAssumption
<1> QED  BY <1>1, <1>2

LEMMA SavedInput ==
  ASSUME NEW o \in OutputType
  PROVE  WriteBack(o) \in Input
<1>1. /\ o.id \in NoteIDs /\ o.body \in Bodies /\ o.tags \in SUBSET RawTags
      /\ o.status \in RawStatuses
  BY InputFacts DEF OutputType
<1>2. "update" \in Ops /\ 0 \in Int
      /\ {"body", "tags", "status"} \in SUBSET {"body", "tags", "status"}
  BY DEF Ops
<1> QED  BY <1>1, <1>2 DEF WriteBack, Input

\* A program that runs has a token, and its call is the token's, or nobody's
\* when the auth service cannot be asked about it.
LEMMA TokenLemma ==
  ASSUME ClientsTypeOK, NEW c \in Clients, authToken(setting[c]) # NoToken,
         c \in outage => ByIntrospection(c)
  PROVE  /\ Caller(c) \in Owners \cup {0}
         /\ CallOf(c).user = Caller(c)
         /\ Caller(c) # 0 => \A scope \in {"notes:read", "notes:write"} :
              HasScope(CallOf(c), scope) <=> MayDo(c, scope)
<1> DEFINE t == authToken(setting[c])
           v == VerifyBearerToken(t, c \in outage)
<1>1. t \in Tokens
  BY DEF ClientsTypeOK, Setting, authToken
<1>2. t \in Token /\ DevUser \in Owners /\ 0 \notin Owners
      /\ authMode \in {"jwt", "dev"}
  BY <1>1, ClientsAssumption, RulesAssumption
  DEF ClientsAssumption, RulesAssumption, ClientsTypeOK
<1>3. PICK pat \in BOOLEAN : t.pat = pat  BY <1>2 DEF Token
<1>4. PICK admin \in BOOLEAN : t.admin = admin  BY <1>2 DEF Token
<1>5. /\ CallOf(c).user = v.user
      /\ CallOf(c).scopes = v.scopes
  BY DEF CallOf
<1>6. t.user \in Owners \cup {0}  BY <1>2 DEF Token
<1>7. Holder(c) = IF authMode = "jwt" THEN t.user
                  ELSE IF t = DevToken THEN DevUser ELSE 0
  BY DEF Holder
<1>8. CASE c \in outage
  <2>1. authMode = "jwt" /\ t.pat
    BY <1>8 DEF ByIntrospection
  <2>2. v = NoUser
    BY <1>8, <2>1 DEF VerifyBearerToken, PatVerify
  <2> QED  BY <1>5, <1>8, <2>2 DEF Caller, NoUser
<1>9. CASE c \notin outage
  <2>1. v = IF authMode = "dev" THEN DevVerify(t)
            ELSE IF t.pat THEN PatVerify(t, FALSE) ELSE JWTVerify(t)
    BY <1>9 DEF VerifyBearerToken, PatVerify
  <2>2. Caller(c) = Holder(c)
    BY <1>9 DEF Caller
  <2> HIDE DEF v
  <2>3. v.user = Caller(c) /\ Caller(c) \in Owners \cup {0}
    BY <1>2, <1>6, <1>7, <2>1, <2>2 DEF DevVerify, JWTVerify, PatVerify, NoUser
  <2>4. ASSUME Caller(c) # 0, NEW scope \in {"notes:read", "notes:write"}
        PROVE  ({scope, "notes:admin"} \cap v.scopes # {}) <=> MayDo(c, scope)
    <3>1. CASE authMode = "dev"
      <4>1. v.scopes = DefaultScopes
        BY <1>7, <2>1, <2>2, <2>4, <3>1 DEF DevVerify, NoUser
      <4> QED  BY <3>1, <4>1 DEF DefaultScopes, MayDo
    <3>2. CASE authMode = "jwt" /\ pat
      <4>1. v.scopes = t.scopes
        BY <1>3, <1>7, <2>1, <2>2, <2>4, <3>2 DEF PatVerify, NoUser
      <4> QED  BY <1>3, <3>2, <4>1 DEF MayDo
    <3>3. CASE authMode = "jwt" /\ ~pat
      <4>1. DefaultScopes \subseteq v.scopes
        BY <1>3, <1>4, <1>7, <2>1, <2>2, <2>4, <3>3 DEF JWTVerify, NoUser
      <4> QED  BY <1>3, <3>3, <4>1 DEF DefaultScopes, MayDo
    <3> QED  BY <1>2, <3>1, <3>2, <3>3
  <2> QED  BY <1>5, <2>3, <2>4 DEF HasScope
<1> QED  BY <1>8, <1>9

-----------------------------------------------------------------------------
\* The first state.
LEMMA InitClientsInv == Init => ClientsInv
<1> SUFFICES ASSUME Init PROVE ClientsInv
  OBVIOUS
<1>1. /\ notes \in [NoteIDs -> Note] /\ clock \in Nat
      /\ \A n \in NoteIDs : notes[n].row.updated <= clock
  BY ClientsAssumption, CardinalityOfIDs DEF Init, ClientsAssumption
<1>2. setting \in [Clients -> Setting]
  BY ClientsAssumption DEF Init, ClientsAssumption
<1>3. NoInput \in Input
  <2>1. {} \in SUBSET RawTags /\ {} \in SUBSET {"body", "tags", "status"}
        /\ 0 \in Int
    OBVIOUS
  <2> QED  BY <2>1, InputFacts DEF NoInput, Input
<1>4. Nothing \in [code : Codes, shown : Seq(ShownType)]
  BY DEF Nothing, Response, Codes
<1>5. Told("none", <<>>) \in [said : Sayings, notes : Seq(OutputType)]
  BY DEF Told, Sayings
<1>6. ClientsTypeOK
  <2>1. 0 \in 0 .. MaxCalls /\ issued \subseteq NoteIDs
    BY MaxCallsNat DEF Init, Existing
  <2>2. step \in [Clients -> {"idle", "sent", "answered", "exit"}]
    <3>1. step = [c \in Clients |->
                    IF authToken(setting[c]) = NoToken THEN "exit" ELSE "idle"]
      BY DEF Init
    <3> QED  BY <3>1
  <2>3. authMode \in AuthModes /\ calls \in 0 .. MaxCalls
    BY <2>1 DEF Init
  <2>4. input \in [Clients -> Input] /\ done \in [Clients -> BOOLEAN]
    BY <1>3 DEF Init
  <2>5. resp \in [Clients -> [code : Codes, shown : Seq(ShownType)]]
    BY <1>4 DEF Init
  <2>6. reply \in [Clients -> [said : Sayings, notes : Seq(OutputType)]]
    BY <1>5 DEF Init
  <2>7. outage \subseteq Clients
    BY DEF Init
  <2> QED  BY <1>1, <1>2, <2>1, <2>2, <2>3, <2>4, <2>5, <2>6, <2>7 DEF ClientsTypeOK
<1>7. TokenDecides
  BY DEF Init, TokenDecides, Nothing, Response
<1>8. RepliesTellTruth
  BY DEF Init, RepliesTellTruth, Told
<1>9. AnswerOK
  BY DEF Init, AnswerOK
<1>10. ClockOK  BY <1>1 DEF ClockOK
<1> QED  BY <1>6, <1>7, <1>8, <1>9, <1>10 DEF ClientsInv

-----------------------------------------------------------------------------
\* Whom a token speaks for never changes; whom the caller is taken for changes
\* with the auth service's failure only.
LEMMA CallerStays ==
  ASSUME UNCHANGED <<authMode, setting>>, NEW c \in Clients
  PROVE  /\ (c \in outage' <=> c \in outage) => Caller(c)' = Caller(c)
         /\ MayDo(c, "notes:read")' = MayDo(c, "notes:read")
         /\ MayDo(c, "notes:write")' = MayDo(c, "notes:write")
         /\ ByIntrospection(c)' <=> ByIntrospection(c)
         /\ authToken(setting[c])' = authToken(setting[c])
<1>1. authToken(setting[c])' = authToken(setting[c])
  BY DEF authToken
<1>2. Holder(c)' = Holder(c)
  BY <1>1 DEF Holder
<1> QED  BY <1>1, <1>2 DEF Caller, MayDo, ByIntrospection

\* What is said of a client holds on when nothing of his changes.
LEMMA OthersKeep ==
  ASSUME ClientsInv, UNCHANGED <<authMode, setting>>, NEW d \in Clients,
         step'[d] = step[d], input'[d] = input[d], resp'[d] = resp[d],
         reply'[d] = reply[d], done'[d] = done[d], d \in outage' <=> d \in outage
  PROVE  TokenDecides!(d)' /\ RepliesTellTruth!(d)' /\ AnswerOK!(d)'
<1>1. TokenDecides!(d)'
  BY CallerStays DEF ClientsInv, TokenDecides
<1>2. RepliesTellTruth!(d)'
  BY CallerStays DEF ClientsInv, RepliesTellTruth
<1>3. AnswerOK!(d)'
  BY CallerStays DEF ClientsInv, AnswerOK
<1> QED  BY <1>1, <1>2, <1>3

\* The user asks.
LEMMA InvokeKeeps ==
  ASSUME ClientsInv, NEW c \in Clients, Invoke(c)
  PROVE  ClientsInv'
<1>1. PICK i \in Inputs[c] \cup WriteBacks(c) :
        /\ step[c] = "idle" /\ calls < MaxCalls /\ Offers(c, i)
        /\ input' = [input EXCEPT ![c] = i]
        /\ done' = [done EXCEPT ![c] = FALSE]
        /\ calls' = calls + 1
        /\ IF Usage(c, i)
             THEN /\ reply' = [reply EXCEPT ![c] = Told("usage", <<>>)]
                  /\ outage' = outage \ {c} /\ UNCHANGED step
             ELSE /\ step' = [step EXCEPT ![c] = "sent"]
                  /\ \/ outage' = outage \ {c}
                     \/ ByIntrospection(c) /\ outage' = outage \cup {c}
                  /\ UNCHANGED reply
        /\ UNCHANGED <<service, authMode, setting, resp>>
  BY DEF Invoke
<1>2. i \in Input
  <2>1. \A j \in Inputs[c] : j \in Input
    BY ClientsAssumption DEF ClientsAssumption
  <2>2. \A o \in OutputType : WriteBack(o) \in Input
    BY SavedInput
  <2>3. \A k \in DOMAIN reply[c].notes : reply[c].notes[k] \in OutputType
    BY DEF ClientsInv, ClientsTypeOK
  <2> QED  BY <2>1, <2>2, <2>3 DEF WriteBacks
<1>3. Told("usage", <<>>) \in [said : Sayings, notes : Seq(OutputType)]
  BY DEF Told, Sayings
<1>4. resp[c] = Nothing
  BY <1>1 DEF ClientsInv, AnswerOK
<1>5. ClientsTypeOK'
  <2>1. calls' \in 0 .. MaxCalls
    BY <1>1, MaxCallsNat DEF ClientsInv, ClientsTypeOK
  <2>2. input' \in [Clients -> Input] /\ done' \in [Clients -> BOOLEAN]
    BY <1>1, <1>2 DEF ClientsInv, ClientsTypeOK
  <2>3. /\ step' \in [Clients -> {"idle", "sent", "answered", "exit"}]
        /\ reply' \in [Clients -> [said : Sayings, notes : Seq(OutputType)]]
    BY <1>1, <1>3 DEF ClientsInv, ClientsTypeOK
  <2> QED  BY <1>1, <2>1, <2>2, <2>3 DEF ClientsInv, ClientsTypeOK, service
<1>6. /\ resp'[c] = Nothing /\ ~done'[c]
      /\ \/ step'[c] = "sent"
         \/ step'[c] = "idle" /\ reply'[c].said = "usage"
  BY <1>1, <1>4 DEF ClientsInv, ClientsTypeOK, Told
<1>7. ASSUME NEW d \in Clients
      PROVE  TokenDecides!(d)' /\ RepliesTellTruth!(d)' /\ AnswerOK!(d)'
  <2>1. CASE d = c
    <3>1. TokenDecides!(c)'
      BY <1>6 DEF Nothing, Response
    <3>2. RepliesTellTruth!(c)'
      BY <1>6
    <3>3. AnswerOK!(c)'
      <4>1. authToken(setting[c])' # NoToken
        BY <1>1 DEF ClientsInv, AnswerOK, authToken
      <4>2. c \in outage' => ByIntrospection(c)'
        BY <1>1, CallerStays
      <4> QED  BY <1>6, <4>1, <4>2
    <3> QED  BY <2>1, <3>1, <3>2, <3>3
  <2>2. CASE d # c
    <3>1. /\ step'[d] = step[d] /\ input'[d] = input[d] /\ resp'[d] = resp[d]
          /\ reply'[d] = reply[d] /\ done'[d] = done[d]
          /\ d \in outage' <=> d \in outage
      BY <1>1, <2>2 DEF ClientsInv, ClientsTypeOK
    <3> QED  BY <1>1, <3>1, OthersKeep
  <2> QED  BY <2>1, <2>2
<1>8. ClockOK'
  BY <1>1 DEF ClientsInv, ClockOK, service
<1> QED  BY <1>5, <1>7, <1>8 DEF ClientsInv, TokenDecides, RepliesTellTruth, AnswerOK

\* What is shown, of an answer or of none, is of the right type.
LEMMA OutputTypes ==
  ASSUME NEW shown \in Seq(ShownType)
  PROVE  [k \in DOMAIN shown |-> Output(shown[k])] \in Seq(OutputType)
<1>1. \A x \in ShownType : Output(x) \in OutputType
  BY DEF ShownType, Output, OutputType, Note, Row
<1> QED  BY <1>1

\* The client shows something and is idle again.
LEMMA ShowKeeps ==
  ASSUME ClientsInv, NEW c \in Clients, step[c] \in {"sent", "answered"},
         NEW told \in [said : Sayings, notes : Seq(OutputType)],
         reply' = [reply EXCEPT ![c] = told],
         resp' = [resp EXCEPT ![c] = Nothing],
         step' = [step EXCEPT ![c] = "idle"],
         UNCHANGED <<service, authMode, setting, input, outage, done, calls>>,
         LET scope == IF input[c].op \in {"list", "search", "get"}
                        THEN "notes:read" ELSE "notes:write"
         IN /\ told.said \in {"usage", "token", "scope", "missing"} => ~done[c]
            /\ told.said = "token" <=>
                 told.said \notin {"none", "usage", "error"} /\ Caller(c) = 0
            /\ told.said = "scope" => Caller(c) # 0 /\ ~MayDo(c, scope)
            /\ told.said = "ok" /\ scope = "notes:write" => done[c]
  PROVE  ClientsInv'
<1>1. Nothing \in [code : Codes, shown : Seq(ShownType)]
  BY DEF Nothing, Response, Codes
<1>2. ClientsTypeOK'
  BY <1>1 DEF ClientsInv, ClientsTypeOK, service
<1>3. /\ resp'[c] = Nothing /\ step'[c] = "idle" /\ reply'[c] = told
      /\ done'[c] = done[c] /\ input'[c] = input[c]
  BY DEF ClientsInv, ClientsTypeOK
<1>4. ASSUME NEW d \in Clients
      PROVE  TokenDecides!(d)' /\ RepliesTellTruth!(d)' /\ AnswerOK!(d)'
  <2>1. CASE d = c
    <3>1. TokenDecides!(c)'
      BY <1>3, CallerStays DEF ClientsInv, TokenDecides, Nothing, Response
    <3>2. RepliesTellTruth!(c)'
      BY <1>3, CallerStays
    <3>3. AnswerOK!(c)'
      <4>1. authToken(setting[c])' # NoToken
        BY DEF ClientsInv, AnswerOK, authToken
      <4>2. c \in outage' => ByIntrospection(c)'
        BY CallerStays DEF ClientsInv, AnswerOK
      <4> QED  BY <1>3, <4>1, <4>2
    <3> QED  BY <2>1, <3>1, <3>2, <3>3
  <2>2. CASE d # c
    <3>1. /\ step'[d] = step[d] /\ input'[d] = input[d] /\ resp'[d] = resp[d]
          /\ reply'[d] = reply[d] /\ done'[d] = done[d]
          /\ d \in outage' <=> d \in outage
      BY <2>2 DEF ClientsInv, ClientsTypeOK
    <3> QED  BY <3>1, OthersKeep
  <2> QED  BY <2>1, <2>2
<1>5. ClockOK'
  BY DEF ClientsInv, ClockOK, service
<1> QED  BY <1>2, <1>4, <1>5 DEF ClientsInv, TokenDecides, RepliesTellTruth, AnswerOK

\* The call is given up.
LEMMA GiveUpKeeps ==
  ASSUME ClientsInv, NEW c \in Clients, GiveUp(c)
  PROVE  ClientsInv'
<1> DEFINE told == Told("error", <<>>)
<1>1. told \in [said : Sayings, notes : Seq(OutputType)] /\ told.said = "error"
  BY DEF Told, Sayings
<1>2. /\ step[c] \in {"sent", "answered"}
      /\ reply' = [reply EXCEPT ![c] = told]
      /\ resp' = [resp EXCEPT ![c] = Nothing]
      /\ step' = [step EXCEPT ![c] = "idle"]
      /\ UNCHANGED <<service, authMode, setting, input, outage, done, calls>>
  BY DEF GiveUp
<1> HIDE DEF told
<1> QED  BY <1>1, <1>2, ShowKeeps

\* The answer is shown.
LEMMA ReplyKeeps ==
  ASSUME ClientsInv, NEW c \in Clients, Reply(c)
  PROVE  ClientsInv'
<1> DEFINE code == resp[c].code
           scope == IF input[c].op \in {"list", "search", "get"}
                      THEN "notes:read" ELSE "notes:write"
           told == IF code = "ok"
                     THEN Told("ok", [k \in DOMAIN resp[c].shown |->
                                        Output(resp[c].shown[k])])
                     ELSE Told(mapRPCError(code), <<>>)
<1>1. told \in [said : Sayings, notes : Seq(OutputType)]
  <2>1. resp[c].shown \in Seq(ShownType)
    BY DEF ClientsInv, ClientsTypeOK
  <2>2. [k \in DOMAIN resp[c].shown |-> Output(resp[c].shown[k])] \in Seq(OutputType)
    BY <2>1, OutputTypes
  <2>3. mapRPCError(code) \in Sayings /\ "ok" \in Sayings
    BY DEF mapRPCError, Sayings
  <2> QED  BY <2>2, <2>3 DEF Told
<1>2. /\ step[c] = "answered"
      /\ reply' = [reply EXCEPT ![c] = told]
      /\ resp' = [resp EXCEPT ![c] = Nothing]
      /\ step' = [step EXCEPT ![c] = "idle"]
      /\ UNCHANGED <<service, authMode, setting, input, outage, done, calls>>
  BY DEF Reply
<1>3. told.said = IF code = "ok" THEN "ok" ELSE mapRPCError(code)
  BY DEF Told
<1>4. /\ code = "unauthenticated" <=> Caller(c) = 0
      /\ code = "permission_denied" => ~MayDo(c, scope)
      /\ code = "ok" /\ scope = "notes:write" => done[c]
      /\ done[c] => code \in {"ok", "internal"}
  BY <1>2 DEF ClientsInv, AnswerOK
<1>5. /\ told.said \in {"usage", "token", "scope", "missing"} => ~done[c]
      /\ told.said = "token" <=>
           told.said \notin {"none", "usage", "error"} /\ Caller(c) = 0
      /\ told.said = "scope" => Caller(c) # 0 /\ ~MayDo(c, scope)
      /\ told.said = "ok" /\ scope = "notes:write" => done[c]
  <2> HIDE DEF told, code, scope
  <2> QED  BY <1>3, <1>4 DEF mapRPCError
<1> HIDE DEF told
<1> QED  BY <1>1, <1>2, <1>5, ShowKeeps

-----------------------------------------------------------------------------
\* The service.

LEMMA CallFacts ==
  ASSUME ClientsTypeOK, NEW c \in Clients
  PROVE  LET u == CallOf(c) IN
         /\ u.op = input[c].op /\ u.note = input[c].note /\ u.body = input[c].body
         /\ u.body \in Bodies /\ u.tags \in SUBSET RawTags
         /\ normalizeStatus(u.status) \in Statuses
<1>1. /\ input[c].body \in Bodies /\ input[c].tags \in SUBSET RawTags
      /\ input[c].status \in RawStatuses
  BY DEF ClientsTypeOK, Input
<1>2. /\ CallOf(c).op = input[c].op /\ CallOf(c).note = input[c].note
      /\ CallOf(c).body = input[c].body
  BY DEF CallOf
<1>3. CallOf(c).tags \in SUBSET RawTags
  BY <1>1, SplitTypes DEF CallOf
<1>4. CallOf(c).status = noteStatusFromString(input[c].status)
  BY DEF CallOf
<1> QED  BY <1>1, <1>2, <1>3, <1>4, StatusTypes

\* The service carries a call out and answers r.
LEMMA AnswerKeeps ==
  ASSUME ClientsInv, NEW c \in Clients, step[c] = "sent",
         NEW r \in [code : Codes, shown : Seq(ShownType)],
         notes' \in [NoteIDs -> Note], issued' \in SUBSET NoteIDs, clock' \in Nat,
         ClockOK',
         resp' = [resp EXCEPT ![c] = r],
         step' = [step EXCEPT ![c] = "answered"],
         done' = [done EXCEPT ![c] = notes' # notes],
         UNCHANGED <<authMode, setting, input, outage, reply, calls>>,
         \A k \in DOMAIN r.shown :
           /\ Caller(c) # 0 /\ r.shown[k].note.row.owner = Caller(c)
           /\ input[c].op \in {"list", "search", "get"} => MayDo(c, "notes:read"),
         notes' # notes => /\ Caller(c) # 0 /\ MayDo(c, "notes:write")
                           /\ r.code \in {"ok", "internal"},
         LET scope == IF input[c].op \in {"list", "search", "get"}
                        THEN "notes:read" ELSE "notes:write"
         IN /\ r.code = "unauthenticated" <=> Caller(c) = 0
            /\ r.code = "permission_denied" => ~MayDo(c, scope)
            /\ r.code = "ok" /\ scope = "notes:write" => notes' # notes
  PROVE  ClientsInv'
<1>1. (notes' # notes) \in BOOLEAN
  OBVIOUS
<1>2. ClientsTypeOK'
  <2>1. done' \in [Clients -> BOOLEAN]
    BY <1>1 DEF ClientsInv, ClientsTypeOK
  <2> QED  BY <2>1 DEF ClientsInv, ClientsTypeOK
<1>3. /\ resp'[c] = r /\ step'[c] = "answered" /\ done'[c] = (notes' # notes)
      /\ input'[c] = input[c]
  BY DEF ClientsInv, ClientsTypeOK
<1>4. ASSUME NEW d \in Clients
      PROVE  TokenDecides!(d)' /\ RepliesTellTruth!(d)' /\ AnswerOK!(d)'
  <2>1. CASE d = c
    <3>1. TokenDecides!(c)'
      BY <1>3, CallerStays
    <3>2. RepliesTellTruth!(c)'
      BY <1>3
    <3>3. AnswerOK!(c)'
      <4>1. authToken(setting[c])' # NoToken
        BY DEF ClientsInv, AnswerOK, authToken
      <4>2. c \in outage' => ByIntrospection(c)'
        BY CallerStays DEF ClientsInv, AnswerOK
      <4> QED  BY <1>3, <4>1, <4>2, CallerStays
    <3> QED  BY <2>1, <3>1, <3>2, <3>3
  <2>2. CASE d # c
    <3>1. /\ step'[d] = step[d] /\ input'[d] = input[d] /\ resp'[d] = resp[d]
          /\ reply'[d] = reply[d] /\ done'[d] = done[d]
          /\ d \in outage' <=> d \in outage
      BY <2>2 DEF ClientsInv, ClientsTypeOK
    <3> QED  BY <3>1, OthersKeep
  <2> QED  BY <2>1, <2>2
<1> QED  BY <1>2, <1>4 DEF ClientsInv, TokenDecides, RepliesTellTruth, AnswerOK

\* A call that awaits the service is one of a client with a token.
LEMMA SentHasToken ==
  ASSUME ClientsInv, NEW c \in Clients, step[c] = "sent"
  PROVE  /\ Caller(c) \in Owners \cup {0}
         /\ CallOf(c).user = Caller(c)
         /\ Caller(c) # 0 => \A scope \in {"notes:read", "notes:write"} :
              HasScope(CallOf(c), scope) <=> MayDo(c, scope)
<1>1. authToken(setting[c]) # NoToken /\ (c \in outage => ByIntrospection(c))
  BY DEF ClientsInv, AnswerOK
<1> QED  BY <1>1, TokenLemma DEF ClientsInv

\* What the server shows of one note, and what code goes with it.
LEMMA ShowNoteFacts ==
  ASSUME NEW n \in NoteIDs, NEW note \in Note
  PROVE  LET r == ShowNote(n, note) IN
         /\ r \in [code : Codes, shown : Seq(ShownType)]
         /\ r.code \in {"ok", "internal"}
         /\ \A k \in DOMAIN r.shown : r.shown[k].note = note
<1>1. Shown(n, note) \in ShownType /\ Shown(n, note).note = note
  BY DEF Shown, ShownType
<1>2. <<Shown(n, note)>> \in Seq(ShownType)
      /\ \A k \in DOMAIN <<Shown(n, note)>> : <<Shown(n, note)>>[k] = Shown(n, note)
  BY <1>1
<1>3. ShowNote(n, note) = Response("ok", <<Shown(n, note)>>)
      \/ ShowNote(n, note) = Response("internal", <<>>)
  BY DEF ShowNote
<1>4. CASE ShowNote(n, note) = Response("ok", <<Shown(n, note)>>)
  <2> DEFINE shown == <<Shown(n, note)>>
  <2> HIDE DEF shown
  <2>1. shown \in Seq(ShownType) /\ \A k \in DOMAIN shown : shown[k].note = note
    BY <1>1, <1>2 DEF shown
  <2>2. ShowNote(n, note) = Response("ok", shown)
    BY <1>4 DEF shown
  <2> QED  BY <2>1, <2>2 DEF Response, Codes
<1>5. CASE ShowNote(n, note) = Response("internal", <<>>)
  BY <1>5 DEF Response, Codes
<1> QED  BY <1>3, <1>4, <1>5

\* A list or a search.
LEMMA ListKeeps ==
  ASSUME ClientsInv, NEW c \in Clients, step[c] = "sent", List(c),
         step' = [step EXCEPT ![c] = "answered"],
         done' = [done EXCEPT ![c] = notes' # notes],
         UNCHANGED <<authMode, setting, input, outage, reply, calls>>
  PROVE  ClientsInv'
<1>1. /\ notes' \in [NoteIDs -> Note] /\ issued' \in SUBSET NoteIDs /\ clock' \in Nat
      /\ ClockOK' /\ notes' = notes
  BY DEF ClientsInv, ClientsTypeOK, ClockOK, List, service
<1>2. AdmitList(c) = "unauthenticated" <=> Caller(c) = 0
  BY SentHasToken DEF AdmitList
<1>3. AdmitList(c) = "permission_denied" => ~MayDo(c, "notes:read")
  BY SentHasToken DEF AdmitList
<1>4. AdmitList(c) = "ok" => MayDo(c, "notes:read")
  BY SentHasToken DEF AdmitList
<1>5. AdmitList(c) \in Codes
  BY DEF AdmitList, Codes
<1>6. input[c].op \in {"list", "search"}
  BY DEF List
<1>7. CASE /\ AdmitList(c) # "ok"
           /\ resp' = [resp EXCEPT ![c] = Response(AdmitList(c), <<>>)]
  <2> DEFINE r == Response(AdmitList(c), <<>>)
  <2>1. r \in [code : Codes, shown : Seq(ShownType)] /\ DOMAIN r.shown = {}
        /\ r.code = AdmitList(c)
    BY <1>5 DEF Response
  <2>2. resp' = [resp EXCEPT ![c] = r]
    BY <1>7
  <2> HIDE DEF r
  <2> QED  BY <1>1, <1>2, <1>3, <1>6, <1>7, <2>1, <2>2, AnswerKeeps
<1>8. CASE /\ AdmitList(c) = "ok"
           /\ resp' = [resp EXCEPT ![c] = Response("internal", <<>>)]
  <2> DEFINE r == Response("internal", <<>>)
  <2>1. r \in [code : Codes, shown : Seq(ShownType)] /\ DOMAIN r.shown = {}
        /\ r.code = "internal"
    BY DEF Response, Codes
  <2>2. resp' = [resp EXCEPT ![c] = r]
    BY <1>8
  <2> HIDE DEF r
  <2> QED  BY <1>1, <1>2, <1>6, <1>8, <2>1, <2>2, AnswerKeeps
<1>9. CASE /\ AdmitList(c) = "ok"
           /\ \E s \in Sorted(Page(c)) : resp' = [resp EXCEPT ![c] =
                Response("ok", [k \in DOMAIN s |-> Shown(s[k], notes[s[k]])])]
  <2>1. PICK s \in Sorted(Page(c)) : resp' = [resp EXCEPT ![c] =
          Response("ok", [k \in DOMAIN s |-> Shown(s[k], notes[s[k]])])]
    BY <1>9
  <2> DEFINE shown == [k \in DOMAIN s |-> Shown(s[k], notes[s[k]])]
             r == Response("ok", shown)
  <2>2. \A n \in Page(c) : n \in NoteIDs /\ notes[n].row.owner = CallOf(c).user
    BY DEF Page, Matching
  <2>3. Cardinality(Page(c)) \in Nat
    <3>1. IsFiniteSet(NoteIDs) /\ Page(c) \subseteq NoteIDs
      BY <2>2, ClientsAssumption DEF ClientsAssumption
    <3> QED  BY <3>1, FS_Subset, FS_CardinalityType
  <2>4. s \in [1 .. Cardinality(Page(c)) -> Page(c)]
    BY DEF Sorted
  <2>5. /\ DOMAIN shown = 1 .. Cardinality(Page(c))
        /\ \A k \in DOMAIN shown : /\ shown[k] \in ShownType
                                   /\ shown[k].note.row.owner = CallOf(c).user
    <3>1. \A k \in 1 .. Cardinality(Page(c)) : s[k] \in Page(c)
      BY <2>4
    <3>2. \A n \in Page(c) : /\ Shown(n, notes[n]) \in ShownType
                             /\ Shown(n, notes[n]).note.row.owner = CallOf(c).user
      BY <2>2 DEF ClientsInv, ClientsTypeOK, Shown, ShownType
    <3> QED  BY <2>4, <3>1, <3>2
  <2>6. shown \in Seq(ShownType)
    BY <2>3, <2>5
  <2> HIDE DEF shown
  <2>7. r \in [code : Codes, shown : Seq(ShownType)] /\ r.shown = shown
        /\ r.code = "ok" /\ resp' = [resp EXCEPT ![c] = r]
    BY <2>1, <2>6 DEF Response, Codes, shown
  <2>8. CallOf(c).user = Caller(c) /\ Caller(c) # 0
    BY <1>2, <1>9, SentHasToken
  <2> HIDE DEF r
  <2> QED  BY <1>1, <1>2, <1>4, <1>6, <1>9, <2>5, <2>7, <2>8, AnswerKeeps
<1> QED  BY <1>7, <1>8, <1>9 DEF List

\* Why a call about one note is refused.
LEMMA VerdictFacts ==
  ASSUME ClientsInv, NEW c \in Clients, step[c] = "sent", input[c].op \in Ops
  PROVE  LET u == CallOf(c)
             scope == IF u.op \in {"list", "search", "get"}
                        THEN "notes:read" ELSE "notes:write"
         IN /\ Verdict(c) \in Codes
            /\ Verdict(c) = "unauthenticated" <=> Caller(c) = 0
            /\ Verdict(c) = "permission_denied" => ~MayDo(c, scope)
            /\ Verdict(c) = "ok" => /\ Caller(c) # 0 /\ MayDo(c, scope)
                                    /\ u.op # "create" =>
                                         /\ u.note \in NoteIDs
                                         /\ notes[u.note].row.owner = Caller(c)
<1> DEFINE u == CallOf(c)
           scope == IF u.op \in {"list", "search", "get"}
                      THEN "notes:read" ELSE "notes:write"
<1>1. u.op \in Ops
  BY CallFacts DEF ClientsInv
<1>2. u.user = Caller(c)
  BY SentHasToken
<1>3. RequiredScope(u.op) = scope /\ scope \in {"notes:read", "notes:write"}
  BY <1>1 DEF RequiredScope, Ops
<1>4. Caller(c) # 0 => (HasScope(u, scope) <=> MayDo(c, scope))
  BY <1>3, SentHasToken
<1> HIDE DEF u, scope
<1>5. /\ Admit(u) \in {"unauthenticated", "invalid_argument", "permission_denied", "ok"}
      /\ Admit(u) = "unauthenticated" <=> Caller(c) = 0
      /\ Admit(u) = "permission_denied" => ~MayDo(c, scope)
      /\ Admit(u) = "ok" => Caller(c) # 0 /\ MayDo(c, scope)
  BY <1>2, <1>3, <1>4 DEF Admit
<1>6. Verdict(c) =
        IF Admit(u) # "ok" THEN Admit(u)
        ELSE IF u.op = "create" THEN "ok"
        ELSE IF u.note \notin NoteIDs \/ notes[u.note].row.owner # u.user
          THEN "not_found"
        ELSE IF u.op = "add" /\ TooManyTags(notes[u.note].tags \cup normalizeTags(u.tags))
          THEN "invalid_argument" ELSE "ok"
  BY DEF Verdict, u
<1>7. /\ Verdict(c) \in Codes
      /\ Verdict(c) = "unauthenticated" <=> Caller(c) = 0
      /\ Verdict(c) = "permission_denied" => ~MayDo(c, scope)
      /\ Verdict(c) = "ok" => /\ Caller(c) # 0 /\ MayDo(c, scope)
                              /\ u.op # "create" =>
                                   /\ u.note \in NoteIDs
                                   /\ notes[u.note].row.owner = Caller(c)
  BY <1>2, <1>5, <1>6 DEF Codes
<1> QED  BY <1>7 DEF u, scope

LEMMA RefusedKeeps ==
  ASSUME ClientsInv, NEW c \in Clients, step[c] = "sent", Refused(c),
         step' = [step EXCEPT ![c] = "answered"],
         done' = [done EXCEPT ![c] = notes' # notes],
         UNCHANGED <<authMode, setting, input, outage, reply, calls>>
  PROVE  ClientsInv'
<1>1. /\ notes' \in [NoteIDs -> Note] /\ issued' \in SUBSET NoteIDs /\ clock' \in Nat
      /\ ClockOK' /\ notes' = notes
  BY DEF ClientsInv, ClientsTypeOK, ClockOK, Refused, service
<1>2. input[c].op \in Ops /\ CallOf(c).op = input[c].op /\ Verdict(c) # "ok"
  BY CallFacts DEF Refused, ClientsInv
<1> DEFINE r == Response(Verdict(c), <<>>)
<1>3. /\ r \in [code : Codes, shown : Seq(ShownType)] /\ DOMAIN r.shown = {}
      /\ r.code = Verdict(c)
  BY <1>2, VerdictFacts DEF Response
<1>4. resp' = [resp EXCEPT ![c] = r]
  BY DEF Refused
<1> HIDE DEF r
<1>5. LET scope == IF input[c].op \in {"list", "search", "get"}
                     THEN "notes:read" ELSE "notes:write"
      IN /\ r.code = "unauthenticated" <=> Caller(c) = 0
         /\ r.code = "permission_denied" => ~MayDo(c, scope)
         /\ r.code # "ok"
  BY <1>2, <1>3, VerdictFacts
<1> QED  BY <1>1, <1>3, <1>4, <1>5, AnswerKeeps

LEMMA GetKeeps ==
  ASSUME ClientsInv, NEW c \in Clients, step[c] = "sent", Get(c),
         step' = [step EXCEPT ![c] = "answered"],
         done' = [done EXCEPT ![c] = notes' # notes],
         UNCHANGED <<authMode, setting, input, outage, reply, calls>>
  PROVE  ClientsInv'
<1>1. /\ notes' \in [NoteIDs -> Note] /\ issued' \in SUBSET NoteIDs /\ clock' \in Nat
      /\ ClockOK' /\ notes' = notes
  BY DEF ClientsInv, ClientsTypeOK, ClockOK, Get, service
<1>2. /\ input[c].op = "get" /\ "get" \in Ops /\ Verdict(c) = "ok"
      /\ CallOf(c).op = input[c].op /\ CallOf(c).note = input[c].note
  BY CallFacts DEF Get, ClientsInv, Ops
<1> DEFINE n == input[c].note
           r == ShowNote(n, notes[n])
<1>3. /\ Caller(c) # 0 /\ MayDo(c, "notes:read")
      /\ n \in NoteIDs /\ notes[n].row.owner = Caller(c)
  BY <1>2, VerdictFacts
<1>4. notes[n] \in Note
  BY <1>3 DEF ClientsInv, ClientsTypeOK
<1>5. /\ r \in [code : Codes, shown : Seq(ShownType)]
      /\ r.code \in {"ok", "internal"}
      /\ \A k \in DOMAIN r.shown : r.shown[k].note = notes[n]
  BY <1>3, <1>4, ShowNoteFacts
<1>6. resp' = [resp EXCEPT ![c] = r]
  BY DEF Get
<1> HIDE DEF r
<1> QED  BY <1>1, <1>2, <1>3, <1>5, <1>6, AnswerKeeps

\* A note is put into the store, with a timestamp that no other has.
LEMMA PutKeeps ==
  ASSUME ClientsInv, NEW c \in Clients, step[c] = "sent",
         input[c].op \in Ops \ {"get"}, Caller(c) # 0, MayDo(c, "notes:write"),
         NEW n \in NoteIDs, NEW note \in Note,
         note.row.owner = Caller(c), note.row.updated = clock + 1,
         Put(c, n, note),
         step' = [step EXCEPT ![c] = "answered"],
         done' = [done EXCEPT ![c] = notes' # notes],
         UNCHANGED <<authMode, setting, input, outage, reply, calls>>
  PROVE  ClientsInv'
<1>1. /\ notes' = [notes EXCEPT ![n] = note] /\ notes \in [NoteIDs -> Note]
      /\ issued' = issued \cup {n} /\ clock' = clock + 1 /\ clock \in Nat
      /\ resp' = [resp EXCEPT ![c] = ShowNote(n, note)]
  BY DEF Put, ClientsInv, ClientsTypeOK
<1>2. /\ notes' \in [NoteIDs -> Note] /\ issued' \in SUBSET NoteIDs /\ clock' \in Nat
  BY <1>1 DEF ClientsInv, ClientsTypeOK
<1>3. \A m \in NoteIDs : notes[m].row.updated \in Nat /\ notes[m].row.updated <= clock
  BY <1>1 DEF ClientsInv, ClockOK, Note, Row
<1>4. ClockOK'
  <2>1. \A m \in NoteIDs : notes'[m].row.updated <= clock + 1
    BY <1>1, <1>3
  <2> QED  BY <1>1, <2>1 DEF ClockOK
<1>5. notes' # notes
  <2>1. notes'[n].row.updated = clock + 1  BY <1>1
  <2> QED  BY <1>1, <1>3, <2>1
<1> DEFINE r == ShowNote(n, note)
<1>6. /\ r \in [code : Codes, shown : Seq(ShownType)]
      /\ r.code \in {"ok", "internal"}
      /\ \A k \in DOMAIN r.shown : r.shown[k].note = note
      /\ resp' = [resp EXCEPT ![c] = r]
  BY <1>1, ShowNoteFacts
<1>7. input[c].op \notin {"list", "search", "get"}
  BY DEF Ops
<1> HIDE DEF r
<1> QED  BY <1>2, <1>4, <1>5, <1>6, <1>7, AnswerKeeps

LEMMA WriteKeeps ==
  ASSUME ClientsInv, NEW c \in Clients, step[c] = "sent", Write(c),
         step' = [step EXCEPT ![c] = "answered"],
         done' = [done EXCEPT ![c] = notes' # notes],
         UNCHANGED <<authMode, setting, input, outage, reply, calls>>
  PROVE  ClientsInv'
<1> DEFINE u == CallOf(c)
<1>1. /\ input[c].op \in {"create", "update", "add"} /\ Verdict(c) = "ok"
      /\ input[c].op \in Ops \ {"get"} /\ u.op = input[c].op
      /\ u.op \notin {"list", "search", "get"}
  BY CallFacts DEF Write, ClientsInv, Ops
<1>2. /\ Caller(c) # 0 /\ MayDo(c, "notes:write")
      /\ u.op # "create" => u.note \in NoteIDs /\ notes[u.note].row.owner = Caller(c)
  BY <1>1, VerdictFacts
<1>3. /\ u.user = Caller(c) /\ Caller(c) \in Owners \cup {0}
      /\ u.body \in Bodies /\ normalizeTags(u.tags) \in SUBSET Tags
      /\ normalizeStatus(u.status) \in Statuses
  BY SentHasToken, CallFacts, NormalTags DEF ClientsInv
<1>4. clock + 1 \in Nat /\ notes \in [NoteIDs -> Note]
  BY DEF ClientsInv, ClientsTypeOK
<1>5. CASE u.op = "create"
  <2>1. PICK n \in NoteIDs \ issued : Put(c, n, Created(u))
    BY <1>5, <1>1 DEF Write
  <2>2. /\ Created(u) \in Note /\ Created(u).row.owner = Caller(c)
        /\ Created(u).row.updated = clock + 1
    BY <1>3, <1>4 DEF Created, Note, Row
  <2> QED  BY <1>1, <1>2, <2>1, <2>2, PutKeeps
<1>6. CASE u.op = "update"
  <2>1. Put(c, u.note, Replaced(u, notes[u.note]))
    BY <1>6, <1>1 DEF Write
  <2> DEFINE old == notes[u.note]
  <2>2. old \in Note /\ old.row.owner = Caller(c)
    BY <1>2, <1>4, <1>6
  <2> HIDE DEF old
  <2>3. /\ Replaced(u, old) \in Note /\ Replaced(u, old).row.owner = Caller(c)
        /\ Replaced(u, old).row.updated = clock + 1
    BY <1>3, <1>4, <2>2 DEF Replaced, Note, Row
  <2> QED  BY <1>1, <1>2, <1>6, <2>1, <2>3, PutKeeps DEF old
<1>7. CASE u.op = "add"
  <2>1. Put(c, u.note, Tagged(u, notes[u.note]))
    BY <1>7, <1>1 DEF Write
  <2> DEFINE old == notes[u.note]
  <2>2. old \in Note /\ old.row.owner = Caller(c)
    BY <1>2, <1>4, <1>7
  <2> HIDE DEF old
  <2>3. /\ Tagged(u, old) \in Note /\ Tagged(u, old).row.owner = Caller(c)
        /\ Tagged(u, old).row.updated = clock + 1
    BY <1>3, <1>4, <2>2 DEF Tagged, Note, Row
  <2> QED  BY <1>1, <1>2, <1>7, <2>1, <2>3, PutKeeps DEF old
<1> QED  BY <1>1, <1>5, <1>6, <1>7

LEMMA DeleteKeeps ==
  ASSUME ClientsInv, NEW c \in Clients, step[c] = "sent", Delete(c),
         step' = [step EXCEPT ![c] = "answered"],
         done' = [done EXCEPT ![c] = notes' # notes],
         UNCHANGED <<authMode, setting, input, outage, reply, calls>>
  PROVE  ClientsInv'
<1> DEFINE n == input[c].note
<1>1. /\ input[c].op = "delete" /\ "delete" \in Ops /\ Verdict(c) = "ok"
      /\ CallOf(c).op = "delete" /\ CallOf(c).note = n
  BY CallFacts DEF Delete, ClientsInv, Ops
<1>2. /\ Caller(c) # 0 /\ MayDo(c, "notes:write")
      /\ n \in NoteIDs /\ notes[n].row.owner = Caller(c)
  BY <1>1, VerdictFacts
<1>3. NoNote \in Note /\ NoNote.row.owner = 0 /\ NoNote.row.updated = 0
  <2>1. "" \in Bodies  BY InputFacts
  <2> QED  BY <2>1 DEF NoNote, NoRow, Note, Row, Statuses
<1>4. /\ notes' = [notes EXCEPT ![n] = NoNote] /\ notes \in [NoteIDs -> Note]
      /\ issued' = issued /\ clock' = clock /\ clock \in Nat
      /\ resp' = [resp EXCEPT ![c] = Response("ok", <<>>)]
  BY DEF Delete, ClientsInv, ClientsTypeOK
<1>5. /\ notes' \in [NoteIDs -> Note] /\ issued' \in SUBSET NoteIDs /\ clock' \in Nat
  BY <1>3, <1>4 DEF ClientsInv, ClientsTypeOK
<1>6. ClockOK'
  <2>1. \A m \in NoteIDs : notes[m].row.updated <= clock
    BY DEF ClientsInv, ClockOK
  <2>2. \A m \in NoteIDs : notes'[m].row.updated <= clock
    BY <1>3, <1>4, <2>1
  <2> QED  BY <1>4, <2>2 DEF ClockOK
<1>7. notes' # notes
  <2>1. notes'[n].row.owner = 0  BY <1>2, <1>3, <1>4
  <2> QED  BY <1>2, <2>1
<1> DEFINE r == Response("ok", <<>>)
<1>8. /\ r \in [code : Codes, shown : Seq(ShownType)] /\ DOMAIN r.shown = {}
      /\ r.code = "ok" /\ resp' = [resp EXCEPT ![c] = r]
  BY <1>4 DEF Response, Codes
<1> HIDE DEF r
<1> QED  BY <1>1, <1>2, <1>5, <1>6, <1>7, <1>8, AnswerKeeps

LEMMA ServeKeeps ==
  ASSUME ClientsInv, NEW c \in Clients, Serve(c)
  PROVE  ClientsInv'
<1>1. /\ step[c] = "sent" /\ step' = [step EXCEPT ![c] = "answered"]
      /\ done' = [done EXCEPT ![c] = notes' # notes]
      /\ UNCHANGED <<authMode, setting, input, outage, reply, calls>>
      /\ List(c) \/ Refused(c) \/ Get(c) \/ Write(c) \/ Delete(c)
  BY DEF Serve
<1> QED  BY <1>1, ListKeeps, RefusedKeeps, GetKeeps, WriteKeeps, DeleteKeeps

LEMMA StutterKeeps ==
  ASSUME ClientsInv, UNCHANGED vars
  PROVE  ClientsInv'
<1>1. UNCHANGED <<authMode, setting>>
      /\ \A d \in Clients : /\ step'[d] = step[d] /\ input'[d] = input[d]
                            /\ resp'[d] = resp[d] /\ reply'[d] = reply[d]
                            /\ done'[d] = done[d]
                            /\ d \in outage' <=> d \in outage
  BY DEF vars
<1>2. ClientsTypeOK' /\ ClockOK'
  BY DEF ClientsInv, ClientsTypeOK, ClockOK, vars
<1>3. ASSUME NEW d \in Clients
      PROVE  TokenDecides!(d)' /\ RepliesTellTruth!(d)' /\ AnswerOK!(d)'
  BY <1>1, OthersKeep
<1> QED  BY <1>2, <1>3 DEF ClientsInv, TokenDecides, RepliesTellTruth, AnswerOK

-----------------------------------------------------------------------------
\* Whatever is asked by however many programs with whatever tokens, notes stay
\* well formed and every user sees and changes what his token allows.
THEOREM ClientsInvariant == Spec => []ClientsInv
<1>1. Init => ClientsInv
  BY InitClientsInv
<1>2. ClientsInv /\ [Next]_vars => ClientsInv'
  BY InvokeKeeps, ServeKeeps, ReplyKeeps, GiveUpKeeps, StutterKeeps DEF Next
<1> QED  BY <1>1, <1>2, PTL DEF Spec

\* The token that a program uses decides what it sees and changes.
THEOREM TokensDecide == Spec => []TokenDecides
<1>1. ClientsInv => TokenDecides
  BY DEF ClientsInv
<1> QED  BY <1>1, ClientsInvariant, PTL

\* What a program tells its user of a refused or a successful write is true.
THEOREM RepliesAreTrue == Spec => []RepliesTellTruth
<1>1. ClientsInv => RepliesTellTruth
  BY DEF ClientsInv
<1> QED  BY <1>1, ClientsInvariant, PTL

-----------------------------------------------------------------------------
\* Nothing refuses a note that is saved as it was shown.
LEMMA SaveIsAdmitted ==
  ASSUME ClientsInv, NEW c \in Clients, NEW n \in NoteIDs, step[c] = "sent",
         input[c] = WriteBack(Output(Shown(n, notes[n]))),
         ValidNote(notes[n]), notes[n].row.owner = Caller(c),
         Caller(c) # 0, MayDo(c, "notes:write"),
         setting[c].program = "cli" => \A t \in notes[n].tags : Parts[t] = {t}
  PROVE  /\ Verdict(c) = "ok" /\ CallOf(c).note = n
         /\ CallOf(c).op = "update" /\ input[c].op = "update"
         /\ CallOf(c).body = notes[n].row.body
         /\ normalizeStatus(CallOf(c).status) = notes[n].row.status
         /\ normalizeTags(CallOf(c).tags) = notes[n].tags
<1> DEFINE old == notes[n]
           u == CallOf(c)
<1>1. old \in Note
  BY DEF ClientsInv, ClientsTypeOK
<1>2. old.tags \in SUBSET Tags /\ old.row.status \in Statuses
  BY <1>1 DEF Note, Row
<1>3. /\ input[c].op = "update" /\ input[c].note = n /\ input[c].titled = TRUE
      /\ input[c].body = old.row.body /\ input[c].tags = old.tags
      /\ input[c].status = old.row.status
  BY DEF WriteBack, Output, Shown
<1>4. /\ u.op = "update" /\ u.note = n /\ u.titled = TRUE
      /\ u.body = old.row.body /\ u.status = noteStatusFromString(old.row.status)
      /\ u.tags = IF setting[c].program = "cli" THEN SplitTags(old.tags) ELSE old.tags
  BY <1>3 DEF CallOf
<1>5. u.tags = old.tags
  BY <1>2, <1>4, TagsStay
<1>6. u.status = old.row.status /\ normalizeStatus(u.status) = old.row.status
  BY <1>2, <1>4, StatusStays
<1>7. normalizeTags(u.tags) = old.tags /\ \A t \in u.tags : Norm[t] # Blank
  BY <1>2, <1>5, TagsStay
<1>8. Cardinality(old.tags) \in Nat /\ Cardinality(old.tags) <= MaxTags /\ MaxTags \in Nat
  <2>1. IsFiniteSet(old.tags)
    BY <1>2, FS_Subset, RulesAssumption DEF RulesAssumption
  <2> QED  BY <2>1, FS_CardinalityType, RulesAssumption DEF ValidNote, RulesAssumption
<1>9. u.user = Caller(c) /\ HasScope(u, "notes:write")
  BY SentHasToken
<1>10. n # NilID
  BY RulesAssumption DEF RulesAssumption
<1>11. u.status # "unspecified"
  BY <1>2, <1>6 DEF Statuses
<1> HIDE DEF u, old
<1>12. ValidRequest(u)
  BY <1>4, <1>5, <1>7, <1>8, <1>11 DEF ValidRequest, ValidTagList
<1>13. Normalizes(u) /\ NamesANote(u) /\ RequiredScope(u.op) = "notes:write"
  BY <1>4, <1>7, <1>8, <1>10 DEF Normalizes, NamesANote, TooManyTags, RequiredScope
<1>14. Admit(u) = "ok"
  BY <1>9, <1>12, <1>13 DEF Admit
<1>15. Verdict(c) = "ok"
  BY <1>4, <1>9, <1>14 DEF Verdict, u
<1> QED  BY <1>3, <1>4, <1>6, <1>7, <1>15 DEF u, old

\* What the clients show of a note can be saved as it is, on the command line
\* when -tags cuts none of its tags.
THEOREM SavedNotesStay == Spec => RoundTrip
<1>1. ASSUME ClientsInv, NEW c \in Clients, NEW n \in NoteIDs, Serve(c),
             input[c] = WriteBack(Output(Shown(n, notes[n]))),
             ValidNote(notes[n]), notes[n].row.owner = Caller(c),
             Caller(c) # 0, MayDo(c, "notes:write"),
             setting[c].program = "cli" => \A t \in notes[n].tags : Parts[t] = {t}
      PROVE  /\ notes'[n] = [notes[n] EXCEPT !.row.updated = clock']
             /\ resp'[c].code = "ok"
  <2> DEFINE old == notes[n]
             new == Replaced(CallOf(c), old)
  <2>1. step[c] = "sent"
    BY <1>1 DEF Serve
  <2>2. /\ Verdict(c) = "ok" /\ CallOf(c).note = n
        /\ CallOf(c).op = "update" /\ input[c].op = "update"
        /\ CallOf(c).body = old.row.body
        /\ normalizeStatus(CallOf(c).status) = old.row.status
        /\ normalizeTags(CallOf(c).tags) = old.tags
    BY <1>1, <2>1, SaveIsAdmitted
  <2>3. Write(c)
    BY <1>1, <2>2 DEF Serve, List, Refused, Get, Delete
  <2>4. Put(c, n, new)
    BY <2>2, <2>3 DEF Write
  <2>5. old \in Note
    BY <1>1 DEF ClientsInv, ClientsTypeOK
  <2>6. new = [old EXCEPT !.row.updated = clock + 1]
    <3> DEFINE row == old.row
               newRow == [row EXCEPT !.body = row.body, !.updated = clock + 1,
                                     !.status = row.status]
    <3>1. new = [row |-> newRow, tags |-> old.tags]
      BY <2>2 DEF Replaced
    <3>2. row \in Row
      BY <2>5 DEF Note
    <3>3. newRow = [row EXCEPT !.updated = clock + 1]
      <4> HIDE DEF row
      <4> QED  BY <3>2 DEF Row
    <3>4. [old EXCEPT !.row.updated = clock + 1]
            = [row |-> [row EXCEPT !.updated = clock + 1], tags |-> old.tags]
      <4> HIDE DEF old
      <4> QED  BY <2>5 DEF Note
    <3> QED  BY <3>1, <3>3, <3>4
  <2>7. ValidNote(new)
    <3>1. new.row.body = old.row.body /\ new.tags = old.tags
      BY <2>5, <2>6 DEF Note, Row
    <3> QED  BY <1>1, <3>1 DEF ValidNote
  <2> HIDE DEF new
  <2>8. /\ notes' = [notes EXCEPT ![n] = new] /\ clock' = clock + 1
        /\ resp' = [resp EXCEPT ![c] = ShowNote(n, new)]
    BY <2>4 DEF Put
  <2>9. notes'[n] = new /\ resp'[c] = ShowNote(n, new)
    BY <1>1, <2>8 DEF ClientsInv, ClientsTypeOK
  <2> QED  BY <2>6, <2>7, <2>8, <2>9 DEF ShowNote, Response
<1>2. ClientsInv /\ [Next]_vars => RoundTrip!1
  BY <1>1
<1> QED  BY <1>2, ClientsInvariant, PTL DEF Spec, RoundTrip

-----------------------------------------------------------------------------
\* A page shows the newest notes, newest first, and as many as asked for.

LEMMA LatestExists ==
  ASSUME ClientsInv, NEW S \in SUBSET NoteIDs, S # {}
  PROVE  \E n \in S : \A m \in S : ~(notes[m].row.updated > notes[n].row.updated)
<1> DEFINE stamp(n) == notes[n].row.updated
           ages == {clock - stamp(n) : n \in S}
<1>1. clock \in Nat /\ \A n \in NoteIDs : stamp(n) \in Nat /\ stamp(n) <= clock
  BY DEF ClientsInv, ClientsTypeOK, ClockOK, Note, Row
<1>2. ages \in SUBSET Nat /\ ages # {}
  BY <1>1
<1>3. PICK age \in ages : \A other \in ages : ~ (<<other, age>> \in OpToRel(<, Nat))
  <2>. HIDE DEF ages
  <2>. QED  BY <1>2, WFMin, NatLessThanWellFounded
<1>4. \A other \in ages : ~ (other < age)
  <2>1. \A other \in ages : other \in Nat /\ age \in Nat
    BY <1>2
  <2>. HIDE DEF ages
  <2>. QED  BY <1>3, <2>1 DEF OpToRel
<1>5. PICK n \in S : age = clock - stamp(n)
  OBVIOUS
<1>6. \A m \in S : ~(clock - stamp(m) < clock - stamp(n))
  BY <1>4, <1>5
<1>7. \A m \in S : ~(stamp(m) > stamp(n))
  <2>1. \A m \in S : stamp(m) \in Nat /\ stamp(n) \in Nat
    BY <1>1
  <2>. HIDE DEF stamp
  <2>. QED  BY <1>1, <1>6, <2>1
<1>. QED  BY <1>7

LEMMA FiniteNotes ==
  ASSUME NEW S \in SUBSET NoteIDs
  PROVE  IsFiniteSet(S) /\ Cardinality(S) \in Nat
BY ClientsAssumption, FS_Subset, FS_CardinalityType DEF ClientsAssumption

\* The first `limit' of S, as Sorted lists them, are its newest.
LEMMA SortedPage ==
  ASSUME ClientsInv, NEW S \in SUBSET NoteIDs, NEW limit \in Nat,
         NEW page, page = {n \in S : Cardinality(Newer(n, S)) < limit},
         NEW s \in Sorted(page)
  PROVE  /\ Cardinality(page) = IF Cardinality(S) < limit THEN Cardinality(S) ELSE limit
         /\ \A k \in 1 .. Cardinality(page) :
              s[k] \in S /\ Newer(s[k], S) = {s[j] : j \in 1 .. k - 1}
<1> DEFINE p == Cardinality(page)
           stamp(n) == notes[n].row.updated
<1>1. IsFiniteSet(page) /\ p \in Nat /\ page \in SUBSET S /\ Cardinality(S) \in Nat
      /\ page \in SUBSET NoteIDs /\ IsFiniteSet(S)
  BY FiniteNotes
<1>2. /\ s \in [1 .. p -> page]
      /\ \A k \in 1 .. p : Newer(s[k], page) = {s[j] : j \in 1 .. k - 1}
  BY DEF Sorted
<1>3. \A n \in S : stamp(n) \in Nat
  BY DEF ClientsInv, ClientsTypeOK, Note, Row
<1>4. \A n \in S : /\ Newer(n, S) \in SUBSET S /\ IsFiniteSet(Newer(n, S))
                   /\ Cardinality(Newer(n, S)) \in Nat
  <2> SUFFICES ASSUME NEW n \in S
               PROVE  /\ Newer(n, S) \in SUBSET S /\ IsFiniteSet(Newer(n, S))
                      /\ Cardinality(Newer(n, S)) \in Nat
    OBVIOUS
  <2>1. Newer(n, S) \in SUBSET S
    BY DEF Newer
  <2>2. Newer(n, S) \in SUBSET NoteIDs
    BY <2>1
  <2>. QED  BY <2>1, <2>2, FiniteNotes
\* The page has with a note all that are newer.
<1>5. \A n \in page : Newer(n, S) \subseteq page
  <2> SUFFICES ASSUME NEW n \in page, NEW m \in Newer(n, S) PROVE m \in page
    OBVIOUS
  <2>1. n \in S /\ m \in S /\ stamp(m) > stamp(n)
    BY <1>1 DEF Newer
  <2>2. Newer(m, S) \in SUBSET Newer(n, S)
    <3> SUFFICES ASSUME NEW x \in S, stamp(x) > stamp(m) PROVE stamp(x) > stamp(n)
      BY DEF Newer
    <3>1. stamp(x) \in Nat /\ stamp(m) \in Nat /\ stamp(n) \in Nat
      BY <1>3, <2>1
    <3>. HIDE DEF stamp
    <3>. QED  BY <2>1, <3>1
  <2>3. Cardinality(Newer(m, S)) <= Cardinality(Newer(n, S))
    BY <1>4, <2>1, <2>2, FS_Subset
  <2>4. Cardinality(Newer(m, S)) < limit
    BY <1>4, <2>1, <2>3
  <2>. QED  BY <2>1, <2>4
<1>6. \A n \in page : Newer(n, S) = Newer(n, page)
  BY <1>1, <1>5 DEF Newer
<1>7. \A k \in 1 .. p : s[k] \in S /\ Newer(s[k], S) = {s[j] : j \in 1 .. k - 1}
  <2> SUFFICES ASSUME NEW k \in 1 .. p
               PROVE  s[k] \in S /\ Newer(s[k], S) = {s[j] : j \in 1 .. k - 1}
    OBVIOUS
  <2>1. s[k] \in page
    BY <1>2
  <2>. QED  BY <1>1, <1>2, <1>6, <2>1
<1>8. p <= limit
  <2>1. CASE p = 0
    BY <2>1
  <2>2. CASE p # 0
    <3> DEFINE n == s[p]
               first == [j \in 1 .. p - 1 |-> s[j]]
    <3>1. p \in 1 .. p /\ p - 1 \in Nat
      BY <1>1, <2>2
    <3>2. n \in page /\ n \in S /\ Newer(n, S) = {s[j] : j \in 1 .. p - 1}
      BY <1>1, <1>2, <1>7, <3>1
    <3>3. \A i, j \in 1 .. p - 1 : i # j => s[i] # s[j]
      <4>1. \A i, j \in 1 .. p : i < j => s[i] \in Newer(s[j], S)
        <5> SUFFICES ASSUME NEW i \in 1 .. p, NEW j \in 1 .. p, i < j
                     PROVE  s[i] \in Newer(s[j], S)
          OBVIOUS
        <5>1. i \in 1 .. j - 1
          BY <1>1
        <5>. QED  BY <1>7, <5>1
      <4>2. \A m \in S : m \notin Newer(m, S)
        BY <1>3 DEF Newer
      <4>3. \A i, j \in 1 .. p : i < j => s[i] # s[j]
        BY <1>7, <4>1, <4>2
      <4>4. \A i, j \in 1 .. p - 1 : i \in 1 .. p /\ j \in 1 .. p /\ (i # j => i < j \/ j < i)
        BY <1>1
      <4>. QED  BY <4>3, <4>4
    <3>4. first \in Injection(1 .. p - 1, Newer(n, S))
      BY <3>2, <3>3 DEF Injection, IsInjective
    <3>5. Cardinality(1 .. p - 1) <= Cardinality(Newer(n, S))
      <4>1. IsFiniteSet(Newer(n, S))
        BY <1>4, <3>2
      <4>. HIDE DEF first, n, p
      <4>. QED  BY <3>4, <4>1, FS_Injection
    <3>6. Cardinality(1 .. p - 1) = p - 1
      <4>. HIDE DEF p
      <4>1. p - 1 \in Int /\ 1 \in Int
        BY <3>1
      <4>2. Cardinality(1 .. p - 1) = IF 1 > p - 1 THEN 0 ELSE (p - 1) - 1 + 1
        BY <4>1, FS_Interval
      <4>. QED  BY <3>1, <4>2
    <3>7. Cardinality(Newer(n, S)) < limit
      BY <3>2
    <3>8. Cardinality(Newer(n, S)) \in Nat
      BY <1>4, <3>2
    <3>. HIDE DEF p, n
    <3>. QED  BY <1>1, <3>1, <3>5, <3>6, <3>7, <3>8
  <2>. QED  BY <2>1, <2>2
<1>9. CASE page = S
  <2>1. p = Cardinality(S)
    BY <1>9
  <2>2. p = IF Cardinality(S) < limit THEN Cardinality(S) ELSE limit
    <3>. HIDE DEF p
    <3>. QED  BY <1>1, <1>8, <2>1
  <2>. QED  BY <1>7, <2>2
<1>10. CASE page # S
  <2>1. PICK n \in S \ page : \A m \in S \ page : ~(stamp(m) > stamp(n))
    <3>1. S \ page # {} /\ S \ page \in SUBSET NoteIDs
      BY <1>1, <1>10
    <3>. QED  BY <3>1, LatestExists
  <2>2. Newer(n, S) \in SUBSET page
    BY <2>1 DEF Newer
  <2>3. Cardinality(Newer(n, S)) <= p /\ p <= Cardinality(S)
    BY <1>1, <2>2, FS_Subset
  <2>4. ~(Cardinality(Newer(n, S)) < limit)
    BY <2>1
  <2>5. Cardinality(Newer(n, S)) \in Nat
    BY <1>4, <2>1
  <2>6. p = IF Cardinality(S) < limit THEN Cardinality(S) ELSE limit
    <3>. HIDE DEF p
    <3>. QED  BY <1>1, <1>8, <2>3, <2>4, <2>5
  <2>. QED  BY <1>7, <2>6
<1>. QED  BY <1>9, <1>10

\* A number that is an int32 is sent as it is.
LEMMA Int32Stays ==
  ASSUME NEW n \in -Half .. Half - 1
  PROVE  int32(n) = n
<1>1. Half \in Nat
  BY ClientsAssumption DEF ClientsAssumption
<1>. QED  BY <1>1 DEF int32

\* What becomes of the number asked for.
LEMMA LimitFacts ==
  ASSUME ClientsInv, NEW c \in Clients, input[c].limit \in -Half .. Half - 1,
         input[c].op \in {"list", "search"}
  PROVE  LET i == input[c]
             wanted == IF i.limit = 0 THEN DefaultLimit ELSE i.limit
             ignored == setting[c].program = "mcp" /\ i.op = "search" /\ i.limit < 0
         IN /\ LimitOf(c) \notin 0 .. MaxLimit
                 <=> i.limit \notin 0 .. MaxLimit /\ ~ignored
            /\ i.limit >= 0 => normalizeLimit(LimitOf(c)) = wanted
<1> DEFINE limit == input[c].limit
<1>1. MaxLimit \in Nat /\ limit \in Int /\ Half \in Nat
  <2>1. Half \in Nat /\ MaxLimit \in 1 .. Half - 1
    BY ClientsAssumption DEF ClientsAssumption
  <2>. QED  BY <2>1
<1>2. LimitOf(c) = IF setting[c].program = "mcp" /\ input[c].op = "search" /\ limit <= 0
                     THEN 0 ELSE limit
  BY Int32Stays DEF LimitOf
<1>. HIDE DEF limit
<1>3. CASE setting[c].program = "mcp" /\ input[c].op = "search" /\ limit <= 0
  BY <1>1, <1>2, <1>3 DEF normalizeLimit, limit
<1>4. CASE ~(setting[c].program = "mcp" /\ input[c].op = "search" /\ limit <= 0)
  BY <1>1, <1>2, <1>4 DEF normalizeLimit, limit
<1>. QED  BY <1>3, <1>4

LEMMA ListAnswers ==
  ASSUME ClientsInv, NEW c \in Clients, Serve(c), input[c].op \in {"list", "search"}
  PROVE  \/ /\ AdmitList(c) # "ok" /\ resp'[c] = Response(AdmitList(c), <<>>)
         \/ /\ AdmitList(c) = "ok" /\ resp'[c] = Response("internal", <<>>)
         \/ /\ AdmitList(c) = "ok"
            /\ \E s \in Sorted(Page(c)) : resp'[c] =
                 Response("ok", [k \in DOMAIN s |-> Shown(s[k], notes[s[k]])])
<1>1. List(c)
  BY DEF Serve, Refused, Get, Write, Delete, Ops
<1>2. DOMAIN resp = Clients
  BY DEF ClientsInv, ClientsTypeOK
<1>. QED  BY <1>1, <1>2 DEF List

\* list and search show what was asked for (ListRecentNotes, SearchNotes, and
\* the limits of the MCP server and of the command line).
THEOREM PagesAreAsAsked == Spec => PageAsAsked
<1>1. ASSUME ClientsInv, NEW c \in Clients, Serve(c),
             input[c].op \in {"list", "search"},
             Caller(c) # 0, MayDo(c, "notes:read"),
             input[c].limit \in -Half .. Half - 1
      PROVE  LET i == input[c]
                 shown == resp'[c].shown
                 wanted == IF i.limit = 0 THEN DefaultLimit ELSE i.limit
                 all == Matching(c)
                 ignored == setting[c].program = "mcp" /\ i.op = "search" /\ i.limit < 0
                 bad == i.limit \notin 0 .. MaxLimit /\ ~ignored
             IN /\ bad <=> resp'[c].code = "invalid_argument"
                /\ resp'[c].code = "ok" /\ i.limit >= 0 =>
                     Len(shown) = IF Cardinality(all) < wanted
                                    THEN Cardinality(all) ELSE wanted
                /\ \A k \in DOMAIN shown :
                     /\ shown[k].id \in all
                     /\ Newer(shown[k].id, all) = {shown[j].id : j \in 1 .. k - 1}
  <2> USE <1>1
  <2> DEFINE i == input[c]
             shown == resp'[c].shown
             wanted == IF i.limit = 0 THEN DefaultLimit ELSE i.limit
             all == Matching(c)
             ignored == setting[c].program = "mcp" /\ i.op = "search" /\ i.limit < 0
             bad == i.limit \notin 0 .. MaxLimit /\ ~ignored
             limit == normalizeLimit(LimitOf(c))
  <2>1. step[c] = "sent"
    BY DEF Serve
  <2>2. (LimitOf(c) \notin 0 .. MaxLimit <=> bad) /\ (i.limit >= 0 => limit = wanted)
    BY LimitFacts
  <2>3. CallOf(c).user # 0 /\ HasScope(CallOf(c), "notes:read")
    BY <2>1, SentHasToken
  <2>4. (AdmitList(c) = "invalid_argument" <=> bad) /\ (AdmitList(c) = "ok" <=> ~bad)
    BY <2>2, <2>3 DEF AdmitList
  <2>5. CASE AdmitList(c) # "ok" /\ resp'[c] = Response(AdmitList(c), <<>>)
    <3>1. resp'[c].code = AdmitList(c) /\ shown = <<>>
      BY <2>5 DEF Response
    <3>2. DOMAIN shown = {}
      BY <3>1
    <3>. QED  BY <2>4, <2>5, <3>1, <3>2
  <2>6. CASE AdmitList(c) = "ok" /\ resp'[c] = Response("internal", <<>>)
    <3>1. resp'[c].code = "internal" /\ shown = <<>>
      BY <2>6 DEF Response
    <3>2. DOMAIN shown = {}
      BY <3>1
    <3>. QED  BY <2>4, <2>6, <3>1, <3>2
  <2>7. CASE /\ AdmitList(c) = "ok"
             /\ \E s \in Sorted(Page(c)) : resp'[c] =
                  Response("ok", [k \in DOMAIN s |-> Shown(s[k], notes[s[k]])])
    <3>1. PICK s \in Sorted(Page(c)) : resp'[c] =
            Response("ok", [k \in DOMAIN s |-> Shown(s[k], notes[s[k]])])
      BY <2>7
    <3> DEFINE p == Cardinality(Page(c))
    <3>2. resp'[c].code = "ok" /\ shown = [k \in DOMAIN s |-> Shown(s[k], notes[s[k]])]
      BY <3>1 DEF Response
    <3>3. all \in SUBSET NoteIDs /\ Page(c) = {n \in all : Cardinality(Newer(n, all)) < limit}
      BY DEF Matching, Page
    <3>4. limit \in Nat
      <4>1. LimitOf(c) \in 0 .. MaxLimit
        BY <2>2, <2>4, <2>7
      <4>2. DefaultLimit \in Nat /\ MaxLimit \in Nat
        <5>1. Half \in Nat /\ MaxLimit \in 1 .. Half - 1 /\ DefaultLimit \in 1 .. MaxLimit
          BY ClientsAssumption DEF ClientsAssumption
        <5>. QED  BY <5>1
      <4>. QED  BY <4>1, <4>2 DEF normalizeLimit
    <3> HIDE DEF limit
    <3>5. /\ p = IF Cardinality(all) < limit THEN Cardinality(all) ELSE limit
          /\ \A k \in 1 .. p : s[k] \in all /\ Newer(s[k], all) = {s[j] : j \in 1 .. k - 1}
      <4> HIDE DEF all
      <4>. QED  BY <3>3, <3>4, SortedPage
    <3>6. p \in Nat /\ s \in [1 .. p -> Page(c)]
      <4>1. Page(c) \in SUBSET NoteIDs
        BY <3>3
      <4>. QED  BY <4>1, FiniteNotes DEF Sorted
    <3>7. DOMAIN shown = 1 .. p /\ Len(shown) = p
      BY <3>2, <3>6
    <3>8. \A k \in 1 .. p : shown[k].id = s[k]
      BY <3>2, <3>6 DEF Shown
    <3> HIDE DEF shown, p
    <3>9. \A k \in 1 .. p : {shown[j].id : j \in 1 .. k - 1} = {s[j] : j \in 1 .. k - 1}
      <4> SUFFICES ASSUME NEW k \in 1 .. p
                   PROVE  \A j \in 1 .. k - 1 : shown[j].id = s[j]
        OBVIOUS
      <4>1. \A j \in 1 .. k - 1 : j \in 1 .. p
        BY <3>6
      <4>. QED  BY <3>8, <4>1
    <3>10. \A k \in DOMAIN shown :
             /\ shown[k].id \in all
             /\ Newer(shown[k].id, all) = {shown[j].id : j \in 1 .. k - 1}
      BY <3>5, <3>7, <3>8, <3>9
    <3>11. ~bad /\ resp'[c].code # "invalid_argument"
      BY <2>4, <2>7, <3>2
    <3>12. i.limit >= 0 => Len(shown) = IF Cardinality(all) < wanted
                                          THEN Cardinality(all) ELSE wanted
      BY <2>2, <3>5, <3>7
    <3> HIDE DEF all, bad, wanted
    <3>. QED  BY <3>10, <3>11, <3>12 DEF shown, all, bad, wanted
  <2>. QED  BY <2>5, <2>6, <2>7, ListAnswers
<1>2. ClientsInv /\ [Next]_vars => PageAsAsked!1
  BY <1>1
<1> QED  BY <1>2, ClientsInvariant, PTL DEF Spec, PageAsAsked
=============================================================================
