# Specifications of go-mcp-markdown-notes

TLA+ models of the notes service, its TLC configurations and TLAPS proofs.
Paths below are relative to `src/`. Every definition that stands for code is
listed with its lines in `PROJECT.json` ("map"); "external" there marks what is
not in the repository (PostgreSQL, the auth service, users) and is modelled
from how the code uses it.

## 1. The system

A personal notes store. `notes-server` answers the Connect service
`NotesService` from PostgreSQL; a web client, an MCP server and a command line
client call it. Users are identified by tokens that an external auth service
issues: JWTs, or personal access tokens (PATs) that are introspected.

| Component | State | Operations | Talks to |
|---|---|---|---|
| Handlers and service (`pkg/notes/connect_server.go`, `service.go`) | none of its own; one goroutine per request | CreateNote, GetNote, AddTags, UpdateNote, DeleteNote, ListRecentNotes, SearchNotes | interceptors before it, repository behind it |
| Repository and schema (`storage_postgres.go`, `sql.go`, `module/db/migrations`) | tables `notes`, `note_tags`; connection pool | one transaction per write, then a re-read on another connection; trigger on `updated_at`; cascade | PostgreSQL |
| Pagination (`pagination.go`) | none: a token is an offset | ParsePageToken, NextSearchPageToken | handlers |
| Verifiers and interceptor (`pkg/authadapter`) | PAT cache (token hash -> user, expiry) | VerifyBearerToken | auth service |
| Migrations (`module/migrate.go`) | `schema_migrations`, advisory lock | Migrate at start-up | PostgreSQL, other servers starting |
| Verifiers without state (`verifiers.go`, `composite_verifier.go`) | none | VerifyBearerToken: dev token, JWT, or PAT by its prefix | the PAT verifier |
| `cmd/notes-server`, module wiring | configuration, pool, listener, connections | loadConfig, newApplication, serve, Shutdown | all of the above |
| MCP server (`pkg/mcpnotes`) | its token | one RPC per tool call; hints for refusals | notes-server |
| Go client and CLI (`pkg/notesclient`, `cmd/notes-client`) | its token, first of flag and two variables | one RPC per command, after checks of its own | notes-server |
| Web client, session (`notesFront/src/auth.ts`, `connect.ts`, `app.ts`) | current token, re-mint timer, mode | mintToken, scheduleRemint, clearAuth, signOut, callConnectRPC with one retry | auth service, notes-server |
| Web client, list (`notes-ui.ts`, `lib/notes-pagination.ts`) | view state (token, stack of tokens, next token), list displayed, bar | list, search, Next, Previous, refresh after writes | notes-server |

What is hard in it:

* Concurrency: requests of one user meet on one note; every write is several
  statements, and AddTags reads outside its transaction. Calls with one PAT
  share the cache. Processes of two versions start together and migrate one
  database, while others serve. In the browser, everything between two awaits
  interleaves.
* Failure: a statement or a COMMIT fails with or without effect, the request's
  deadline passes, the process dies or is told to stop with requests under way,
  the auth service does not answer.
* Order: responses arrive in any order and are applied to the state of that
  moment.
* Limits: the pool, the tag limit, the last page, an empty page, page sizes of
  0, below it or beyond 32 bits, periods that leave no room for one another.
* Conversions: an optional field that is not named and a field that is named
  empty become the same message; statuses and tags change their spelling on the
  way in and on the way out.

What makes each part correct:

* store: a call takes effect at most once and as a whole, on notes of its
  caller only; limits hold under every interleaving; every call is answered;
* verifier: revocation takes effect in bounded time, a good token is refused only
  while the auth service fails, no token gets another one's answer, a silent
  auth service holds nobody;
* migrations: each is applied once, as a whole, and is listed; every start ends;
  no line of a migration file is lost;
* process: a handler runs only on a migrated database and an open pool; a
  shutdown spares the requests it is configured to wait for, and ends;
* clients: the token decides what is seen and changed; what the user is told of
  a call is what happened; a note saved as it was shown stays as it is (on the
  command line, if no tag has a comma in it);
* session: one timer, no call carried out twice, one retry, the end of the SSO
  session is noticed;
* list: paging reaches every note, walks back to the start, labels what it shows.

## 2. Modules

| Module | What it is |
|---|---|
| `NotesRules` | requests and notes as data; validation, normalisation, scopes; `Admit`, the first refusal a request meets |
| `NotesStore` | abstract specification: what a client is promised of the store |
| `NotesServer` | the handlers, the pool and PostgreSQL, statement by statement; refines `NotesStore` |
| `NotesServerProofs`, `NotesAnswersProofs` | theorems about `NotesServer`: its tables and transactions; its answers, and that it implements `NotesStore` |
| `PatVerifier`, `PatVerifierProofs` | the PAT cache and the introspection, with time |
| `Migrations`, `MigrationsProofs` | overlapping starts of several processes; the proofs are also about `MigrationFile` |
| `MigrationFile` | the parser of migration files, against a definition without a parser |
| `ServerLife`, `ServerLifeProofs` | a process from its configuration to its exit, with requests and time; extends `Migrations` and `MigrationFile`, refines the former |
| `NotesClients`, `NotesClientsProofs` | MCP server, command line and verifiers around an atomic store |
| `NotesView`, `NotesViewProofs` | paging in the web client, and the two list queries behind it |
| `SsoSession`, `SsoSessionProofs` | tokens, timers and retries in the web client |
| `MC*` and `*.cfg` | small instances for TLC |

Definitions commented "Variant" are plausible mistakes in the definition they
precede. No specification uses them; they are there to show that each property
fails when the code is wrong in that way (`PROJECT.json`, "mutants").

### NotesServer

`pc[r]` is where the goroutine of request `r` is. One action is one statement
of the repository or one decision of the service: `Receive` (interceptors,
scope, `requireOwner`, normalisation), `ReadExisting` (the read in
`Service.AddTags`), `Begin`, `InsertNote`, `TouchNote` or `UpdateNote`,
`CountTags`, `ClearTags`, `InsertTags`, `Commit`, `GetNote` (the re-read, and
GetNote itself), `DeleteNote`. `rows` and `noteTags` are what is committed;
`tx[r]` holds what the handler knows and what its transaction has written.
PostgreSQL at READ COMMITTED: a statement sees committed data and its own
transaction's; an UPDATE or DELETE waits for the transaction that wrote the row
and looks again (`RowFree`). A step that needs a connection waits for the pool
(`PoolHasRoom`); a step within a transaction has one (`HoldsConn`).
`Fail` is an error or the deadline, `FailAfterEffect` the same at a COMMIT or
DELETE that PostgreSQL carried out, `Crash` the death of the process.

`NotesStore` has one instant per call at which it takes effect. The refinement
maps a note to its row and tags, a write's effect to its COMMIT, and the answer
to the re-read. AddTags may, in `NotesStore` too, bring back tags that the note
carried before: that is what the code promises (finding `merge`).

Abstracted: title and category (blank or not), body (a member of a small set),
lengths; tag lists are sets, since the service drops duplicates and sorts; ids
that do not parse are handled like `uuid.Nil`, which is refused with the same
code. A connection that breaks during COMMIT or DELETE is decided before the
answer is sent, although PostgreSQL may carry it out a little after. UUIDs are
not issued twice.

### PatVerifier

Callers run `Verify` (header, cache, or introspection), `Judge` (the auth
service looks at the token), `Answered` (the answer arrives, is remembered if
positive, and decides), `TimeOut`, `Unreachable`. `Issue` and `Revoke` happen at
the auth service; a revocation also stands for an expiry there. `Tick` is time.
Waiting takes time, computing does not; an answer may be read at the very
instant of the timeout. The SHA-256 of a token is the token (`Key`). E-mail, scopes and
internal ids of the user are folded into `Holder`. `Headers[c]` is what the calls of
one caller may carry.

A call ends admitted or invalid (`Outcome`). The interceptor answers every error
of the verifier alike (`interceptor.go:33`): a timeout, an unreachable auth
service or an answer other than 200 ends as for a token that does not exist.
`source` is a history of what decided: the cache, the service, or an error in
its place. `NoFalseRefusal` uses it to say when an active token may be refused:
when this call's introspection failed, and no call that the service answered
less than TTL before covers it (`Covers`).

### Migrations

Each process runs `Start`, `Lock` (pg_advisory_lock, and the ledger is created),
`Check` (the loop), `Execute` per statement, `Record`, `Commit`, `Unlock` (the
deferred unlock; then it serves, or `main` exits). `Fail` is a failing
statement, `Die` the death of the process or the 15 s start-up deadline, at
which pgx closes the connection; `SessionEnds` is PostgreSQL noticing, until
when the dead process' lock stays. `schema[v]` counts the statements of migration `v`
whose objects exist. Statements fail on a schema that has their objects, as
CREATE and ALTER do. Uncommitted DDL of another session makes one wait
(`Blocked`), which matters only if the advisory lock did not exclude it.
`Stop` is the end of a process that serves.

`ParseDBMateUp` of `MigrationFile` is a fold over kinds of lines: markers, SQL
with or without a semicolon at its end, comments, blank lines.
`ParsedAsWritten` compares it with the maximal runs of lines between two cuts;
`ParsesAsWritten` says so of every file of at most `MaxLines` lines. `MCServerLife` assumes
(`FileAssumption`) that the two migrations of the repository, by their lines,
parse into seven statements and one.

### ServerLife

A process starts with `Boot` (`loadConfig` accepts its environment), goes
through `Migrations` (`Startup`), and then through `stage[s]`: `Wire` (the rest
of `newApplication`; a bad verifier configuration is noticed only here, after
the database was migrated), `Listen`, `Serve`, `Signal`, `BeginShutdown`,
`Drained` or `PeriodOver`, `PoolClosed`. `ListenFails`, `ServeFails` and `Kill`
end it early. A request is a connection `conn[q]`: `Accept`, `Receive` (its
header is read and the handler begins), `Finish` or `HeaderTimesOut`. `Tick` is
time, up to the next deadline; handlers return when the interceptor
cancels them.

A signal is noticed only while the process serves: before that,
`signal.NotifyContext` is not in place and the process dies (`Kill`). Exits by
`os.Exit` skip the deferred close of the pool; since the process ends, the
kernel closes the same connections. What `loadConfig` checks besides mode, token
and periods (addresses, database, pool size, log level) is one field,
`wellFormed`. Bodies arrive with headers; idle keep-alive connections and
connections that are not accepted yet are left out. The start-up deadline
of 15 s is `Die`.

### NotesClients

A call goes from an input (what the user types or the tool is given, with the
set of optional fields that are `named`) through `CallOf` (token, user, scopes,
fields) to the service and back through `Output` and `mapRPCError` to a reply.
Actions: `Invoke` (with the checks that the command line makes itself,
`Usage`), `Serve` (the service, in one step, as `NotesStore` allows), `Reply`,
`GiveUp`. `VerifyBearerToken` is the composition of the dev, JWT and PAT
verifiers. A call with a personal token may meet an auth service that fails
(`outage`); it is then nobody's call (`Caller`), and the user is told that the
token was rejected. `Parts[t]` is what `-tags` cuts `t` into: the command line
separates tags with commas (`SplitTags`), while the service and the MCP server take a comma as
a part of a tag. `List` answers a page in its order, `Get`, `Write`, `Delete` the
calls about one note. `WriteBack` is the user who saves what he was shown.

Abstracted: titles are there or missing, categories are left out; ids are
always given; search has its tags but neither text nor page tokens, and its
limit of ten tags is left out. A call that is given up either took effect or
never does; one that reaches the server later is not modelled. Only
the command line has a deadline of its own.

### NotesView

`Start`, `NextPage`, `PreviousPage`, `Change` are clicks: they change the view
state and send an RPC. `Serve` is the server's answer, with the pages of
`pagination.go` and `collectSearchResults`; `ShowPage` renders it under the view
state of that moment, `AfterChange` refreshes after a write. `Lose` loses an
RPC, `OtherClient` writes from elsewhere. A note's place in the list is its
`updated_at`; the search has one filter (`Hits`). The edit form is the write it sends.
`world` never changes: it says in which circumstances the page is used (notes,
page sizes, RPCs at once, other clients, faults). Three properties are claimed
only where RPCs do not overlap or fail and one page size is used (`Calm`).
The rows that match a query are taken out of the list by their rank (`At`), not
by `SelectSeq`: the prover's library says nothing of `SelectSeq`.

### SsoSession

`mint[m]` is a `fetch` of `/auth/token`, `rpc[r]` a call of `callConnectRPC`.
Each fetch is sent, served and answered in three steps; what the page does
between two awaits is one step (continuations that run in one turn of the event
loop are merged). Timers that were cleared do not fire; `timers` counts those that will. JWTs
are numbered. `SignIn` loads the page anew. In dev mode a static token is
entered or dropped.

## 3. Runs

`tlc -config X.cfg M` for each; sizes are distinct states.

| Run | Module, cfg | Shows | Size |
|---|---|---|---|
| race | MCNotesServer, NotesRace | three requests in every interleaving on one note, over two connections: tag limit, row exclusion, cascade, answers contain the own write, `updated_at` advances, everyone is answered; and the proofs' invariant `ServerInv` | 174 000 |
| faults | MCNotesServer, NotesFaults | two requests of every kind with errors, lost commits, deadlines, crashes: `ImplementsStore`; refusals change nothing; owners only | 51 000 |
| pat_cache | MCPatVerifier, PatCache | two callers and the tokens of two users, one caller with either or none; issue, revocation, late answers and failing introspections | 1 250 000 |
| migrate | MCServerLife, Migrate | a process of this version and one of the version before start, fail, die, serve, are signalled and start again, in four configurations, on a new database, with one request | 147 000 |
| sso_retry | MCSsoSession, SsoRetry | an RPC, two mints, three JWTs, timer, sign-out, sign-in, expiry, failures; and the proofs' invariant | 183 000 |
| view | MCNotesView, View | two worlds: one RPC at a time, the user's own writes, five notes; and two RPCs that overlap, fail and are answered in any order, changing page sizes, others writing; and the proofs' invariant | 1 670 000 |
| clients | MCNotesClients, Clients | three calls of an MCP server and a command line, with tokens of every kind in both modes, some given up, some while the auth service fails; one stored tag has a comma | 504 000 |

Findings, each a run that TLC refutes:

| Run | What happens |
|---|---|
| merge | AddTags inserts what it read before its transaction: an UpdateNote that committed in between has removed tags re-inserted (`service.go:153`) |
| empty_body | an update with an empty body, which `notes.proto:223` allows, is committed and then answered with internal error, because responses are validated against `Note.body_markdown` min_len 1 (`module/routes.go:44`) |
| view_total | an empty page is answered with total 0, because the total is a column of its rows (`storage_postgres.go:214`) |
| sso_renewal | a timed mint that fails for another reason than 401 is not repeated (`auth.ts:73`) |
| cli_update | `update` with some flags sends a full replacement: tags and category that are not named are emptied, the status becomes ACTIVE (`cmd/notes-client/main.go:252`) |

Also seen, and not run:

* With two page sizes, `SummaryNamesDisplayed` fails: `notes-pagination.ts:83`
  multiplies the present size by the number of pages. With two RPCs at once,
  `PreviousGoesBack` fails: a second click on Next before the response pushes
  the token it then asks for (`notes-pagination.ts:66`), and Previous goes
  nowhere. That is what `Calm` excludes.
* A user with a valid personal token whose introspection fails is refused with
  "invalid bearer token" (`interceptor.go:34`) and told by the MCP server that
  the token was rejected, expired or revoked perhaps (`mcpnotes/server.go:97`).
* A tag with a comma, which the MCP server and the service accept, becomes two
  when it is sent with the command line's `-tags` (`cmd/notes-client/main.go:245`)
  or by the web forms (`notesFront/src/lib/tags.ts:2`);
  for the command line, that is what `RoundTrip` excludes.
* One note with an empty body (finding `empty_body`) fails every list and
  search page that contains it, with internal error, for the same reason.
* A start that is refused for its verifier has already migrated the database.

`mcp_auth_design.md:63` gives 60 s for
a revocation; the code's bound is the cache lifetime plus the client's timeout,
65 s, and that is what `RevocationBound` states.

### Bounds, and why they are enough

* Requests: an interleaving fault of the store shows with two writers of one
  note; the third request observes, or makes the pool (two connections) full.
  `MaxTags` is 2 and tags are three, so two AddTags that are fine alone
  exceed the limit together. Each request is handled once: a client's next call is
  another request.
* PAT: TTL 1, timeout 1, time up to 3: a token can be issued, cached, revoked,
  answered late and run out (`RevocationBound` is reached at 2). Two tokens, so
  that one's entry could be taken for the other's. Calls do not start so late that their timeout
  lies beyond the last instant.
* Server: two migrations of seven and one statements, so that a death can be
  between statements and between migrations; the process of the older version
  has one of them. Two faults, one request. One second of the model is five of
  the program: `HeaderTime` 1, `WriteTimeout` 3. The configurations are one
  whose request timeout and shutdown period fit, one with the timeout at the
  write timeout, one that is refused when it is loaded (a period beyond
  `MaxSeconds`), and one that is refused only by `Wire`. The lock, the listener
  and the shutdown are about two processes at most; a third adds only waiting.
* Migration files: at most five lines, enough for a block with a statement in it
  between two markers, and for a marker missing.
* Clients: one program each, three calls between them, so that a note is read,
  changed by the other or not, and saved back. `Half` is 4 for 2^31, `MaxLimit`
  2, `DefaultLimit` 1, limits from -1 to 9, so that default, maximum, refusal
  and the cut to 32 bits occur. Four ids, two of them the first user's.
* View: five notes in pages of two make three pages; with two RPCs under way
  two notes in pages of one or two are enough for every order of responses. The
  stack has at most 3 (2) entries.
* Session: three JWTs let one expire, one be refused and one be minted for the retry.

### Fairness

* `NotesServer`: weak fairness of each handler's next step. Goroutines are
  scheduled, and pool and row locks serve waiters. Requests need not be
  made, and faults need not happen.
* `PatVerifier`: time passes and the HTTP client's timer fires. The auth
  service need not answer.
* `ServerLife` (`FairLife`): weak fairness of time, of the program's next step
  in each process and of handlers and header timeouts; strong fairness of
  `Lock`, because PostgreSQL hands the lock on in the order in which it was
  asked for, so that no restarting process can overtake a waiting one for
  ever. Nobody must start or signal a process or send a request.
* `SsoSession`: timers fire, the auth service answers or the fetch fails. Users
  need not do anything. `EndNoticed` excludes failed mints, after which no timer is left
  (finding `sso_renewal`).

Deadlock is checked where the system goes on (`NotesServer` ends in
`Terminating`, `NotesView`). It is not in `PatCache`, `SsoRetry` and
`SsoRenewal`, where the bounded clock or supply of JWTs stops, in `Migrate`,
where all requests may be sent and all processes serve with no fault left, nor in `Clients` and
`CliUpdate`, where the bound on calls ends every run.

## 4. Proofs

Proved with TLAPS for every value of the constants, under the assumptions named
in the modules (`RulesAssumption`, `ServerAssumption`, `VerifierAssumption`,
`MigrationsAssumption`, `LifeAssumption`, `ClientsAssumption`,
`ViewAssumption`, `SsoAssumption`, `NobodyAssumption`, `FilesAssumption`), which TLC evaluates in the runs. Every
safety invariant and action property of a passing run is a theorem, and so is
the refinement of `NotesStore`. For each module the inductive invariant (`ServerInv`, `VInv`,
`MInv`, `LifeInv`, `ClientsInv`, `ViewInv`, `SessionInv`) was checked by TLC
before it was proved; all but `MInv`, which `LifeInv` uses, stay in their runs.

* `NotesServerProofs`: `Spec => []IInv`, hence `TypeOK`, `TagLimit`,
  `WriterOwnsRow`, `TagsBelongToNotes`; and the action properties
  `OnlyOwnerWrites` and `UpdatedAtAdvances`. `TagLimit` is not inductive: that
  a commit keeps it needs that what was counted is still committed. `IInv`
  therefore says that a transaction which has written is the only one on its
  note (`WriterOwnsRow`), that the tags it will leave are few enough against
  what is committed now (`TagsOK`), that its row is newer than the committed
  one (`RowsOK`), and which step belongs to which operation (`InFlightOK`). For
  the proof it is regrouped into a part about the tables and a part per
  request (`Local`), so that a step of one request leaves the others' alone
  (`QuietStep`, `EffectStep`).
* `NotesAnswersProofs`: `Spec => []ServerInv`, hence `AnswersOwnWrite`,
  `RefusedMeansUnchanged`, `OnlyOwnerReads`; and `Spec => ImplementsStore`. The
  answer is chosen after COMMIT, on another connection, so `IInv` says nothing
  of it. What is needed is a trace of the write in the tables (`LeavesTrace`):
  the note that a request wrote is as the request left it, or has a later
  `updated_at`, or is gone and its id is not issued again; and it is still its
  caller's. Every other request's step keeps this because a transaction's row
  is newer than the committed one (`RowsOK`) and because ids of creates are
  fresh (`IdsOK`). For the refinement, `WritesAsked` says what a transaction
  is going to commit in terms of the request and of what is committed now: it
  is what the abstract effect puts there at that instant. Each action is a lemma
  (`CommitStep`, `GetNoteStep`, ...): COMMIT and DELETE are `Apply` or
  `ApplyAndAnswer`, the re-read is `ShowWritten` or `ReadNote`, refusals are
  `Submit` or `RefuseWrite`, faults are `Fail` or `ApplyAndFail`, all other
  statements stutter. That the abstract timestamps need no more than two
  per request (`Stamps`) is a counting argument: the clock is at most the number of
  transactions begun plus the number of rows written (`ClockOK`).
* `PatVerifierProofs`: `Spec => []VInv`, hence `RevocationBound`,
  `NoFalseRefusal` and that a call acts as its own token's user
  (`ActsAsHolder`, part of `VInv`). The invariant bounds the lifetime of cache entries and of answers
  under way by the revocation: an answer that names a user was asked for before
  the revocation, hence arrives no later than Timeout after it. For
  `NoFalseRefusal` it says that what the service confirmed stays in the cache
  for TTL, whatever is answered meanwhile, so that who asks, in vain or not, was
  not covered (`KeptOK`).
* `MigrationsProofs`: `Spec => []MInv`, hence `NeverTwice`,
  `LedgerMatchesSchema`, `ServesMigrated`. A process' knowledge of the ledger (everything before
  `at[s]` is listed, `at[s]` is not) is stable because only the holder of the
  lock changes the ledger (`HolderOK`, `LookOK`).
  And `FileParsedAsWritten`, of migration files of every length (`FilesParse`
  in the run stops at `MaxLines`): after each line the statements found are the
  runs that have ended, and the text collected is the run that is open
  (`HasRead`); a run ends in just the places where the parser flushes
  (`RunIsNext`, `BoundEndsNothing`). The library's induction theorems cannot be
  used here, so induction over lines goes through the least counterexample
  (`Climb`), and so does the existence of the recursive function that the
  parser is (`ParserUnfolds`).
* `ServerLifeProofs`: `LifeSpec => Spec`, each step of a process' life being
  one of `Migrations` or a stutter, so that its theorems hold of whole
  processes (`ServersMigrateOnce`); and `LifeSpec => []LifeInv`, hence
  `HandlersRunOnMigrated` and `AnswersSurviveShutdown`. The invariant relates
  the ages of a connection and of a shutdown: a shutdown that began after the
  connection is not older than it, except by the time in which the
  connection had sent nothing (`ConnOK`). So a handler is overtaken by the end of the
  shutdown period only if the request timeout, plus `HeaderTime` for a late header,
  reaches it (`MayBeHurried`).
* `NotesClientsProofs`: `Spec => []ClientsInv`, hence `TokenDecides` and
  `RepliesTellTruth`; `RoundTrip`; and `PageAsAsked`. Three facts carry it: the token alone
  decides who calls and what he may do (`TokenLemma`, by the three verifiers),
  unless the auth service fails, and then nobody calls; a
  write carries a time beyond all others, so that "done" and "changed" are the
  same (`ClockOK`); and normal tags that `-tags` does not cut, and known
  statuses, are fixed points of the conversions (`TagsStay`, `StatusStays`), so that nothing refuses or alters
  what was shown (`SaveIsAdmitted`). `PageAsAsked` needs that the notes with fewer
  newer ones than the limit are as many as the limit or all (`SortedPage`, from
  a latest note of those beyond, `LatestExists`), and that a limit which is an int32
  is sent unchanged (`Int32Stays`).
* `SsoSessionProofs`: `Spec => []SessionInv`, hence `OneTimer` and
  `CarriedOutOnce`; and `OneRetry`. `CarriedOutOnce` is not inductive: what
  keeps a second sending from being carried out again is that only an RPC that
  was refused with 401, and hence not carried out, waits for a mint, that it
  has been sent once (`NotCarriedOutYet`), and that one mint at most works for it
  (`MintsAwaited`). `OneRetry` needs besides that the JWT such a mint brings is
  newer than the one refused, and that nothing mints in dev mode
  (`TokensIssued`). `NobodyAssumption` says that the value for "no caller" is
  no RPC.
* `NotesViewProofs`: `Spec => []ViewInv`, hence `WalkBackEndsAtStart`,
  `CursorFollowsDisplayed`, `SummaryNamesDisplayed`, `AllNotesReachable`; and
  `PreviousGoesBack`. The first two hold whatever overlaps or fails; the others
  where the world is `Calm`. There the tokens pushed are the multiples of the page
  size (`Multiples`), an RPC under way is for the page the view expects
  (`PageAwaited`), and what is displayed is the present list's, unless a page is
  awaited or a write is about to refresh it (`PageDisplayed`, `DisplayCurrent`).
  The rows of a page (`PageFacts`) rest on `AtType`: that every rank up to
  the number of matches is taken, which would be an induction on the list and is
  proved from the least of a set of numbers instead (`Least`, `RankExists`).

Only model-checked:

* liveness (`AllAnswered`, `AllVerified`, `StartsEnd`, `SignalEnds`,
  `EndNoticed`): fairness and ENABLED are beyond the prover;
* the findings, which are counterexamples.

## 5. Not modelled

* Static files, health, readiness and configuration pages of `notes-server`:
  they read and change nothing.
* Parsing and signatures of JWTs, the wire format of Connect, TLS: libraries.
* Other modules of a bundle that would share `schema_migrations`.
* Formatting (Markdown, escaping, tables and JSON of the command line, toasts),
  pure helpers and DOM access of the web client: no state of their own.
* Generated code (`gen/`), build scripts, version constants.
* Growth of the PAT cache, which never removes expired entries: not a
  statement about a bounded model.
* A page token that `search_notes` accepts and never returns
  (`mcpnotes/server.go:156`): there is nothing behind it to model.

## 6. Plan

Done: the store and its refinement, the verifiers, migrations and their files,
the server's life, the MCP server and the command line, paging, session; proofs
of seven inductive invariants, of all safety and action properties,
and of two refinements (`NotesServer` of `NotesStore`,
`ServerLife` of `Migrations`).

Next:

1. The composition of `NotesClients` with `NotesServer` instead of an atomic
   store: a call that is given up and carried out later.
2. What a page shows after overlapping RPCs have settled, where `Calm` now
   excludes them.
