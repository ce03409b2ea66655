# Verification of common-rust

common-rust is a workspace of Rust libraries that the services of one organisation share: OIDC login
and sessions, secrets, name synchronisation, configuration, logging, routing and templating. This
directory holds TLA+ models of its stateful parts, TLC configurations that check them on small
instances, and TLAPS proofs of the properties that matter most.

`src/` below means the repository's files, `crates/...` being short for `src/crates/...`.

## Inventory

| Component | State | Operations | Correct means |
|---|---|---|---|
| oidc stores (`oidc/src/store.rs`) | a map behind an `RwLock`, entries stamped `created` | get, put (sweeps), remove | nothing is returned once removed, replaced or aged out; nothing young is lost, whatever the clock and other callers do |
| oidc sessions (`oidc/src/web.rs`, `retry.rs`, `client.rs`) | the session store; per request a copied session, a deadline | `resolve_session`, `logout` | no identity past the session's age or after revocation; logout is final; a session ends only for a reason; every request ends |
| oidc login (`web.rs`) | the flow store; the browser's two cookies | start_login, login, callback, the redirect of a page | at most one prompt; a flow leads to one session; the browser reaches a page; it is the page that was asked for |
| oidc gates (`auth.rs`, `predicate.rs`, `bearer.rs`) | the request's `AuthContext` | middleware, extractors, predicates | nobody passes a gate the credentials do not open; no falling through from a bad bearer |
| oidc shim (`common-oidc.ts`) | a flag, a stamp in sessionStorage | bounce | no reload loop |
| secrets (`secrets/src/client.rs`) | the cached vault token in a `Mutex` | fetch, read_doc, write_doc, delete_doc | no request with a spent token; one retry, only after a rejection; the lock is released |
| names (`names/src/sync.rs`, `apply.rs`, `feed.rs`) | a cursor and the service's tables in one database | the polling cycle | no rename is lost; repeating one is harmless; rows become current |
| templating (`templating/src/lib.rs`) | cached files by name, pins | build, static_file | pinned bytes or an error; never stale for ever; never outside the root |
| config (`config/src`) | none after start | load: layers, arguments, refusals | the highest layer wins; one bad value refuses the start |
| config derive (`config-derive/src`) | none: compile time | derive a struct's leaves | what compiles, the load can rely on; no two leaves share a flag or a variable |
| logging (`logging/src`) | the global subscriber | boot_sealed, filters | nothing starts after a refusal; a rule admits what it names |
| routing (`routing/src`, `routing-macros/src`) | the router's recorded manifest; `handlers.json` and `routes.json` in a staging directory | record, nest, merge; the export tests; generate | the generated client matches the mounted routes and the handlers' signatures; no export is lost |
| theme, ui-core, names-derive | none | embed, expand | out of scope: static data and compile-time code |

How they interact: every authenticated request goes through `set_auth_context` to
`resolve_session`, which reads the session store and calls the IdP; a page without a session goes to
`start_login`, which writes the flow store and sets the flow cookie; the IdP sends the browser to
`callback`, which reads the flow, exchanges the code and writes the session store. The shim turns a
401 of a fetch into the login route. `secrets` and `names` each talk to their own server and share
nothing with the rest. The derive gives the load its schema, and the boot is wrapped around the load.
`#[client]` gives each handler an export test; these tests share `handlers.json`, the app's own test
writes `routes.json`, and the generator joins the two files.

What is hard to test in it: requests of one session interleave at every await, with logout, with retries
whose lost replies may have taken effect, and with tasks that are dropped; tabs share cookies and their
responses arrive in any order; stores are lost at a restart; the wall clock may step back; the token
mutex is held across a login; a rename becomes visible after the cursor passed it; export tests run in
parallel on one file that a killed run may leave torn. `PROJECT.json` lists each hazard with its line
and the property that watches it.

## Modules

| Module | Models | Kind |
|---|---|---|
| `SessionRegistry` | what the stores promise: an abstract specification without map, sweep or lock | abstract |
| `Expiring` | `Expiring<T>`: live, get, put, remove as operators on a map | operators |
| `ExpiringStore` | concurrent callers of one store; `put` is two steps, the clock reading and the locked part | component, refines `SessionRegistry` |
| `OidcSession` | `resolve_session`, `logout`, the session part of `callback`, the IdP's token endpoints; uses `Expiring` for its store | component |
| `OidcLogin` | `start_login`, `login`, `unauthenticated`, `callback`, the tabs and cookies of one browser | component |
| `SecretClient` | `cached_token`, `reauthenticate`, `login`, `with_reauth` and the kv requests | component |
| `NameSync` | `run_cycle`, `commit_cycle`, `apply_column_renames`, the feed | component |
| `AssetCache` | `build`, `safe_path`, `read_verified`, `static_file` in its steps, whoever deploys files | component |
| `AuthGate` | the middleware's `resolve_context`, the extractors, the predicate algebra; the IdP beside one request | component |
| `ConfigSchema` | what the load may take for granted of a schema | interface |
| `ConfigDerive` | `#[derive(Config)]`: what is refused, the leaves of what is not, their spellings | operators |
| `ConfigLoad` | `load_from`: argv, the four layers, the leaves, the class rule | component |
| `Boot` | `boot_sealed` around a load, the log's filters, its refusals | composes `ConfigLoad` |
| `Service` | a declaration compiled by the derive, then booted | composes `ConfigDerive`, `Boot` |
| `RouteTable` | the recording `Router` beside the axum router inside it | component |
| `ClientMacro` | `#[client]`: what it accepts, the descriptor it exports | operators |
| `ClientGen` | the generator: the join of the two files, the functions it writes | operators |
| `HandlerTable` | `handlers.json` as the export tests should see it: one upsert at a time | abstract |
| `HandlerExport` | the export tests in parallel under the file lock, failures, a killed run | component, refines `HandlerTable` |
| `ClientPipeline` | the recipe of `routing/README.md`: compile, export, build the app, generate | composes the five above |
| `MC*` | the instances TLC checks | model checking |
| `OidcSessionProofs` | theorems about `ExpiringStore` and about `OidcSession`, whose sessions are in such a store | proofs |
| `OidcLoginProofs`, `SecretClientProofs`, `NameSyncProofs`, `AssetCacheProofs`, `AuthGateProofs` | theorems about the component of that name | proofs |
| `ServiceProofs` | theorems about `ConfigLoad` alone and about the boot around it | proofs |
| `ClientPipelineProofs` | theorems about `HandlerExport` alone and about the recipe around it | proofs |

Each component begins with its constants and their named assumption, then variables and types, one
action per step of the code between two awaits (or per environment move), `Spec` and `FairSpec`,
and the properties. An operator marked `Mutant:` is a plausible bug of the definition below it; it
is in no action, and shows that the property named in `PROJECT.json` would see that bug.

### ExpiringStore

`entries` is the `HashMap`. `get` and `remove` hold the lock for all they do and are single steps.
`put` reads the clock before it takes the write lock (`store.rs:85-86`), so `PutReadsClock` and
`PutLocked` are two, and the readings of several callers may be applied out of order. `SetClock` lets
the wall clock step back. `written` and `highest` are history. `ImplementsRegistry` is refinement:
with `contents <- written` every step is one of `SessionRegistry` or changes nothing there.

The registry allows an aged-out entry to come back when the clock steps back before anyone swept it;
the code does that (`unwrap_or(true)`, and reads do not sweep), and the abstract specification says so
with `highest`.

### OidcSession

A request's `pc` is the await it is at: the first userinfo call, the refresh, the userinfo call after
it. The IdP decides a call in one step (`AnswerUserinfo`, `AnswerRefresh`) and the request continues
in another, so that logouts, revocations and other requests come in between. `AttemptFails` is
`retry.rs`: a transport error, 5xx or the one-second timeout, tried again while attempts and budget
last; the budget is shared by the three calls, so it may run out after any attempt. A refresh that
timed out may have been carried out. `rotates` chooses an IdP that replaces refresh tokens. Tokens
are numbered by generation. `Cancel` is a client that disconnects. `Logout` includes the origin check.

### OidcLogin

A tab is a little state machine: showing a page, waiting for a response that carries `Set-Cookie`,
at the IdP, sending the callback with the cookie of that moment, in the handler's exchange. Cookies
change when a response arrives. A redirect to the IdP or an error page is then there (`Deliver`); after a
redirect to a page the browser requests that page, which is shown if userinfo accepts the session
(`LandShown`). It may refuse even the token just issued: the session is removed and `unauthenticated`
starts another silent login (`LandRefused`), as often as that happens. The IdP may answer any request with
a code, an error that asks for interaction (the three the code treats alike) or another. Users may visit, sign in, reload
an error page and duplicate a tab; flows expire, sessions end, the process restarts. These moves
are bounded by `MaxMoves`; what follows from them is not. `asked` is history: the prompts in the
chain of logins that led to a flow. A chain begins with a user's move or where the server starts over, not
knowing of any login before: in `CallbackWithoutFlow` (the flow has expired, or was lost in a restart or to
another tab) and in `LandRefused`. Each chain prompts once; a user whose flow is lost at the prompt, or whose
session a page refuses, may be prompted again. A `code` without `state` (or none of both) is the state mismatch
of the model: both answer 400 and change nothing.

### SecretClient

`queue` is tokio's fair `Mutex`: its head holds the lock, through both stages of a login. `Issue` is
the vault issuing a token, `LoggedIn` its reply arriving, and the lease is counted from the latter
(`client.rs:173-176`). A kv request is `Carried`, `Refused` or `NotCarried` by the vault; an answer
may be lost after it was carried out. The model assumes of the vault that a 400, 401 or 403 means
the operation was not carried out.

### NameSync

Names are numbers. The feed returns in order what is visible and not older than `since`, and its
clock. A rename is visible at most `Lag` after it was made, and `Lag <= Overlap`: that is what the
overlap is for. With `Reuse`, a name somebody gave up may go to somebody else. The service writes rows with the name of the moment (`WriteRow`). The transaction of
`commit_cycle` is one step; `CycleFails` is every way a cycle ends without it, a crash included.

### AssetCache

`link` is where `canonicalize` leads a name, `files` what is at a real path, with its mtime. `build`
verifies one pin after the other (`VerifyPin`, `Refuse`). `static_file` is five steps: the path
(`Begin`), the mtime (`Stat`), the read lock (`Hit`, `Miss`), the bytes (`Read`), the write lock
(`Insert`). Between any two, `Write`, `Delete` and `Relink` do what a deployment does. `had` is
history: the contents the file of a call has had since the call began. Names have no `..` and are
not absolute (that lexical check is left out), and an I/O error other than a missing file counts as
one. `Coarse` says whether two writes may leave the same mtime: an edit within the clock's
granularity, a copy that keeps mtimes.

### AuthGate

The request is resolved once (`Begin`, `Resolve`): no middleware gives "Missing", no authenticator at
all "Disabled", a bearer is judged by its validator alone and a session only without one. Each
extractor of the handler decides on that context (`Extract`, one after the other), and the handler
runs when all agree (`Admit`). Between any two of these, users join and leave groups, tokens are
revoked and sessions end at the IdP. `vouched` is history: what the IdP would have said of the
request's credentials at some instant since it came. What `resolve_session` does in its awaits is
`OidcSession`'s; here it answers in one step with the user as the IdP knows them, or not. Gates are
trees given by the constant `Rule`; `Denials` is `check` as the code computes it, short circuits
included, and `VerdictsAreTrue` compares it with the truth table of the tree.

### ConfigLoad

A load is sequential and has no environment: the state is how far it has come (`stage`, `next`), what
argv gave (`parsed`), the merged table (`entries`) and how it ended. The inputs (argv, environment,
files) are chosen once. The stages are those of `load_from`, and each early return is an action:
`NoValue`, `Help`, `UnknownFlags`, `BadFile`, `PrintConfig`, `WrongType`, `WrongClass`, `Loaded`. Help
is looked at only when all of argv was read, so that a flag without a value refuses before it. The
order in which several bad leaves are found is the schema's and is left open. The reference the
properties compare with (`Effective`, `SourcesOK`, `LeavesOK`, `ClassOK`) says of each source what it
gives, without stages. `AppCaps` says whether the app's name was declared in capitals. What the load
assumes of the presences and classes of its leaves is `Admitted` of `ConfigSchema`, the constants of the
load being one schema.

### ConfigDerive and Service

The derive runs in the compiler, so it is operators: `Expands` is what `expand` does not refuse, key by
key and in its terms (types are told apart as far as it looks at them), `LeavesIn` the leaves it writes
for each struct of a tree, `FlagOf` and `EnvOf` how `path.rs` spells a leaf. A spelling is the sequence
of its words and marks, since the marks are what could make two of them alike: `Parts` has the words and
underscores of each name, `Segment` replaces the underscores, `JoinedUpTo` puts two marks between
segments. `SchemaOf` is what the load takes of the leaves, by their paths, and `InDots` the same by the
names the file has for the paths. `TypesCheck` and `Sized` are external: what rustc refuses of the code the
derive wrote, two fields of one name and a struct inside itself included. `Service` compiles a declaration
and boots it: `ServiceAssumption` says that the constants of `ConfigLoad` are what the declaration `Own`
compiles to. Of the other declarations (`Programs`) only the compilation is followed.

### Boot

`environ` has the log's three variables as they are set, `log` what is read of them: `std::env::var(..).ok()`
takes a value that is not Unicode for unset (`AsRead`). `boot_sealed` runs `ConfigLoad`'s steps until the load has ended (`Load`), then reads the log's three
variables, parses them in the order of the code and installs the filters (`Install`). `Refuse` is
`refuse!`: it names what is refused and exits with code 1. Its line goes through a subscriber of its own
without filters, in one call; that it is seen is left to the test of the crate
(`tests/refusal_bypasses_filters.rs`). The variables are chosen when they are
first read, which is the same as at the start. What the filters let through is an operator on
events (`Passes`): `With` is the loop of `Designators::parse`, the reference (`Said`) the last item
about a name. `RUST_LOG` is a level per module, as `EnvFilter` reads it.

### RouteTable

A path is the sequence of what stands between its slashes. Each call of a router, as the app makes it,
changes the record (`manifest`) and what axum is given (`served`) in one step; `nest` and `merge` move
the other router into it. What axum does with a nested path or an overlap is external: `refused` is its
panic. A route given to axum through `route` is served and not recorded, as in the code.

### HandlerExport

`append` is six steps: `Open` (which creates), `Lock`, `Read`, `Truncate`, `Write`, and `Unlock`.
`file` is absent, cut to nothing, torn or a list. Each call may fail: `WriteFails` is the rewind, or a disk
that is full, with nothing or a part written; `CallFails` is any other, `set_len` and `unlock` included,
which leaves the file as it was. The `File` is local to `append`, so every way out gives up the lock; `Kill` ends all the tests of a run and with them the lock, and leaves a file as it was
or torn. `TableOf` is the refinement mapping to `HandlerTable`: while the holder has the file cut, the
table is what it has read; so its write is one `Upsert`, and its death a `Discard`.

### ClientMacro, ClientGen and ClientPipeline

`ClientMacro` translates what `#[client]` refuses and what the export test of an accepted handler
writes; `ClientGen` the generator's joins, refusals and functions, in `render`'s order. A type is known
by its TypeScript spelling and by the shape the macro and the generator look at. `ClientPipeline` runs
the recipe: `Compile` a source, the tests of `HandlerExport`, the app's calls of `RouteTable`
(`Build`), `WriteManifest`, `Generate`, and `Leave`, the recipe's `mv`. A step that fails ends the run,
and the next run compiles another source, in a new staging directory or in the one that was left.

## Runs

| Run | Bounds | Shows |
|---|---|---|
| `store` | 2 callers, 2 ids, clock 0..2, max age 1 | `MapMatchesHistory`: a sweep with an old reading never drops a young entry of another caller; `ImplementsRegistry` |
| `session` | 2 requests, 1 session, clock 0..1, max age 1, 2 attempts, 3 token generations | the six properties below |
| `session_logout` | the same | violation of `LogoutIsFinal` |
| `login` | 2 tabs, 4 flow ids, 1 page, 3 moves | `AskedAtMostOnce`, `ConsumedFlowGone`, `LoginEnds` |
| `login_lands_back` | 2 tabs, 2 pages, 2 moves | violation of `LandsBack` |
| `secrets` | 2 tasks, 4 tokens, leases 0 and 3, skew 2, delay 1, clock 0..3 | `NeverRacesExpiry`, `AppliedAtMostOnce`, `RetryHasAnotherToken`, `OperationsEnd` |
| `names` | 2 users, 3 renames, 1 failed cycle, overlap and lag 1, clock 0..2 | `NoRenameSkipped`, `RepeatIsNoOp`, `RowsBecomeCurrent` |
| `assets` | 2 callers, a pinned and an unpinned name, 2 paths, 2 contents, 2 writes | `ReadsAreCurrent`, `PinnedOrRefused`, `NoEntryStaysStale` |
| `gates` | a user with a token and one with a session, 2 groups and an unconfigured one, 7 gates, 7 handlers, every configuration, 2 changes at the IdP | `AdmittedWasEntitled`, `VerdictsAreTrue`, `DenialNamesTheWayIn` |
| `boot` | about 16 500 declarations through the derive; of one of them: a field of each class, argv of up to 3 of 11 tokens, 6 environments, 5 files; 24 values of the log's variables, 2 modules, 2 designators | `HighestSourceWins`, `EndsAsTheInputsSay`, `LinesAsNamed`, `StartsOnlyWhenAllIsValid`, `DerivedIsAdmitted`, `SpellingsApart` |
| `client` | 3 handlers, 24 sources of them, 2 routers, apps of up to 3 calls, 2 runs in a directory | `AppendIsOneStep`, `NoExportLost`, `TableIsTheApp`, `ClientReachesItsHandler`, `ClientCoversTheApi`, `SignaturesAreCurrent`, `NewDirectoryIsExact`, `RunsEnd` |
| `names_reuse` | names may be given again, 2 renames | violation of `RepeatIsNoOp` |

Why the bounds are enough. *session*: two requests are what it takes for one to store while another
decides; a third adds no new pair. Sessions share nothing but the sweep, which `store` covers, so one
id will do. Three generations are a login and two refreshes, one by each request; an IdP out of
generations only stops answering refreshes, which the attempts' timeout covers. Two attempts give a
failed one and a retry; instants 0 and 1 put a request before and at the session's age. *login*: each
tab has at most one flow of its own, the cookie has one and a callback in progress carries one, so
four ids mean that a login never waits. Three moves let both tabs start a login and one thing more
happen to them. With a second page, two moves: a login for each page, one in each tab, is what it takes
to cross. *secrets*: a lease of 3 is one longer than the skew, the shortest the cache uses; two
tasks are a holder and a waiter. *names*: at clock 2 a rename made at 0 is outside the overlap; three
renames are a chain, or two users' renames and a repeat. *assets*: two writes are a deployment and a
rewrite, or two files of which a name leads to one and then to the other; one caller stores an entry
while the other decides. `Coarse` is FALSE: with TRUE, `ReadsAreCurrent` fails, as the bytes of an
older write with the same mtime are served for good. A cache keyed by mtime cannot see such a write.
*gates*: two changes can take a user out of one group and into another between the gates of a
handler. The seven gates have each operator, one inside another, over configured and unconfigured
groups; the handlers have each extractor alone, one before a gate and two gates in a row.
*boot*: three tokens are a flag, its value and what comes after it, the longest reach a token has.
The layers set each field in each place somewhere, and the deployment in places other than the
value its class concerns. The theorems have no bound on argv. The lists of `LOG_DESIGNATORS` have bare
levels before and after named ones, a name twice, `off`, each kind of bad item, and no item at all. The
declarations are of two sorts. One is a field in every form: each type, each set of keys, each default,
beside a deployment or as one. The other is structs three deep of two names each, out of `a`, `b`,
`a_b`, `b_a` and `config`, each a leaf or a struct: what it takes for a joint between words to be
mistaken for one between segments. Three more are what only rustc refuses: a name given twice, a struct
inside itself. The theorems have no bound on declarations.
*client*: two tests are a writer and one that is overtaken; the third handler's name is the link name
of the first, for the clash. The sources have every way a path payload is bound, a template, a link,
what the macro refuses and what the generator does. Three calls are a route, a nest under each sort of
prefix, and a second route, nest or merge. The second run in a directory finds what any first one can
leave: a list of another source, a cut or a torn file.

The properties of `session`:
`NoIdentityPastMaxAge` and `RevokedStopsImmediately` speak of the identity a request ends with and of
the moment it began; `LogoutFinalWithoutRefresh` is logout without refresh tokens (the default);
`SpentTokenIsAccountedFor` relates the stored refresh token to what the IdP accepts;
`SessionEndsForAReason` lists what may end a session; `RequestsEnd` is liveness.

Deadlock is not checked where the system may really stop: in `login` when every move has been made,
in `secrets` and `names` when the bounds on the clock, the renames and the faults are reached, in
`assets` when the boot is refused, in `gates` when the request is answered and in `boot` when the
process has exited or did not compile. `store`, `session` and `client` never stop.

### Fairness

- `session`: the runtime polls every ready task (`Handler`), and the one-second timeout ends every
  attempt (`AttemptFails`). Nothing is assumed of the IdP, of clients or of the clock.
- `login`: the server's handlers run, responses arrive, the IdP and the user at its prompt answer
  (`Progress`). Nothing makes users begin anything. `exchange_code` has no timeout of its own, so an
  answer of the token endpoint is an assumption. Nothing is assumed of userinfo: `LoginEnds` names its refusal
  of one completed login after another as the one way a tab alone goes on for ever, see below.
- `secrets`: tasks are polled, authentik and the vault answer (`Answered`). The client has no
  timeout, so nothing weaker will do.
- `client`: the threads of the test run and the commands of the recipe go on (`PipelineFairness`).
  Nobody must start a run or kill one, no call must fail, and nobody must call the app's router at all.
- `names`: the loop never exits (`spawn`), the feed answers and shows every rename, and failures,
  which are bounded, stop.

### What the violations say

- `LogoutIsFinal`: a refresh in flight stores the session again after logout removed it
  (`web.rs:148`). Without refresh tokens, the default, logout is final, which is proved.
- `LandsBack`: with an IdP error, `callback` continues the flow of the cookie without comparing the
  request's state (`web.rs:350-361`), so with two tabs a page ends where the other one was. This is the
  only way: while every error that escalates comes to a tab whose own flow the cookie names
  (`OwnErrors`), every tab lands back. `LandsBackUncrossed` proves it.
- `RepeatIsNoOp` with names given again: user 1 is renamed from 1 to 3 and user 2 takes the name 1. The first
  rename is applied and a row of user 2 written; the next cycle has the rename from 1 to 3 again inside the
  overlap and gives the new holder's row the first user's new name (`sync.rs:19-21`, `apply.rs:30-42`).

Places where a text and the code differ, found while modelling and not refuted by a run of their own;
the model has the code:

- Fields are read from `CRON_*` however the app is declared (`Path::env`), the file from `cron_CONFIG`
  if it is declared in small letters (`layers.rs:16`), so `CRON_CONFIG` is then silently ignored, while
  the derive says that the case of an app does not matter. `AppCaps` FALSE is that app;
  `HighestSource` and `EndsRight` assume `AppCaps`, as the run `boot` does.
- `logging/README.md:161` and the table at :190 give `DEPLOYMENT_TYPE` the default `dev`, while an unset
  value is refused (`config/src/deployment.rs:31-37`). :179-180 calls a filter that silently matches
  nothing the defect `LOG_DESIGNATORS` is to remove, while a value of separators alone (`,`) is accepted
  as a list without items, and no designated line passes it (`filter.rs:39-58`).
- `logging/README.md:184-192` says of these variables that set to something unrecognised means the process
  does not start. A value that is not Unicode is read as unset (`config.rs:73-76`, `lib.rs:59`, `.ok()`), so the
  service starts with the default. `StartsOnlyWhenAllIsValid` has this exception by name (`Unread`).
- `routing/README.md:51-52` and :86-90 say that a payload or template that disagrees with the route is
  caught. `plan` checks that each parameter of the route is in the payload, not the reverse
  (`generate.rs:209-222`): a struct with a field more than the route passes, and fails at run time.

- `common-oidc.ts:43` calls the server's one escalation the net where sessionStorage is not available. It
  is none while silent logins succeed and only the API refuses: then nothing ends the bounces.
- `oidc/README.md:103-105` has a 401 with the re-auth header for an expired session. That is `Principal`'s;
  the typed extractors answer a fetch without it (`auth.rs:254-262`) unless the service words the refusal
  itself, so the shim does nothing for them.

And some things the model has because the code does them, no text speaking of them:

- When userinfo refuses the session of a login that has just completed, nothing ends the redirects: the page
  starts a silent login (`web.rs:423-428`), the IdP, whose own session lives, grants it, and `callback` sends
  the browser back to the page. `LoginEnds` fails in the run without its second disjunct.
- The URL of a path with an escaped brace has the brace doubled, and the root of a router nested under
  `/api/` is recorded as `/api`, which axum does not serve: these two forms of a URL reach nothing, and
  `ClientReachesItsHandler` leaves them out by name.
- A handler that lost its attribute keeps its descriptor in a staging directory that a failed run left;
  `NewDirectoryIsExact` is therefore about new ones. A torn `handlers.json` makes every later export
  there fail, a cut one counts as an empty list.
- One handler mounted twice is refused even where `Options::include` leaves both routes out; static files
  are named by their path for that reason, and one path under two nests is refused too.
- A link's function takes a query and a body that it does not use.
- Nothing in the derive checks that leaves are spelled apart. `SpellingsApart` shows when they are: snake
  case names, one root, and no leaf at the top named as a flag of the load; a second root shares
  `DEPLOYMENT_TYPE`, and a leaf `config` at the top the variable of the file. An app named `DEPLOYMENT`
  with a leaf `type` would share `DEPLOYMENT_TYPE` as well; only that `type` is a keyword prevents it. The raw
  name `r#type` keeps its `r#` in the flag and the variable (`ident.to_string()` of the derive), which no
  shell sets.

## Proofs

All from the constants' named assumptions only. Most are natural bounds and values outside the data;
four say more:

- `RuleAssumption`: a gate over others is not part of itself. Gates are types (`Or<A, B>`), so the
  compiler sees to it. It is stated as well-foundedness: every set of gates has one with no half in it.
- `PathAssumption`: the paths an app gives its router have no two slashes in a row before their end.
  `Router::nest` trims all slashes at the end of a prefix, axum one, so with two the record would differ.
  Likewise `TableIsTheApp` allows the one difference a single slash makes: the root of a router nested under
  a prefix that ends in a slash is recorded without it, see above. And `ClientReachesItsHandler` compares
  templates: that a literal route takes a value of a parameter beside it (`/runs/new`, `/runs/{id}`) is not in it.
- `DeriveAssumption`: a field's name is told by its words and underscores, to_ascii_uppercase tells words
  without capitals apart, and no name that is plain becomes `TYPE` in capitals, since `type` is a keyword.
- `BootAssumption`: the marks of an unset variable and of a bad item are no level.

Where a definition recurses over data (`ParamsUpTo`, `FilterUpTo`, `RenamedUpTo`, `JoinedUpTo`, `Denials`,
`LeavesIn`), it is a recursive function, and the proof unfolds it by the library's theorem for a
well-founded relation, or shows that its equations have a solution: for `JoinedUpTo` one length after the
other, for `LeavesIn` as the least sets of leaves closed under them (`LeavesExist`). What holds of all lengths
is then shown for the set of those where it fails, which would have a least element (`LeastOf`); for gates
the least element is that of `RuleAssumption`, for structs that of `Sized`. No induction theorem with an operator for a parameter
is needed.

`OidcSessionProofs`. The store first, for any callers and any movement of the clock. `StoreInv` adds to
type correctness and `MapMatchesHistory` that the clock and
every reading a pending put holds are at most `highest`. That is what is needed: a sweep drops an
entry only if it was old by a reading, and the reading is at most `highest`. `Implements` shows that
initial states map to initial states of `SessionRegistry` and steps to steps or stutters, using
`StoreInv` for `Get`.

Then the sessions. `IInv` says of each session (`SessionOK`) that an id nobody was given is
untouched, that `created` is the login's instant, that a revoked login has no live token and one
without a refresh token none to store; and of each request (`RequestOK`) that it holds a session of
an issued id, read while young enough, that one begun after a revocation never sees a good answer,
and that without a refresh token none gets as far as storing. The second needs the first: a refresh
copies `created` and the grant's lack of refresh tokens from the session that was read.
`AgeBounded`, `RevocationImmediate` and `LogoutFinal` follow.

`TokenInv` is about refresh tokens. With an IdP that rotates them, at most one is live and it is the last
minted. While the reply with it is on its way to be stored, neither the stored session nor any request
under way has it, so no second refresh can succeed, and the reply's request is the only one (`RotatedOK`).
With an IdP that keeps them, every copy is the login's (`KeptOK`). Both need that tokens are minted in order
and none comes back (`Grows`). A step that
drops a session is `Logout`, `Restart`, the sweep of a store, or a request that found it dead:
`EndsHaveReasons` goes through all of them.

`OidcLoginProofs`. `AskedAtMostOnce` is about a chain of flows, so `IInv` has to say how a flow
carries it: one that follows a prompt counts as tried (`FlowOK`). For `ConsumedFlowGone`: a code is
exchanged for the flow of the cookie it arrived with, which is the one its request was made with
(`TabOK`) and is taken out of the store in the step that uses it up.
`LandsBackOnOwnErrors` has the form `[]OwnErrors => []LandsBack`. `LandInv` says of each tab that the flow its request
carries, if it is still stored, the copy its exchange awaits with and the page it ends on are of
the page it asked for. A new id is no other tab's, so a login that starts disturbs nobody; a duplicate
asked for the same page; a code is only exchanged with the tab's own flow, by the comparison of states.
That leaves one step of `Next`, the escalation (`LandError`), and it alone uses `OwnErrors`.

`SecretClientProofs`. `CacheOK` bounds what a cached entry's `expires_at` may say about the vault's
lease: late by the login's delay, early by the skew. `TaskOK` says that a request was sent with a
delay and more left of its token's lease, that only a first attempt looks at the cache, and that
what was carried out is not answered with a rejection. `ClientAssumption` (two delays fit in the
skew) is what `NeverRacesExpiry` rests on. None of the three depends on who gets the lock next.
`QueueOK` is about that: a task is in the queue once if it is at a step between asking for the lock and
leaving it, else not at all, and those behind the head wait. It survives a task that is dropped
anywhere in the queue (`Cancel`). `WellTyped` is the whole `TypeOK`, and `LoginsExclude` that one task at a time is in
the login, so that a crowd that finds the cache stale asks for one token after the other.

`NameSyncProofs`. All under `~Reuse`: a name that can be given to somebody else is the violation of
`names_reuse`. `IInv` says that renames are in the order of their instants and each gives a name that is
new (`LogOK`, `NamesOK`), that what the feed answered was all that was asked for and had to be visible
(`BatchOK`, which is where `Lag` comes in), and that no row has a name a committed cycle replaced
(`AppliedOK`). `NoneBehind` is `NoRenameSkipped`. A commit keeps it because a rename older than the new
cursor's overlap was either in the batch, or already behind the earlier cursor; in the first case no row has its
old name when the batch is through, in the second none had it, and no rename of the batch gives it, those
being later (`RenamedIs`, about batches of any length). `RepeatIsNoOp` follows from `AppliedOK`.

`AssetCacheProofs`. `Pins` holds for every clock: what is stored and what is returned was compared
with the pin, whatever its mtime. `Current` and `NoneStale` assume `~Coarse`. Their `IInv` says that
an mtime stands for one content: files have different ones (`FilesApart`), calls that found the same
one have the same file (`CallsAgree`), and an entry, stored or about to be, agrees with the file that
still has its mtime and with what a call that is looking it up has seen (`PairsOK`). The stamp is taken
before the bytes are read; that is why a write in between makes the entry unusable instead of wrong.

`AuthGateProofs`. `IInv`: the context, once resolved, was vouched for at one instant or needs no
vouching (`ContextOK`), and every extractor passed so far lets exactly that context pass
(`PassedOK`). It holds because the context is never resolved again: each extractor adds itself to what
the others decided on. `Entitled` is for any gates and handlers, so any nesting of predicates. That the
predicates mean what they say is a recursion over gates: `OpensIsTruth` shows that `Denials` is empty
exactly where the truth table is true, and `PositiveGatesName` that a refusal of a gate without Not names
groups the user lacks, one of which is granted wherever the gate opens. `Verdicts` and `DenialsName` carry both
to the requests, as the answer of a request came from the context it has (`DeniedOK`).

`ServiceProofs`. The load alone first. While argv is read, `ParsedOK` says that what was parsed is what the tokens
before `next` give last, and that `next` is never a word some flag takes; the tokens that are jumped
over are then exactly the values. `StageOK` says what each merge leaves: the text of the highest of the
layers merged so far. At the end both meet the reference. `HighestSource` and `EndsRight` assume
`AppCaps`. Of the schema they use what `Admitted` says (`SchemaFacts`), which `LoadMayRely` proves of what the
derive lets through, whatever is declared, as long as dotted names are apart. That they are is left as its
hypothesis: a name of Rust has no dot, but strings are opaque to the provers.

Then the boot, over `ServiceSpec`. `BootInv` says what a phase implies of the load's stage and of the
variables, and of the filters once they are chosen (`PhaseOK`), that what is read is what the variables are
but for those that are not Unicode (`ReadOK`), that nothing was refused before a refusal ended the boot
(`RefusedOK`), and `StartsOnlyWhenAllIsValid` in terms of what is read (`ReadIsValid`). `StartsRight` follows
for what the variables are. `LoadsAsAlone` is that the load's invariant holds within the
boot, since every step of a service is one of the load or leaves its variables. `LinesFollow` uses both
and `FilterOf`: for a list of any length, what the loop of `Designators::parse` keeps for a name is what
the last item about it says. `DerivedCanBeMet` is about one field of any declaration: what the derive's checks
of type, presence and class let through together is a leaf whose class some deployment meets.

Last the declaration as a whole, for any structs in one another. `AllDerivedIsAdmitted` carries
`DerivedCanBeMet` to the leaves of inner structs (`LeavesCanBeMet`), shows that leaves have paths of their own
(`PathsApart`: no struct has two fields of a name) and that the path `deployment` is the root's own field
(`DeploymentLeaf`); then what `SchemaOf` says of a path it says of one leaf. `AllSpelledApart` is about texts
of any length. In the text of a plain path, single marks stand between words and double ones between segments,
so its last segment can only be the part behind the last double mark: a longer one would have a mark where
a plain name has a word (`LastSegmentLength`). Text and segment are then taken off together until one of the
paths is empty (`TextsApart`). Capitals lose nothing (`CapitalsApart`), and the leaf that goes by `DEPLOYMENT_TYPE` is
the root's own: if a leaf of an inner struct did, the root would be inside itself (`SharedIsTop`).

`ClientPipelineProofs`. The export alone first, for any handlers and builds. `ExportInv` says that a test under way is of the build
(`TestsOfTheBuild`), that what the holder of the lock has read is what is in the file until it cuts it
(`HolderOK`), that only a list has descriptors (`FileOK`), and that a test that has written finds its
descriptor in the table (`WrittenOK`). The last is inductive only with the others: another test's write
keeps the descriptor because what that test read is the file, and it is the file because one test at a
time is between lock and unlock (`Exclusive`). `StepInv` shows at once that a step keeps `ExportInv` and that
it is a step or a stutter of `HandlerTable`; `ExportsKept` and `ExportRefines` follow.

Then the recipe, for any sources, routers, apps and number of runs. `PipelineExports` is that the recipe
implements `ExportSpec`: each of its steps is one of the export's or leaves the lock, the file and the tests
alone, so the theorems about the export hold in it. `PipelineInv` adds what a run knows. `RunOK`:
the list has one descriptor for each handler, every test of the build was started, and a failed write or
a killed run leaves a failed test. `RouteOK`: for each router the record and what axum serves belong
together, entry by entry, which `nest` keeps because both put the prefix before every path (`PathAssumption`
is for this). `PipeOK`: after the tests, all of them have passed and none is under way, so the list has each descriptor
of this source; what the generator joins it with is the app's record. The client is one step from there, so the five properties of a client follow from what the
join and the functions are over a list and a record that are so.

Model-checked only is liveness (`RequestsEnd`, `LoginEnds`, `OperationsEnd`, `RowsBecomeCurrent`,
`RunsEnd`), which is out of the prover's reach with its fairness. Every other property of a passing run is a
theorem.

`BootTypeOK` documents the variables and is checked by no run; the other type invariants are part of a
proved one or checked by one.

## Not modelled

- Seconds of the retry schedule: `backon`'s jittered delays. The model has a bound on attempts and a
  budget that may end after any of them, which allows every schedule.
- Parsing: `safe_next`, cookies, JSON, TOML, RFC 3339, userinfo claims, the typed texts of a
  configuration. Pages, tokens, names and texts are opaque.
- More than one process: the stores are in memory and per process (`with_flow_store` says so).
- A browser that refuses cookies (`web.rs:84`), and the number of flows stored at once.
- A global subscriber that somebody installed before `boot_sealed` (`try_init().ok()` keeps it).
- Routing: the barrel of the generated files (`barrel.rs`), the bytes and headers of embedded files
  (`static_files.rs`), `layer`, which records nothing, and the TypeScript text around the functions.
- Config: the help text and the layout of `--print-config` (`help.rs`), secrecy of printed values. Logging:
  the formats of a line (`format.rs`), spans.
- The shim in the browser (`common-oidc.ts`): `OidcLogin` takes its bounce as any silent login. Its own
  state (a flag per page, a stamp per tab, answers on their way) beside two tabs makes more than five
  million states with a single move of a user, which is beyond what can be checked here.
- The option for the asset origin and its place in the
  policy header (`assets_origin.rs`), which is parsed once and substituted.
- Discovery and the configuration sections of oidc and secrets: read once, then constant.
- Theme, ui-core and the names derive: static data and generated accessors.

## Plan

Done: the stores, sessions, login, gates, secrets, names, the asset cache, the configuration from its
derive to the boot, and the client from its handlers to `client.ts`; proofs of the safety of all of
them. What would come next:

1. The shim's bounce and loop guard with one tab, beside an abstraction of `OidcLogin`.
2. The barrel, as an operator beside `ClientGen`.
