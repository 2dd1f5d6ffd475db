# A TLA+ model of the Cloudflare DNS MCP server

This directory specifies the server in `src/`: what its parts keep, what each
operation does, which properties make them correct, and what has been checked
and proved. Paths below are relative to `src/` (so `src/gateway/agents.ts` is
`src/src/gateway/agents.ts` of the repository).

## 1. Inventory

The program is an MCP server with eleven Cloudflare tools. It runs over stdio,
over HTTP for one tenant, or over HTTP in *gateway mode*, where agents
authenticate with bearers and each acts with the Cloudflare token of one key.

| Component | State it keeps | Operations | Correct when |
|---|---|---|---|
| `AgentStore` (`gateway/agents.ts`) | `state` in memory and `agents.json` | addKey, deleteKey, createAgent, rebindAgent, setAgentEnabled, rotateBearer, deleteAgent, findAgentByBearer, loadStore | every agent is bound to a key that exists; one agent per bearer; what was revoked stays revoked, in memory and in the file |
| `EncryptedFileStore` (`gateway/store.ts`) | `secrets.enc.json`, `secrets.salt`, the memoized AES key | setSecret, getSecret, deleteSecret | every entry can be decrypted again with the passphrase it was stored under |
| `KeychainStore`, `selectSecretStore` | the macOS keychain | the same three | the same |
| `writeFileAtomic0600` (both files) | a temporary file, the file under the path | open, write, fsync, rename | a reader finds a whole text whatever was cut short |
| Admin API (`startAdminServer`, `gateway/admin.ts`) | none of its own; writes both stores | nine endpoints behind a password and loopback checks | a confirmed key has its secret; a failed one leaves nothing; confirmed revocations hold |
| Admin page (script in `admin.ts`) | password, section shown, tables shown, banner | unlock, refresh, lock, one handler per button | the login form has forgotten the password; the tables end up the server's; the bearer shown works; Disable never enables |
| `/mcp` endpoint (`runHttp`, `index.ts`; `gateway/context.ts`) | `res.locals.agent`, the request's token | authenticate, read the body, get the secret, run the tool call | a call acts only with the token its bearer opened |
| Startup (`main`, bind guard) | two sockets | refuse, start, listen, exit | never open to the network without authentication, unless told; whole or gone |
| HTTP guards | none | Host, Origin, bearer parsing, bind addresses | exactly the documented hosts, origins and bearers pass |
| HTTP client (`doFetch` and the parsers, `cloudflare.ts`) | none | one request, 30 s timeout, the path of a URL | pinned to the API; ends; an error for every failure and for nothing else |
| Zone cache (`resolveZone`, `withZone`) | one Map per tenant | resolve, evict, retry once | recovers from stale ids; no tenant sees another's zones |
| Account cache (`resolveAccountId`) | one id per tenant | resolve | no tenant writes to another's account |
| Writing DNS tools (`tools.ts`) | none; Cloudflare's records | create, update, delete | one write per call; snapshots undo; checks hold of what is written |
| Reading tools, passthrough | none | list, get, export, verify; any request | reports agree with Cloudflare; lists are read to their end; the passthrough obeys its mode |
| Worker tools | the operator's environment | set_worker_secret_from_env, deploy_worker | no script is both model-written and given a secret |

How they interact: the admin server and `/mcp` share one `AgentStore` and one
secret store by reference, in one Node process; `runWithToken` puts the
request's token in an `AsyncLocalStorage`, from which the HTTP client takes it
and the caches take their tenant key. Tools call `withZone` or
`resolveAccountId`, and these call the HTTP client. Files connect one process
with the next; Cloudflare connects calls with each other and with whoever else
uses the account.

What is hard: Node runs a handler up to its next `await`, so state captured
before an await is used after it; `persist` may throw after the memory has
changed; two files are written one after the other, each in four system calls;
a request that timed out may still take effect; something other than Cloudflare
may answer in its place; zones, accounts, records and tokens change at
Cloudflare at any time; the admin page's promise chains overlap; and a restart
forgets memory and may change the environment. The `hazards` of `PROJECT.json`
list these places line by line, with the properties about each.

## 2. Modules

| Module | Models |
|---|---|
| `GatewayValues` | the values that pass between the gateway's parts |
| `AgentStore` | `agents.ts`: `mem` is `state`, `disk` is `agents.json`; one action per method, with a parameter `saved` that says whether `persist` got through |
| `SecretStore` | `EncryptedFileStore`: one action per outcome of each method |
| `AtomicFile` | `writeFileAtomic0600`, a system call at a time: `tmp` is the temporary file, `dirs` the versions of the directory from the one on stable storage to the one processes see |
| `SecretFiles` | `EncryptedFileStore` over `AtomicFile`: `call` is the method that runs, cut off by an exception, a kill or a power loss between any two system calls. `loadMap` takes a blank secrets file for an empty map, as the code does, and throws on one that does not parse |
| `Gateway` | the admin endpoints and the `/mcp` requests over both stores, with crashes; `busy` is a handler between its two writes, `mcp[r]` a request between its awaits |
| `TokenAccess` | the abstract specification: a relation from bearers to keys, dead bearers, a vault of tokens, requests that act with one token |
| `AdminPanel` | the page's script in one tab: `chain[c]` is a promise chain with its requests, `shown` what the page displays; the server's tables change under it |
| `Texts` | `split`, `trim` and the slices at an `indexOf`, on texts as sequences of tokens |
| `HttpGuards`, `EnvLists`, `ApiPath` | the predicates over headers and `HOST`, the list parsers and the path of a URL, on such texts |
| `TextChecks` | writes texts of each kind a token at a time; the reference definitions they are compared with |
| `Server` | `main`, the bind guard, the two sockets, stdio, and the requests to `/mcp`: let through by the middleware (`Post`), run with their agent's token (`HandleRequest`, `runWithToken`), handed to a tool (`CallTool`). `context[c]` is what `AsyncLocalStorage` holds for the chain of callbacks of `c`'s request; `apiToken` looks there before each request to Cloudflare, also those a call sends after a wait |
| `CloudflareClient`, `ReadTools` | what each parser makes of a reply; the tools that read and the passthrough, as calls that wait for Cloudflare or for what answers in its place |
| `ZoneCache` | `resolveZone` and `withZone`, with zones created and deleted at Cloudflare |
| `RecordTools` | the three writing tools inside `withZone`, over a transport that loses and delays answers |
| `WorkerTools` | the two Worker tools and `resolveAccountId`, across processes with different environments |
| `MC*` | constants and symmetry for TLC |
| `SecretFilesProofs`, `GatewayProofs`, `ZoneCacheProofs`, `WorkerToolsProofs`, `RecordToolsProofs`, `ServerProofs`, `AdminPanelProofs`, `TextProofs` | the theorems; those about the two stores stand in `GatewayProofs`, those about `AtomicFile` in `SecretFilesProofs`, those about `ReadTools` in `ServerProofs` |

How they are composed. `Gateway` extends `AgentStore` and `SecretStore`, and
instantiates `TokenAccess` under the mapping `opens` (the bearers that
authenticate now, with the keys they open), `dead` (confirmed revocations),
`vault` (tokens in the secret store) and `request` (the `/mcp` slots without
their agents). `SecretFiles` extends `AtomicFile` and instantiates `SecretStore`
with what the two files were meant to hold: the two refinements lead from system
calls to methods and from methods to the gateway's promise. `Server` extends
`ReadTools`, which extends `CloudflareClient`, and `HttpGuards`, which extends
`EnvLists`; `WorkerTools` extends `EnvLists`; `EnvLists` and `ApiPath` extend
`Texts`, and `TextChecks` extends `HttpGuards` and `ApiPath`.

Conventions. One action is what the code does between two awaits (in
`SecretFiles`, between two system calls), including every call it makes. A
handler that refuses before any write is not a step: it changes nothing.
Variables marked *history* record what happened and are read by properties only.
An operator whose name ends in an underscore and a word (`Serve_RereadsKey`,
...) is a mutation: a bug somebody could write, kept beside the original to show
that a property would notice. No specification uses one.

Abstractions. Ids, bearers and salts are drawn fresh, never twice (128 and 256
random bits). SHA-256 and scrypt are injective, AES-GCM opens only under the
key that sealed. A client of `Gateway` presents only bearers it was given.
Names, dates and array order are left out of `AgentStore`: no decision depends
on them. The methods of `EncryptedFileStore` are `async` but contain no await,
so they are over when they return; a handler between two of them can be cut off
by a crash and by nothing else. Requests pipelined on one connection could
interleave there at microtask granularity; a browser does not pipeline, and this
is not modelled. In `RecordTools`, `content` stands for name, content, data and
ttl, which the tools pass on unlooked at. In `AdminPanel` an answer carries the
state of the moment it was served, and is seen any time later. A reply in
`ReadTools` is a status and the kind of its body (an envelope of success or of
failure, JSON without one, `null`, text, text taken for JSON that does not parse,
empty, cut off), and lists come with their `result_info`. A rebinding in
`AdminPanel` does not change the selects shown, which `shown` has from the last
refresh; the next refresh draws them again.

## 3. What the runs check

Bounds are the sizes of the constant sets. In the gateway ids are never reused,
so the sets bound whole lives: how many keys, agents and bearers a data
directory ever sees. In the zone cache they bound how often a zone is created
again.

| Run | Bounds | Shows |
|---|---|---|
| `gateway_admin` | 2 keys, 2 agents, 3 bearers, no request | every agent is bound to a listed key, in memory and in the file; bearers stay unique; confirmed revocations and disablings hold across failed writes and restarts. Two keys and two agents are what a rebinding that races a deletion needs; three bearers allow a rotation that fails between two that succeed |
| `gateway_access` | 2 keys, 1 agent, 2 bearers, 2 tokens, 2 passphrases, 2 salts, 1 request at a time, fair | types, token isolation, decryptable secrets, confirmed keys have their secrets, secrets outlive keys, and `Gateway` implements `TokenAccess`; after a confirmed revocation requests under the bearer end for good. Two bearers are an old one and the one that replaces it. Its symmetry (`LiveSymmetry`) leaves bearers and requests alone, since the fairness and the liveness property speak of single ones; neither mentions keys, tokens, passphrases or salts, so a behaviour and its permutation agree on both |
| `secret_files` | 2 keys, 1 token, 2 passphrases, 2 salts, short writes, stable storage up to 2 renames behind, a secrets file that is missing or blank at first | files are whole or as a short write left them; a damaged file is refused and never written over, while a blank one counts as empty; no entry loses its salt to a power loss; the methods implement `SecretStore`. Two renames are the salt and the first map, which must be lost in that order only |
| `admin_panel` | 2 keys, 1 agent, 3 bearers, 2 passwords, 2 chains, 3 presses, 1 mishap | two chains overlap in every order: unlock with lock, command with refresh, command with command, each with a wrong password, or one failure, restart or change made elsewhere. Whatever overlaps, the login form has forgotten the password and only Enable enables; the tables and the banner are true after chains that nothing disturbed. Three presses are an unlock and two commands |
| `texts` | lists of 6 characters, hosts of 7 tokens, Authorization headers of 7, paths of 6 | lists permit exactly the names that stand in them; exactly loopback hosts and origins pass, with ports and brackets; a bearer is read as it was issued or not at all; no accepted path leaves `/client/v4`, encoded dots, queries and fragments included, and one without an encoded double dot is fetched as it was written but for its single dots. Six characters hold two names with blanks, doubled and trailing commas; seven tokens an IPv6 host in brackets with its port; six a climb out of a directory |
| `server` | 59 environments, 8 callers, 1 client, 2 tokens, 3 zones on pages of at most 2, asked for by 1 or by 3, 8 replies of something on the way | the process is open only as configured and either listens on all its sockets or exits; calls end; verdicts and reports agree with what Cloudflare did; a list is read to its end; nothing is written unless asked for. The environments vary each group of settings that is read together; pages of 2 when 3 are asked for put the last page off by one, and pages of 1 divide the zones exactly |
| `server_tokens` | 2 clients with the bearers of 2 agents, 2 tokens, one of them also in the environment of the gateway | a request to Cloudflare, the first of a call or one after a wait, carries the token of the agent whose bearer opened the request. Two are what it takes for one to find the other's token |
| `zone_cache` | 2 tenants with one zone name, 3 zone ids, 2 calls | transparent recovery: one call evicts while another's late answer refills; the tenants' Maps do not mix; work lands on the zone referred to |
| `record_tools` | types A and MX, priority 0, one comment, 2 records, 2 zone ids, 2 calls, 1 edit, seven kinds of arguments | a call writes at most once and reports what it did; snapshots undo, and checked writes are valid, when nobody interfered |
| `workers` | 2 tenants, 1 account, 2 scripts, 2 variables, 4 environments, 2 calls, 3 processes | separation of duties, except for a script the operator moved; a secret that arrives was permitted by one environment as a whole; a call that names no account uses its own or the operator's |

Deadlock is checked except where the system may stop: in `record_tools` and
`record_revert` ids, edits and calls are used up, in `admin_panel` presses, in
`texts` texts reach their length, and in the two runs of `Server` the process
may exit. Every
component with state has a type invariant in its module. TLC checks that of
`Gateway`, which has the most shapes to get wrong, and the proofs of section 4
establish all of them.

Two runs are expected to find a violation; each is a sentence of the repository
that the code does not keep (`findings` in `PROJECT.json`):

- `gateway_dangling`: admin.ts 370, "a failed store leaves no dangling key". The
  rollback writes to the disk that just failed, and its error is swallowed.
- `record_revert`: tools.ts 579, "to revert". An added comment stays.

Other sentences hold only under conditions that the properties state:

- store.ts 103, "atomic replace": a short `writeSync` on a disk that filled up is
  renamed into place. `AlwaysWhole` says that nothing else breaks a file and
  `DamageStays` that the store then refuses it. After a short write of the salt
  the running process goes on sealing under the salt it has in memory, and the
  next process refuses the salt file: those entries are lost.
- README 269, a rotated bearer "stops working immediately": a request already
  past the middleware still starts its call. `RevocationTakesHold` says what
  holds.
- tools.ts 529 and 594: the snapshot is of the moment the tool read the record.
  An edit between that and the write is overwritten unreported, which is why
  `SnapshotsUndo` speaks of calls that were not `touched`.
- README 193, "never both": holds within one run of the server. A script deployed
  by the model in one run and listed by the operator in the next receives
  secrets; `SeparationOfDuties` excludes every other way through the two Worker
  tools. What `cloudflare_api_request` in mode `full` writes to a script is not
  looked at.
- cloudflare.ts 346, a successful reply that is no JSON "must not be misreported":
  text that begins with `[` or `{`, or is announced as JSON, is taken for JSON
  (370), and when it does not parse the call is reported as failed, malformed,
  with status 200, though Cloudflare did it (377). `ReportsTrue` excepts errors
  that say the reply was no JSON.
- tools.ts 303, a token is "genuinely invalid" when the probe fails as well: the
  probe may just have timed out. `VerdictTrue` leaves out calls that were
  `disturbed`.

And facts met on the way that no property is about, since nothing in the
repository speaks of them or they need no run to be seen:

- The passthrough fails on a successful JSON `null` with a TypeError, which has no
  status, though the call was done. `ReportsTrue` does not take an error without a
  status for a refusal.
- The passthrough and `export_zone` take any 2xx text for the answer, that of a
  captive portal included.
- An `ADMIN_PASSWORD` with a blank at either end can never be presented: the panel
  trims the bearer it reads, and not the setting. `MCP_AUTH_TOKEN` is compared
  with the header as it stands (index.ts 153).
- `list_zones` past the last page says that no zones are visible.
- On the admin page: a refused list of agents during unlock leaves the app without
  a password; the answer of a rotation that arrives after lock fills the hidden
  banner again; a second bearer replaces one that was not copied yet, and a lock
  on 401 clears it; the late 401 of an old refresh logs a new session out;
  refreshes that overlap may leave the older table, and two rotations of one agent
  answered in reverse a bearer in the banner that no longer works; an agent whose key is missing
  from the list shows the first key as selected.

Fairness. `FairSpec` of `Gateway`: a suspended handler is resumed (weak
fairness), and each `/mcp` request ends (strong fairness, since other handlers
disable the step while they run): Node's event loop takes queued events in turn,
its request timeout bounds the wait for a body, and `doFetch` bounds each call to
Cloudflare by 30 s. `Spec` of `Server`: the start runs (it is one synchronous
piece of code), each socket reports how listening went, and the timer of a
waiting request goes off (`AbortSignal.timeout`). Neither Cloudflare nor any
client is assumed to do anything.

## 4. What is proved

Every invariant and every action property of the passing runs is a theorem of its
specification, for any sets of ids, bearers, tokens, passphrases, zones, records,
scripts, variables and environments, any number of calls, requests or promise
chains at a time, any number of presses, edits and restarts, for stable storage
any number of renames behind, and for texts of any length over any tokens. The
proofs use the following assumptions, and TLC evaluates each of them on the runs:

| Assumption | Says |
|---|---|
| `AbsentAssumption` (`GatewayValues`, `RecordTools`, `AdminPanel`), `NoHandlerAssumption`, `NoFileAssumption` | `Absent` and `NoFile`, which stand for `undefined` and a missing file, are none of the values |
| `RefAssumption` | a zone's name is never an id; `Absent` is neither |
| `ShortWritesAssumption`, `MaxEditsAssumption`, `BoundsAssumption`, `StartsAssumption` | the bounds are a Boolean or numbers, and at least one process starts |
| `PathsAssumption`, `BlankAssumption` | the two files of the secret store and their texts are among those `AtomicFile` is about; a blank text is neither a salt nor a map |
| `EnvironmentAssumption`, `ServerAssumption`, `ArgsAssumption` | environments and arguments are records of the fields the code reads; each bearer opens a token |
| `AdmittedAssumption` | `Nothing`, which stands for no request, is none |
| `ReadToolsAssumption` | pages hold at least one zone; no token is no token; what answers in Cloudflare's place never sends an envelope of Cloudflare's |

The last part of the last is the one a reader may want to argue with: no parser can tell a forged
envelope from a true one, and TLS is what keeps it away.

### The gateway

- `TypeCorrect`, then `UsesStores`: every step of `Gateway` is a step of
  `AgentStore` and a step of `SecretStore` or leaves them alone. What is
  proved of each store by itself (`StoreKeepsAgentsBound`,
  `StoreKeepsBearersUnique`, `StoreKeepsSalt`) therefore holds in the gateway:
  `AgentsStayBound`, `BearersStayUnique`, `SaltStaysKept`.
- Uniqueness of bearers is not inductive: a rotation must bring a bearer no
  stored entry has. `BearerInv` adds that every hash stored is of a minted
  bearer; ids and bearers are minted once.
- `SaltKept` is not inductive either: a memoized key could have been derived
  from another salt. `SecretInv` adds that a derived key's salt is the file's.
- `RevocationIsFinal`: `IssueInv` ties each stored hash to the agent it was
  issued for and keeps confirmed revocations out of memory and file, whichever
  of them a later write or reload copies into the other.
- `DisablingLasts`: `OffInv` says the same of disabling, that an agent last
  disabled with a confirmed write is disabled in memory and in the file. It holds
  only together with the ids being minted once.
- `CreatedKeysKeepSecrets` and `SecretsOutliveKeys`: `KeyInv` says what the
  suspended handler still has to do, and that a key whose secret is being
  dropped is gone from both views already.
- `TokensIsolated`: `GatewayInv` conjoins these with what an admitted request
  holds.
- `GatewayGrantsAccess`: `Gateway` implements `TokenAccess`. Under the mapping of
  section 2 the initial states agree, and each action is a step of `TokenAccess`
  or a stutter. An administrator of `TokenAccess` may set `opens` to any relation
  from bearers that are not revoked to keys; that writes, failed writes and
  reloads stay within it follows from `GatewayInv`, and so does that a request
  acts with the token the vault has for its key, and that a secret is stored once
  per key.

### The secret store's files

- `FileAlwaysWhole`: what is under a path is on stable storage, and whole or as a
  short write left it. `AtomicInv` says so of every version of the directory a
  power loss may bring back, since a temporary file is written and stable before
  it is renamed.
- Of `SecretFiles`, from one invariant, `FilesInv`: `StoreFilesWhole`,
  `SaltSurvives`, `DamageIsKept` and `FilesImplementStore`. That entries have
  their salt now is not inductive, because a power loss brings older versions
  back: `FilesInv` says it of every version (`Sound`), says what a write under
  way is for (`SaltPending`, `MapPending`: the file it replaces is undamaged, and
  the text is the stored map with one entry changed), and that a key in memory
  comes from the salt in the file. Damage is what a reader throws on: a secrets
  file of which nothing but blanks is left counts as empty, so the writes over it
  are those of the refinement, to the empty map. The refinement reads each rename as the step
  of `SecretStore` and every other system call as a stutter.

### The zone cache

`TenantsIsolated`, `ActsOnTheZoneAskedFor` and `RecoveryIsTransparent`, over
`ZoneInv`. That a call works on its tenant's zone depends on four places an id can
come from: the world, the cache, a lookup's late answer, another call's refill.
`OwnedInv` therefore says of each of them that the ids there are of the zone that
was asked for (`Fits`); it is inductive because Cloudflare never gives an id
twice, so that the zone an id once denoted (`origin`) never changes. Recovery adds
`SettledInv`: for a call whose tenant's zones have not changed since it began, an
answer of Cloudflare is up to date, so is an id that did not come from the cache,
and an id that was refused is not the zone's; an id it looks up itself can
therefore not be refused.

### The Worker tools

`DutiesStaySeparate`, `SecretsArePermitted` and `AccountsAreOwn`, over `DutyInv`.
Whether a script is both deployed and given a secret shows only when a call ends,
possibly in a later process, so `DutyInv` carries for every call in flight that
one environment started so far opened the gate to all of it, its script and its
variable together (`Permitted`), and where its account comes from; for the cache,
that an account is there only as its tenant's own answer; and for the scripts,
that some environment permitted their code and each of their secrets. Permissions
of the past are kept in the set of environments started so far, which only grows.

### The writing DNS tools

`CallsWriteOnce`, `WritesAreValid` and `EditsCanBeUndone`, over `UndoInv`. The
transport may lose an answer after the write happened, and `withZone` may run a
tool's body twice, against another zone id. `CallsInv` says what is true of a call
at each of its awaits: while its zone is still the same and nobody touched the
record, the record is what the tool read (`Current`); a finished write replaced
what the tool had read (`Wrote`); its arguments passed the tool's checks, and a
call that is not over has had no effect (`WellFormed`). The last part is what
makes `CallsWriteOnce` inductive: a body is run again only after a 404, which is
the answer to a write that was not done, while a request whose answer was lost
ends its call with an error before it may take effect.

### Startup and the tools that read

Over `ServerInv`: `ServerIsOpenOnlyAsTold`, from `StartedRight` (a socket is open
only in a process that the bind guard let listen) and `DoorInv` (a request that is
past the middleware satisfies what the guard counted on); `CallsUseTheirOwnToken`,
from `OwnContext`: once `runWithToken` was called for a request, its context holds
the token of the agent that the middleware found, no step of another client
changes it, and so each request a call sends finds that token, at first
(`TokenBound`) and after each wait (`WorkKeeps`);
`VerdictsAreTrue`, `ReportsAreTrue`, `ListsAreComplete` and `WritesWereAsked`,
from what a call holds after each reply: an honest exchange so far (`Honest`),
what its verdict will rest on (`Verified`, `Says`), and that the zones gathered
are exactly those of the pages before the next (`Paged`).

### The admin page

Three invariants, each over the one before. `BaseInv`: what each promise chain
waits for, and that only the right password is ever answered. `UnlockInv`, for
`UnlockingSettles`: a wrong password in memory, and any password behind the login
form, is one that a chain still tries. `CalmInv`, for `TablesAreTheServers` and
`BannerIsTrue`: while nothing has disturbed the page at most one chain is under
way, and the answers it holds are the server's tables (`Told`); a table called
fresh is the server's, or the chain that will draw it again is under way
(`FreshTables`); a bearer called sure opens its agent, or the answer that replaces
it has arrived (`SureBanner`). `ButtonsSayWhatTheyWant` needs `BaseInv` alone.

### The texts

`ListsAreExact`, `HostsAreExact`, `BearersAreExact` and `PathsArePinned` state the
four properties of `texts` for any alphabet and any length, with no assumption on
either. Reachability gives only that a text is a sequence over its alphabet
(`TextType`); the rest is about what the operators compute.

- `split` and `pathname` are recursive functions, so that takes an induction over
  the text. The rules of the library that have a predicate for parameter cannot be
  instantiated, but `WFMin`, that a set has a minimum under a well-founded order, is
  first-order. `UpTo` is induction as a fact about sets of numbers, and
  `RecursionHasFunction`, that a function defined by recursion exists, follows
  from it (`SplitUnfolds`, `PathnameUnfolds`).
- `Reading` is the invariant of `split` under way: the parts that are over are the
  slices between two separators with none in between, and the last part is what
  has been read since. `SplitAreParts` is what is left of it at the end.
- `TrimSlice`: what `trim` leaves of a slice is what stands between its outermost
  tokens that are no blanks. With the parts this gives the lists
  (`AllowlistExactly`), and twice over the bearers (`BearerAtIsRead`,
  `ReadBearerIsAt`).
- Hosts: `NamedHost` and `BracketedHost` compute both readings, the header's and the
  browser's, for a host with or without a port. `HostsAgree` needs no such form: any
  header without `@` that reads as a loopback host is one for a URL too, or does
  not parse as a URL.
- Paths: the code looks for `..` in the parts between slashes, `?` and `#`. Every
  segment up to the query is one of them (`CutParts`, `WrittenAreParts`), so a path
  without `..` has no double dot but an encoded one. Without double dots `pathname`
  puts each segment that is no single dot where as many were kept before it
  (`WithoutDoubleDots`, by induction over the segments with `PlacedStays` and
  `PlacedNext`; `CountGrows` counts them).

### Only model-checked

Liveness under fairness (`RevocationTakesHold`, `StartsOrExits`, `CallsEnd`): the
proof system has no rules for fairness and ENABLED.

## 5. Not modelled, and the plan

Not modelled:

- The keychain store and `selectSecretStore`: each method is one synchronous call
  of macOS's `security` command, whose behaviour is outside the repository; its
  callers meet the same outcomes (returns, is missing, throws) as with the
  encrypted files.
- `probeCloudflareToken`, parsing of request bodies and the connector snippets of
  the admin API: they change nothing.
- Formatting and truncation of answers, hints, the multipart layout,
  `scrubSecret`, file modes, logging: text without decisions. Constant-time
  comparison: not a property of states.
- The test and smoke scripts.
- A power loss in `Gateway`: its restarts take a confirmed write as lasting. The
  directory is not fsynced after a rename, so a power loss may bring a rotated
  bearer back; `AtomicFile` has this and the code promises nothing else.
- Changes to the gateway's agents in `Server`: `Gateway` has them.
- That a chain of callbacks keeps the context it was begun in, through `await` and
  `then`: this is Node's `AsyncLocalStorage`, and `Server` has it as one variable
  per request. What the code does with it, where the token is put in and where it
  is looked up, is modelled.

Next. No safety property of a passing run is left without a theorem. What remains
is three hazards without a property: the stale read between the two requests of an
update or a delete, which nothing in the code notices; a `PATCH` of an agent with
both fields, which is modelled (`PatchKeyId`, `PatchRejected`) but promised by
nothing to be all or nothing; and the Maps of rotated tokens that are never
removed. Of the overlaps on the admin page, refreshes and rotations answered in
reverse are modelled and stay outside the properties, as section 3 says.
