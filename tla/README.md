# apimount in TLA+

apimount turns an OpenAPI document into a command line, an MCP server, a
WebDAV share and an NFS share.  All of them hand requests to one execution
core: response cache, authentication, HTTP client, and a chain of middlewares
for validation, pagination, retries and rate limits.  This directory models
that core and what surrounds it, from the document and the settings to the
end of the process, checks it with TLC on small instances and proves what
matters most with TLAPS for instances of any size.

Paths below are relative to the repository (`internal/core` is short for
`src/internal/core` in `PROJECT.json`).

## The system and its parts

| Part | Code | State | Operations |
|---|---|---|---|
| response cache | `internal/core/cache/cache.go` | map under a RWMutex, byte counter, time to live | Get, Set (with its eviction loop), Invalidate, a background sweeper |
| executor | `internal/core/exec/executor.go` | none of its own | ExecuteGET, ExecuteWrite, the terminal handler `transport` |
| API client | `internal/core/exec/client.go` | `http.Client` with a timeout | Execute |
| middleware chain | `internal/core/exec/middleware.go` | none | validation, pagination, retry, rate limit, outermost first |
| validation | `internal/core/exec/validate.go` | none | a body against the schemas of its operation |
| retry | `internal/core/exec/retry.go` | one loop per request | repeat, back off, give up on cancellation |
| rate limiter | `internal/core/exec/ratelimit.go` | a token bucket under a mutex | wait, adjust to headers, drain on Retry-After |
| pagination | `internal/core/exec/pagination.go` | one loop per request | detect a strategy, fetch pages, merge |
| device-code login | `internal/core/auth/oauth2device.go`, `tokencache.go`, `cmd/apimount/auth.go` | a token in memory and one in a file | Login, Apply (refreshes), Logout, Get, Put, Delete |
| other credentials | `auth.go`, `oauth2cc.go`, `provider.go`, `mtls.go`, `sigv4.go` | a cached token under a mutex | Apply |
| settings | `cmd/apimount/root.go`, `helpers.go`, `internal/config`, `auth/secret` | viper's layers | initConfig, newExecutorFromFlags, Resolve |
| specification | `internal/core/spec` | read only | load, parse, find an operation |
| plan | `internal/core/plan` | a tree of directories and files | build, print |
| frontends | `internal/frontend`, `cmd/apimount` | open files, one server | MCP tools, WebDAV and NFS files, `call` |
| server lifecycle | `cmd/apimount/serve.go`, the `Serve` methods | a context, a listener | start, listen, signal, close, exit |

A frontend finds an operation and calls ExecuteGET or ExecuteWrite.
ExecuteGET asks the cache, on a miss calls the client, and stores the
response; ExecuteWrite calls the client and then invalidates the URL and its
parent.  The client applies the credentials, which may mean a request for a
token or a refresh and a write of the token file, and sends the request.
The chain of middlewares is assembled over the same client.

What is hard in it:

* goroutines meet in the cache between the critical sections of one Get, and
  in the limiter between the sleep and the retry of one wait;
* a GET that is out while a write invalidates its URL;
* several processes write one token file, with no lock between them, and any
  of them may stop between truncation and write, or lose an answer after the
  issuer has already replaced the token;
* a mutex that is held while the issuer is asked for a token, and a token that
  may end while somebody waits for that mutex;
* credentials that several schemes put into one header, in the order of a map,
  and references to secrets of which some cannot be read;
* an attempt that is repeated passes the limiter again, and may be canceled
  there, after an earlier attempt had a response;
* a signal may come at any moment of a server's start, and only one is taken;
* paths overlap, and three surfaces resolve the overlap each in its own way:
  the command searches all operations, the tree keeps the first claim on a
  name, the tools keep the last;
* a virtual file is read in several steps while the resource changes;
* loops that end only because some counter moves: eviction, retries, pages.

`PROJECT.json` lists these hazards at their lines with the properties that
would show them going wrong.

## Modules

| Module | Models | State and actions |
|---|---|---|
| `LossyCache` | what the cache promises its callers | `latest` entry per key; a lookup reads it in `Look` and decides in `Decide`, and may always miss |
| `TTLCache` | `cache.go` | `entries`, `curSize`, `mu` are the struct's fields; `GetRead`, `GetCheck`, `GetDelete` are the three parts of Get, `SetBegin`, `EvictOne`, `SetStore` those of Set, which keeps `mu` |
| `Executor` | `executor.go` over `LossyCache` and the upstream | `pc`, `url`, `sentAt`, `reply` are the locals of a call; `log` and `version` the upstream, which other programs change as well; a URL is the sequence of its parts, the pieces that resolveURL and parentPath spell differently among them, so that `ParentPath` cuts and spells as the code does and `Containing` finds the keys an invalidation reaches |
| `TokenBucket` | `ratelimit.go` | the struct's fields; `TryDrained`, `TryTake`, `TryShort` are the branches of one turn of wait |
| `Validate` | `validate.go`, and the schema types of `parser.go` | no state; `Violations` is validateValue as a function on the bodies and schemas of an instance; `Admits` is the reference: what the schema means |
| `Retry` | `retry.go` and the way past it | the loop's variables per request, the outcomes of its calls |
| `Pipeline` | `middleware.go`, and the chain of `NewExecutorWithMiddleware` | validation, the loop of `Retry` and, under each attempt, the bucket of `TokenBucket` |
| `Pagination` | `pagination.go` | `current`, `items`, `pages` are the loops' variables; one strategy's loop is `More`, `NextPosition`, `NextPage` |
| `DeviceAuth` | `oauth2device.go`, `tokencache.go`, the commands | `tok` per process, one `file`, `pc` and `local` per goroutine; the issuer is external |
| `Settings` | `root.go`, `helpers.go`, `secret.go`, and the constructors in `auth` | no state; what the user has set up is a record of its layers, and its references are resolved or not |
| `Client` | `client.go`, `auth.go`, `provider.go`, `oauth2cc.go` | `lock` and `token` of the provider, `headers` of each request; `Begin` applies the static schemes, `Lock`, `Granted`, `NotGranted` are Apply of the provider, then `Send` and `Return` |
| `Server` | `serve.go`, the `Serve` methods, `call.go` | `phase`, `signal`, `canceled`, `closed`, `status` of a process, over the requests of `Client` |
| `Parser` | `parser.go` | no state; from a document to the operations the surfaces work on, with generated ids and summaries of parameters |
| `Operations` | what the parser hands on, `resolveURL` | no state; a path is its sequence of segments |
| `Lookup` | `find.go` for `call` | `at`, `best`, `literals`, `params` are the loop's variables; one `Consider` per operation |
| `Mount` | `builder.go`, `node.go`, the files of `webdav.go` and `billyfs.go` | `tree` maps the path of a node to its operation; `Add` is one round of BuildTree; `file` is what a client has open |
| `Tools` | `mcp.go` | `tools` maps names to operations; `Printed` is what `fmt` makes of an argument |
| `Frontends` | `serve.go`: a server, and commands beside it | the three above over one `document` |
| `Induction` | | no part of the system: induction and recursion as facts about sets and functions, for the proofs |
| `*Proofs` | | theorems about the module of that name (`PipelineProofs`: about `TokenBucket` and `Validate` too; `FrontendsProofs`: about `Lookup`, `Mount` and `Tools` too; `ServerProofs`: about `Client` and `Settings` too) |
| `MC*` | | instances for TLC |

`Executor` builds on `LossyCache`, and `TTLCache` is shown to implement
`LossyCache` (property `PromiseKept`, theorem `Refinement`), so what is found
of the executor holds over the real cache.  `Pipeline` extends `TokenBucket`
and `Validate` and takes its loop from `Retry`; its steps are those of
`TokenBucket` with something beside them, so that what is proved of the limiter
holds under the chain.  `Server` extends `Client`, which extends
`Settings`: the settings decide which credentials a process has, and whether it
starts at all.  `Frontends` composes `Lookup`, `Mount` and `Tools` over one
document, which `Parser` has made in `MCFrontends`; what ExecuteGET returns to
them is any version of the resource so far, since the cache may be behind.

Two compositions are left to their interfaces.  Pagination asks the rest of the
chain for one page after the other, so a request of `Pipeline` is one page; and
the device-code provider, whose Apply is all of `DeviceAuth`, is in `Client` a
provider that sets its header.

A variable whose comment begins with "history" records what happened for the
sake of a property and guards no action.

## Runs

| Run | What it shows | Bounds |
|---|---|---|
| `cache_answers` | The cache implements `LossyCache`; a live entry is lost only for a cause a caller can know of; Set returns | two goroutines and the sweeper; three keys, each with bodies of one length, in a cache with room for two units; time to live 1, three ticks |
| `cache_livelock` | VIOLATION: with bodies of two lengths, Set may turn in its loop for ever | two keys |
| `exec_reads` | A GET is stale by at most one time to live and one request; older than a finished write only if it was out while that write dropped the cache, or the write's URL is spelled in two ways | a collection, its item `1,2`, writes to the item and to what is below it, two clients, two changes of the upstream, three ticks |
| `requests` | The whole chain: no window of time lets more through than bucket and rate pay for and each attempt pays; a Retry-After is honoured; what must not be repeated goes out once; the last result is returned; transient failures are retried; waits grow; validation refuses what the schema refuses | two requests side by side, a token of two fractions, one announced limit, waits of one and two ticks, four ticks; statuses 200, 404, 503 and no answer at all; three attempts; a cancellation anywhere; sixteen schemas, each with sixteen bodies, an empty and a malformed one among them |
| `retry_bypass` | VIOLATION: requests by way of ExecuteGET are not retried | those of `requests` |
| `device_tokens` | Logins survive restarts, and calls end; a refresh is refused only after a fault or where two held one token; a logout is final where nothing is refreshed | two goroutines in one process or in two, `auth logout` besides, three kinds of issuer, three tokens, one fault of any of four kinds anywhere |
| `device_logout` | VIOLATION: a refresh that was out when the file was removed writes it again | one goroutine and `auth logout` |
| `pages_merged` | Items are merged in order and, when nothing went wrong, completely | every strategy, totals up to five items, pages of one or two, a cap of four pages |
| `pages_error` | VIOLATION: an error on a later page is dropped and a part returned as the whole | the same |
| `surfaces` | The command finds the best match and the server reads what was typed; each file of each operation is found in the tree, as the first claimant's; one WebDAV open is one request and one version; file and tool agree with the command | parsed documents of three or four operations, in which a literal meets templates, two templates meet, a path occurs twice, two methods with bodies share a directory and an id occurs twice, and one document that is refused; one client, two versions; arguments that are texts and numbers, one of which prints otherwise than it is typed |
| `life` | A request carries the credentials its operation asks for, whatever they were set by; tokens are asked for one at a time, and not before the last is used up; processes end on a signal; nobody waits for the provider for ever | a call with each of the setups of credentials and each kind of `security`; WebDAV, NFS and stdio servers with two goroutines, three requests, tokens good for one or three ticks or for ever, a margin of one, six ticks, a signal anywhere |
| `server_stops` | VIOLATION: MCP over standard input does not end on a signal | one process |

The bounds are such that each branch is taken and each race has room: an
interleaving of the cache needs two calls on one key and an eviction by a
third key; the token file needs two writers and a reader; a token that ends
while somebody waits needs two requests, and a third to ask for the next; an
attempt that finds the bucket empty needs the other request in front of it; a
tie in the lookup needs two operations before a better third.  No counter is
part of a guard except where the code has that counter; the clock and the
numbers of changes, tokens, faults and requests are bounded by the constants
`MaxNow`, `MaxRev`, `MaxTokens`, `MaxFaults`, `MaxRequests`.
`pages_merged` does not check for deadlock, because its one request really
ends there.  `Pipeline` and `Server` have a step in which nothing happens once
everyone is done (`Terminating`, `Exited`), so that any other stop is reported.

### What the violations say

* `cache_livelock`: two removals of one entry each subtract a size of their
  own (`cache.go:58-62`, `81-87`).  When they are of different bodies the
  counter may stay above what an empty map holds, and the loop at
  `cache.go:85` never ends, with the mutex held.  (Every shipped command
  builds its cache with `cache.New(0, 0)`, which stores nothing:
  `helpers.go:98`.  The cache is modelled as it is when it is switched on.)
* `retry_bypass`: `README.md:146` says every request goes through the
  pipeline; the chain in `e.handler` (`executor.go:54`) is never called.
* `device_logout`: `Apply` stores its refreshed token after the file was
  removed (`oauth2device.go:158-163`).
* `pages_error`: errors of later pages are dropped (`pagination.go:134`).
* `server_stops`: `frontend.go:19` says of Serve that it must return when its
  context is done; `mcp.go:72` ignores that context over standard input, and
  since the signals were taken from their default action, the process goes on.

`drain` overwrites `drainEnd` (`ratelimit.go:151`), so that a shorter
Retry-After that comes later ends the wait a longer one asked for.  Nothing in
the repository says which of two waits wins; `HonoursRetryAfter` counts such a
wait only to the end that the later one has set (`told`), and says that nothing
else may cut it short.

A refresh token that is good for one refresh is refused to the second of two
that hold it (`oauth2device.go:153-163`), although the command promises that
the token "will auto-renew" (`auth.go:127`).  `AutoRenews` says that, faults
apart, this is the only way to a refusal: `crowded` records that a token was
renewed while another goroutine or process had it too, or was picked up before
its replacement had arrived there.

## Fairness

* `TTLCache`: weak fairness for the steps of a call that is under way, since
  the Go scheduler runs a goroutine that can run and its mutex is fair.
  Nobody is obliged to call.
* `DeviceAuth`: strong fairness for each goroutine.  `TokenCache.mu` is taken
  and released for ever by others, and Go's mutex serves waiters in order
  after a millisecond, so a waiter gets it; the issuer is assumed to answer
  in the end, which nothing in the code enforces, the refresh having no
  deadline (`oauth2device.go:153`).
* `Server`: weak fairness for the steps of main and its goroutines (`Setup`,
  `Listen`, `TakeSignal`, `Close`, and `Stop` except over standard input,
  which need not end), strong fairness for each request (`Proceed`), which may
  wait for the provider's mutex, and weak fairness for answers: the upstream
  answers or the client times out, but that the issuer answers has to be
  assumed, since the token source runs on `context.Background()`
  (`oauth2cc.go:59`).  Nobody has to send a signal.
* The others are checked for safety only.

## Proofs

All theorems are for any values of the constants that satisfy the named
assumptions of the modules (`CacheAssumption`, `ExecutorAssumption`, `Scope`,
`BucketAssumption`, `ValidateAssumption`, `NestingAssumption`,
`TextAssumption`, `RetryAssumption`, `PipelineAssumption`, `DeviceAssumption`,
`SettingsAssumption`, `ClientAssumption`, `ServerAssumption`,
`OperationsAssumption`, `LookupAssumption`, `MountAssumption`,
`PaginationAssumption`), which TLC evaluates in each run.  Three of them say
more than types: `NestingAssumption`, that bodies and schemas end somewhere;
`ClientAssumption`, that no two schemes have one name, being the keys of a map
(`parser.go:114`); and `MountAssumption`, that no segment, tag or operation id
is called like a virtual file, which is a bound of the model.

Loops over sequences, bodies inside bodies and powers of two need induction.
The library's induction theorems take predicates, which no prover here can
instantiate, so `Induction` states what is needed of sets instead:
`InductionBelow` (a set that holds an x once it holds all below x holds
everything, along any well-founded order) and `Recursion` (a function defined
by recursion along such an order exists).  Both follow from the
well-foundedness of finite subsets.

* `TTLCacheProofs`.  `Typing` first, then `Discipline`: the mutex is held by
  exactly the Set in progress and entries belong to their keys.
  `Coherence` ([]Coherent) says the map holds nothing but latest entries;
  with it and `Discipline`, `Refinement` maps every step to a step of
  `LossyCache` or a stutter.  For the byte counter the inductive invariant
  is `NeverOvercounts`, `curSize <= Accounted`: sizes are counted as sets of
  bytes so that removing any set of keys is a set difference, and the
  subtraction of an entry that is gone already only lowers the counter.
  This needs `FixedLength` (each key's bodies have one length); without it
  the counter may be too high, which is `cache_livelock`.
  `EvictionProgress` follows: a full cache has something to evict.
  `LossExplained` ([]LiveLossHasCause) follows from `Coherent` and
  `FoundExpired`, that what a Get is about to delete has expired.  With one
  goroutine and no sweeper the counter is exact (`ExactCounter`) and the map
  within its size (`Capacity`).
* `ExecutorProofs`.  `Staleness` ([]BoundedStaleness) is not inductive: a body
  in the cache is old for a reason that lies in the request that fetched it.
  `BoundInv` adds that a response in hand is no older than the client's
  timeout, and an entry than that and its time to live.  For `RaceOnly`
  `RaceInv` says that whatever the cache or a GET has in hand, and a finished
  write to a plainly spelled URL has made old, is `Explained`, by a GET that was
  out when that write dropped the cache.  That such a write reaches all it
  changes follows from `Scope` and from `ParentPath`, which for these URLs is a
  prefix of the keys.
* `PipelineProofs`, the limiter.  `Conformance` ([]WindowBound) is not
  inductive: it says nothing of what is left in the bucket.  `Funded` is: from
  each request on, the requests let through and the tokens left are paid for by
  the largest bucket and the largest rate.  `RetryAfterHonoured` rests
  on `DrainInv`: nobody is to wait for longer than the bucket is drained, or
  will be by the response in hand.
* `PipelineProofs`, the chain.  Every step of it is a step of `TokenBucket` or
  leaves the limiter alone (lemma `ChainLimited`), so that `ChainConformance` is
  `Conformance` again, for the attempts of the loop.  `Payment` ([]Paid) counts: by `PaidInv` the
  attempts that have reached the upstream are finitely many, and no more than
  the requests the limiter let through.  For the loop the inductive invariant is `RetryInv`: while a request
  runs, the number of its attempt counts the calls made, none of them was a
  success, and more than one was made only if it may be repeated; once it has
  ended, what was returned is the last call's.  `NoRepetition`, `LastReported`
  and `Persistence` follow from it, and `ChainTyping` from it and the types.
  `WaitsGrow` (`BackoffGrows`) rests on `CapInv`, that the bound of a wait
  is the doubled one or `MaxDelay`; it assumes `Fits`, that the last doubling
  does not overflow a Duration, which it does not with the defaults.
* `PipelineProofs`, the validation.  `RightVerdict` ([]Verdict): by induction over
  bodies, `Violations` is empty where `Admits` holds of an unambiguous schema,
  and not empty where it does not hold of a checked one.  This needs
  `NestingAssumption`, and `TextAssumption` for what `fmt` prints; lists of
  arrays or objects are not checked values (`Checked`), since `fmt` prints
  different ones alike.
* `DeviceAuthProofs`.  `Renewal` (`RenewInv`): short of a fault and of two that
  hold one token while it is renewed, every token that a process has in memory
  or is about to present is one the issuer accepts, also when each is good for
  one refresh.  `Clearing`:
  where nothing can be refreshed only a Login is ever on its way to the file.
  `Survival` ([]Survives) needs to know what is still to happen to the file:
  in `SaveInv`, a token on its way there is nobody's but its process's
  (`Alone`); when it is used up, a goroutine of that process has the next one
  and is yet to store it (`Followed`); and a file that is gone, torn or used up
  is about to be written (`Kept`).
* `PaginationProofs`.  `Typing` ([]TypeOK) holds of any request and any server:
  no more pages than the cap, no position before the first.  `MergedInOrder` ([]InOrder): by `Ordered` the items so far
  are a part of the collection, and what follows the current page starts where
  they end.  Page numbers need `Paged` for that, that so many pages of that size
  are the items so far.  It is conditioned on `Regular`: offsets are counted from
  0, and pages have the server's size, as they do in `pages_merged`.
  `MergedCompletely` ([]Complete) adds `Awaited`: a loop that goes on would see
  the next page announced if there is one (`Names`), and a short page of the
  offset strategy is the last.  For that, `Suited` says that a forced strategy is
  the one the server is made for.
* `ServerProofs`.  `Spacing` (one token is asked for at a time, and not before
  the last is used up) rests on `TokenInv`: whoever asks holds the mutex, and
  the token kept is the last one granted.
  `Authorization` ([]Credentialed) takes three steps.  `SetUpInv`: nobody has
  begun a request but in a process whose setup did not fail, and then every
  secret was read (`SecretsRead`).  `InjectedAuthorizes`: by induction over the
  names, in any order the maps give them, the last scheme that can be met is
  met (`LastIsMet`), and where no two share a header each one is (`AllAreMet`).
  `CarryInv` keeps that, or the token, from the moment the headers are put
  together.  It assumes `NoAWSKeys`, that nobody keeps an API key under
  `X-Amz-Date` or `X-Amz-Security-Token`, which the provider for AWS overwrites.
* `FrontendsProofs`.  First `Lookup` by itself.  `BestFits`: the loop invariant of
  FindOperation, with `Counted`, that `literals` is the count of the best so far.
  `Concrete`: the URL of the best operation reads segment by segment as the
  request (`ConcretePath`), given `PlainPaths`: literal segments of the document
  stand for themselves, and no path names a template twice.  The servers
  leave the command's variables alone, so this holds beside them.
  `OneAnswer` ([]OneVersion): the inductive invariant `Opened` says that each
  open file is `Steady`, holding one version and having asked for nothing before
  it is loaded, or `Idle`.
  `EveryFile` ([]NothingLost): the invariant of BuildTree is `TreeInv`, that every
  node hangs below a directory, that what is a file is a file of an operation
  added so far or a help file, and that at the place of each file of an operation
  added so far there is that of the first to have one there.  That a walk from the root comes to
  each is an induction over paths.  `SurfaceTyping` ([]TypeOK) is the same
  invariant beside those of the command and the tools.
  `OneOperation` ([]MountAgreesWithCall) joins `TreeInv` with `BestSoFar`: a tree
  that keeps the first of its claimants and a search for the best find the
  same operation, since for a concrete path the best is the first that is
  equal to it.  It assumes `Dense`, that no path has an empty segment: splitPath
  drops those, so that `/a//b` and `/a/b` share a directory, and the search
  does not.
  `OneUrl` ([]ToolAgreesWithCall) puts the command's invariant beside
  `Handlers`, that a tool is that of the last operation of its name so far; it
  assumes `Named`, that every operation has an id.

Only model-checked: liveness (`SetReturns`, `CallsEnd`, `Stops`,
`RequestsEnd`), since the prover handles neither fairness nor ENABLED.  Every
invariant and every action property of the passing runs is a theorem, under
the hypotheses named above.  What `Parser` and `Settings` make of a document
and of flags enters the theorems through the assumptions on constants; the
runs compute it for the documents and setups they list.

## What the code does that one might not expect

The models have these as the code has them.  Where a property would fail of
them its condition says so.

* `parentPath` cuts the decoded path and encodes the rest anew
  (`executor.go:199-205`), which does not escape a comma or a semicolon as
  resolveURL did, and does escape the braces of an unbound template.  So a write
  to an item whose name has a slash, or to what is below one whose name has a
  comma or a semicolon, leaves its collection in the cache.  `exec_reads` has
  such a write; `StaleOnlyByRace` counts those whose URL is `PlainlySpelled`.
* A tool prints its arguments with `fmt` (`mcp.go:121`), and a JSON number is a
  float64: 12345678 goes out as `1.2345678e+07`.  A template that is declared
  for the whole path goes out unbound, and of two operations with one id the
  tool has the later.
* The terminal handler makes an error of every status outside 2xx, so the
  retry loop repeats a 404 as it repeats a 503; it uses the operation's path as
  it stands, templates and all (`executor.go:139`).
* An attempt that is canceled in the limiter takes the result of the attempt
  before with it.
* Validation: an integer may be 1.5; values of an enum are compared as `fmt`
  prints them, so that 1000000 (`1e+06`) is in no list; only the first of
  several types counts, and anything goes if that is "null"; an empty body
  passes though one is required.
* Credentials for the query are added after the URL was built
  (`client.go:119`) and never sent.  `security: []` applies every scheme of the
  document.  A client secret that comes to nothing, or half of the
  client-credentials flags, fall back to the device token or to none without a
  word.  A profile's settings do not reach mutual TLS or AWS
  (`root.go:107-112`), although `README.md:260-263` shows them there.
  `SigV4Provider.Apply` adds a date, and a session token if there is one; the
  signing function is never called.
* `OAuth2CCProvider.mu` is not the only mutex there: the token source of
  golang.org/x/oauth2 below it has one of its own (`oauth2cc.go:59`), so that
  `FetchesSpaced` would hold without the provider's as well.
* A token is used until ten seconds before it ends, the margin of
  golang.org/x/oauth2, where the comment at `oauth2cc.go:30` says one minute.
* A second signal is swallowed; requests under way are cut when the process
  ends.
* The parser takes a document for Swagger 2 if it says so anywhere in its
  text; it drops parameters declared for a whole path; ids it generates may be
  equal; and it reads the status "2XX" as 2.

## What is not modelled

* Bodies, headers, formatting and logging, except where a property is about
  them.  A page is its list of items; the random choice among several arrays
  in an object (`pagination.go:279`) is left out with it.
* The order of query parameters in a cache key (`cache.go:41`), which only
  causes misses; that ExecuteWrite drops its query (`executor.go:111-117`) and
  that `call` ignores `--header` (`call.go:30`).
* Two ways in which the offset strategy goes wrong, a caller's own offset
  (`pagination.go:202`) and a limit above the server's cap
  (`pagination.go:220`), are kept out of `pages_merged` by its requests.
* Rates are integers of fractions per tick; a header that announces less than
  one request is left out.
* Templates in mounted paths are never bound: `CloneWithBinding`, which would
  bind them, is called by a test only, so `/pets/{id}/.data` asks for that very
  path.  Likewise `.response` is always empty, since nothing sets
  `LastResponse`, although `builder.go:221` describes it as the last response.
  `Mount` has both as the code has them, and no property says otherwise.
* Handles, attributes and listings' order of the WebDAV and NFS servers, whose
  protocols are in their libraries; path segments named like a virtual file.
  The NFS library opens a file anew for each READ (`billyfs.go:160`), so that
  `OneVersion` speaks of WebDAV only.
* Query values, bodies and schemas of the tools, and what `parser.go` makes of
  responses, base URLs and descriptions; loading a document from file or URL.
* The signature of `sigv4.go`, which nothing calls; the certificates behind
  mutual TLS and the files, variables and commands behind secrets, which are
  either readable or not; `errors.go`, which wraps and prints.
* Commands that print and keep no state: `doctor`, `profile`, `spec`, `tree`,
  `validate`, `version`, and `auth status`.

## Plan

1. `LossyCache`, `TTLCache`, its proofs (done)
2. `Executor` over `LossyCache` and its proofs, `parentPath` included (done)
3. `TokenBucket`, `Retry`, `Validate`, and `Pipeline` over them (done)
4. `Induction`, and the proofs of the limiter, the loop, the validation and the
   chain (done)
5. `Pagination` and its proofs (done)
6. `DeviceAuth` and its proofs (done)
7. `Operations`, `Parser`, `Lookup`, `Mount`, `Tools`, `Frontends` and their
   proofs (done); schemas of the tools
8. `Settings`, `Client`, `Server` and their proofs (done)
9. The provider of `DeviceAuth` in place of its interface in `Client`, and pages
   over the chain of `Pipeline`
