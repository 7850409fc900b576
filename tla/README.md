# CRE Deal Analyzer: specifications

TLA+ models of the multi-tenant server (`src/server/`), of the client that keeps
and underwrites deals (`src/src/lib/`, `src/src/App.jsx`) and of the ingestion
pipeline behind its market data (`src/src/pipeline/`), checked with TLC, with
proofs checked by TLAPS. The definitions are translated from the source at this
commit; `PROJECT.json` maps each of them to the lines it stands for.

## The system

The server is a Node process (several, behind a load balancer) over one
Postgres database. Postgres is where processes meet: rows, row locks, row
policies, transactions. Code between two `await`s runs alone in its process, so
an action of a model is one awaited statement, or one outcome of it, together
with the code that follows up to the next `await`. The client is a page that
works without a server too, on the browser's storage. The pipeline is a library
the client's build and its operators run: callers that share a transport, and
a store of snapshots.

| component | state | operations | what is hard | what makes it correct |
|---|---|---|---|---|
| Browser sessions (`auth/session.js`, `middleware/requireSession.js`, `lib/api.js`, `lib/useSession.js`) | `sessions` rows, un-awaited touches, cookie jar, token in the page | issue, resolve, idle revoke, rotate, touch, logout | several requests on one cookie; rotation is four awaits; answers get lost | revocation is final, a successor replaces, nobody suspended or deprovisioned is served |
| Account status by SCIM, provisioning (`routes/scim.js`, `auth/provisioning.js`) | `users`, SCIM tokens, limits in memory | create, list, patch, replace, delete; first sign-in | two calls about one person; pages that shift; races with sign-in; guessed tokens | no session outlives the account; the trail says who is in; a listing misses nobody |
| Sign-in (`auth/login.js`, `mfa.js`, `magicLink.js`, `duo.js`) | `sso_states`, `magic_links`, `mfa_pending`, the firm's policy | SSO callback, link callback, Duo callback | duplicate callbacks, policy changing between awaits, Duo out of reach | a credential admits once; policy is enforced; evidence is earned and audited |
| Sign-in mail and rate limits (`magicLink.issue`, `mailer.js`, `middleware/rateLimit.js`) | `login_links`, counters in memory | ask for a link | count and insert are separate statements; windows end under a burst | an inbox is mailed a bounded number of links; a refusal is reported once |
| Audit log (migrations 003 and 008, `routes/audit.js`, `admin/verifyAudit.js`) | entries, digests, the id sequence | insert under the trigger, verify, page | commits out of id order, rollbacks, tampering | the chain shows tampering; readers miss nothing |
| Duo configuration (`admin/duo.js`) | `tenant_duo` | set, check, enable, disable, failmode | commands without transactions | a credential that is enabled was itself checked, but for two disclosed ways |
| Deals and keys (`routes/deals.js`, `crypto/`) | `deals`, `tenant_keys`, a process cache of keys | list, create, update, delete, seal, open, backfill | key creation races, cache before commit, backfill against updates | a sealed payload can be opened, until its firm is erased; an acknowledged write stands |
| Retention and offboarding (`admin/retention.js`) | the same, `retention_days` | purge, offboard | against live requests; the key material outside the database is not transactional | nothing of an erased firm can be opened; destruction commits with its record |
| Export (`routes/export.js`) | cursors of one transaction, what has been sent | stream an archive | minutes of streaming while rows change; a client that goes away | a disclosure is recorded; what is missing from an archive that says it is complete has its reason beside it |
| Client storage (`lib/storage.js`, `lib/dealStore.js`, `App.jsx`) | a document in local storage or rows behind the server, the page, notices | load, edit, save, set aside; list, create, update, remove | storage that fills, refuses or is damaged; answers out of order; two tabs | what was typed is saved or said to be unsaved |
| Underwriting (`lib/finance.js`, `waterfall.js`, `screen.js`, `rentRoll.js`, `buyBox.js`, `sensitivity.js`, `validation.js`) | none: pure functions of a deal, with loops in them | model, size, screen, test, split, solve | searches that circle, tiers and clawback, undefined figures | money is conserved, solves land, the parts agree with one another |
| Ingestion pipeline (`src/pipeline/`) | facts on two clocks, a graph, snapshots in a store, a breaker and a cache | run, assert, save, load, request | crashes between writes, concurrent saves, late corrections, failing hosts | what was known can be reproduced; a bad payload costs nothing; figures shown were observed |

`PROJECT.json` lists every component with its status.

How they interact: requests reach deals only through `requireSession`; sign-in
ends by issuing a session; SCIM and the operators' commands change the rows
sessions and sign-in read; everything appends to the one audit chain in its own
transactions. The page calls `/deals` through `api.js`. Figures of a deal are
recomputed from it on every change and never stored, so the desk and the storage
meet in nothing but the deal.

## Modules

**`Sessions`** is the session of a browser at one firm. `minted` and `row` are
the committed rows; `req` holds the requests in flight, each at a program
counter that names the awaited statement it has reached (`resolve`,
`idleRevoke`, `mint`, `insert`, `revokeOld`, `reresolve`, `handler`, `reply`);
`touches` are the `last_seen_at` updates `resolve` does not await; `scim` holds
the directory's transactions, with the rows they have locked or written but not
committed; `jar` and `page` are the browser. Two details of Postgres decide the
hard cases and are modelled as they are: an `INSERT INTO sessions` evaluates the
row policy on `users.active` before its foreign key waits for the row lock a
`SELECT ... FOR UPDATE` holds (`InsertCheck`, `InsertRow`), and an uncommitted
`UPDATE` blocks others of the row but not reads (`RowLocked`).

**`Login`** is a sign-in from the callback to the session: `complete`,
`completeMagicLink` and `completeDuo`, await by await, for any number of
presentations of the same SSO state, link or Duo challenge, while operators
change one field of the firm's policy at a time. Every session is traced to its
*root*, the state or link the flow began with. What Duo and the broker answer
is a nondeterministic choice. **`Admission`** is what a single-use credential
promises, with every check abstracted away; `Login` implements it under the
mapping at the end of `Login`.

**`Directory`** is the SCIM endpoint of one firm: the two limits and the token
in front of every request, then the handler, one transaction each, which reads
its person under `FOR UPDATE`, writes, and records. Beside it runs the sign-in
of somebody new, which creates or adopts the same account. A listing is a read
of pages by `OFFSET`. An address is its normal form, numbered in the order of
the alphabet; a limit's window lapses when it likes, and its counter is kept no
further than it matters. Names and external ids are left out, and so are the
sessions a deactivation revokes, which are `Sessions`' subject.

**`AuditChain`** is the hash chain. A digest is the list of what it commits to,
so equal digests are equal histories. Ids come from a sequence, entries commit
in any order, and the trigger sees what had been committed when it ran.
The owner of the database may tamper once; a reader pages with a cursor.

**`DuoAdmin`**, **`SignInMail`** and **`Export`** are three errands of the
office. `DuoAdmin` is the operator's Duo commands, statement by statement; `slipped`
is history, the stored credential having come past `enable`'s question.
`SignInMail` is requests for a link to one inbox, from several addresses,
through the limiters of the route as they stand in `app.js` and then `issue`,
await by await; `admitted`, `refusals` and `events` are history. The global
limiter is the same code with a larger limit and is left out, as is the
independence of several processes, each of which has counters of its own.
`Export` is one request for an archive: the record in a transaction of its own,
then a `DECLARE` per section with its own snapshot, then batch after batch with
the key resolved at the first one that has ciphertext. That one answer, of a key that
is there, destroyed, or refused by the key service (`KeyAnswers`), stands for every deal
that follows, and a payload that cannot be read is null beside its reason
(`PayloadError`). Around it deals are
created, deleted, sealed, purged, people sign in for the first time, and the firm
may be offboarded. The trail is abstracted to the creations and the export itself.
**`Office`** composes the three: they share no row, and a behaviour is busy with
one of them.

**`Vault`** is the deals of one firm and the key that seals them. `deal`,
`tenantKey` and `tenant` are the committed rows; `tx` holds one transaction per
request and per tool, with the statement it has reached, the key it has in hand,
the key it has inserted (`made`), its advisory lock and its row locks; what a
transaction has written and not committed is nowhere else. `cache` is each
process's unwrapped keys, `material` the key held by KMS, neither of which a
rollback undoes. A payload is the key that sealed it and the write it came from;
a wrapped key and the key in it are one value, because the cache looks a key up
by the digest of its wrapped form and AES-GCM opens a payload with the key that
sealed it and with no other. Foreign keys decide the hard case: a write of a
deal keeps its user's row from being deleted until it commits, and waits when
offboarding has deleted it first (`SharesUser`, `UsersLocked`), but the delete of
the *deals* waits for no insert that has not happened yet. Requests are of one
user, the one the deals refer to. Any statement can fail (`Abort`), a deadlock
that Postgres ends among them.

**`PropertyGraph`** and **`FactStore`** are the canonical layer as operators:
typed nodes and edges that are valid for a while, the ways ownership is walked
through them; facts with a period and the moment each was learnt, `assert` and
its corrections, and what a pinned pair of clocks answers. **`CanonicalLayer`**
lets them grow, by batches out of order, by merges of a snapshot and edge by
edge, around a committee's decision. `history()` and `corrections()` are not in it.

**`Snapshot`** is `persist.js`: save (merging or replacing), load, load into a
store, and list, every call of the store a step, by processes that share one id.
A write is cut short by a crash, a key is evicted or edited, a call fails. A payload
is its content and the form that decides how it decodes. `promise` is what the
store has answered for, `fallback` what its `:prev` key answers for, and
`excused` records that something happened which nothing is promised against.

**`Transport`** is `transport.js`: the allowlist, the conditional cache, the
interval between requests to one host, retries with backoff, and the circuit
breaker, for several callers at once. The headers and the body of an answer are two
steps, because the timer covers the first alone. **`Resolution`** is blocking, scoring and
clustering of names, **`Stages`** the parsers, `canonicalize` and the projection to
market features, as operators over rows a source may withhold fields of.
**`Ingest`** composes them: runs that follow a plan, step by step and page by page,
land what they are given, drop what an earlier run held, and project the rest.

**`Money`**, **`DealModel`**, **`Covenants`**, **`Waterfall`**, **`Screening`**,
**`BuyBox`** and **`Sensitivity`** are the underwriting code; **`Underwriting`** puts
them to work on one deal. `DealModel` is `runModel` month by month (construction
draws with capitalised interest, the equity fixed point with its bisection,
lease-up, amortisation, the sale) and the sizing loop around it; `Covenants` is
`validate` on the model it has made; `Waterfall` is `runWaterfall` one period at a
time with the lookback at the end; `Screening` is the first-pass arithmetic and the
bridge from a deal to a candidate; `BuyBox` is a rent roll keyed in bay by bay, its
measures and the box's criteria; `Sensitivity` is the scan and bisection of
`breakeven` over any curve, one that jumps or is undefined in places included.
Numbers are where the abstraction lies: money is whole units, a share or a rate a
whole number of parts of `Scale`, a rate is per month, and a product is rounded
down where it is formed, so that sums are exact and accounting can be compared to
the unit; the tolerances the code states in dollars are `Tolerance` units.
`Unknown` is the code's `null` and any input that is not a finite number.

**`ClientDeals`** is where the deals live: `backend` is the payload under the
storage key, or the firm's rows; `tab` the pages; `calls` the requests whose effect
or answer is still to come. Storage is found well, tight (room for
the byte of the probe and for no second copy), full, refused or absent anew at every
operation, as `storageStatus` probes it. A collection is a function from
deals to the edit each was left by. **`App`** composes it with `Underwriting`.

The `MC*` modules add instances and symmetry. `Sessions_proofs`, `Login_proofs`,
`Directory_proofs`, `AuditChain_proofs`, `Office_proofs`, `Vault_proofs`, `Ingest_proofs`
and `Deals_proofs` (the snapshots, the canonical layer, the client's storage and the
desk) hold the theorems.

## Runs

| run | question | bounds |
|---|---|---|
| `MCSessions_browser` | two requests of one browser, of every kind, with rotation at every use, lost answers, failing statements, suspension and mass revocation: `SuspendedNeverServed`, `SuccessorReplaces` | 3 rows: a session, its successor, and a second sign-in or the successor's successor |
| `MCSessions_directory` | one person against two directory transactions, with the clock running past the idle limit: `OnlyOverlappingInsertSurvives`, `DeprovisionedNeverServed`, `RevokedForever`, `IdleRevokesOnlyUnused`, `EveryRequestAnswered` | 2 rows, 1 request at a time, 2 units of time; the deprovisioning invariants are proved for any number |
| `MCLogin_admission` | one state and one link presented by two callbacks at once, two Duo challenges, one policy change: `FactorIsEarned`, `SteadyPolicyEnforced`, `SessionsAreAudited`, `ImplementsAdmission` | two callbacks are what a duplicate needs; one change falls at any await |
| `MCDirectory_sync` | two directory requests in flight and a first sign-in, with tokens issued, revoked and made up: `TrailTellsWhoIsIn`, `EveryoneIsListed`, `ProbesAreBounded` | 3 calls in all: two about one person while a third reads; 3 accounts, one of which does not exist yet, pages of one, limits of one |
| `MCAuditChain_trail` | three writers of two firms, one act of tampering, a reader: `BreaksOnlyWhereWritersOverlapped`, `TamperingShows`, `PagesAreComplete` | 4 ids: an entry with neighbours on both sides and one more; pages of 2 |
| `MCOffice_errands` | two operators with three configurations: `NeverEnabledUnchecked`; four requests for one inbox from two addresses: `MailIsBounded`; one archive of up to three deals by two people: `ExportIsHonest` | two commands are what a race needs; four requests fill a window of two limits and overlap at the count, 3 ticks let windows end and be swept; a batch is a row, so every boundary is met; one of the deals is spoilt, and opens with no key |
| `MCVault_firm` | two requests in two processes, the backfill, a purge and the offboarding of their firm, any of them failing at any statement: `SealedUnderTheFirmsKey`, `LastWriteStands`, `NothingOpensAfterErasure`, `DestructionIsRecorded` | 2 deals, one before and one after a deletion; 2 keys, one rolled back and one that takes its place; a third request was checked once and found nothing new |
| `MCCanonicalLayer_clocks` | facts of overlapping periods around a decision, and ownership that grows edge by edge: `PastAnswersStand`, `OwnersAndPortfoliosAgree` | 3 facts: one before the decision, one late, one that corrects it; 4 edges among a parcel and 3 entities: a cycle with a way in and a way out |
| `MCSnapshot_store` | two processes save, load and list, with crashes, a failing call, evictions and edits, over every kind of payload an earlier version may have left: `PromisesHold` | 3 calls: two saves and what is read after; damage twice, as the promise is against once |
| `MCIngest_runs` | two runs on one transport, with hosts that change, fail, time out and are off the allowlist: `BodiesAreCurrent`, `SourcedIsObservedWhereReported`, `RowOrderIsNothing`, `MatchesAreFound`, `FailingHostIsLeftAlone`, `RunsEnd` | one failure opens the breaker, one retry, one change of one URL, a page that names another as the next and one that comes to name itself; rows of every shape the parsers tell apart |
| `MCApp_client` | a deal financed at every share, sized to the box, screened, tested and split; a breakeven on every small curve; two tabs on a browser's storage or a server: `LeverageOnlyCostsItsInterest`, `LoanIsAsAsked`, `ScreenAgreesWithTheModel`, `NothingPassesUnmeasured`, `SplitIsEarned`, `BreakevenIsARoot`, `WorkIsKept` | a year of two months and up to ten of them; three bays; three tiers over four periods; curves of five points with values -2 to 2; one edit of the document (two were checked once), three of the rows: two of one deal and one of another |

Time is scaled. In `Sessions` one unit is longer than `statement_timeout` (15 s),
so a statement ends within its unit (the guard of `Tick`), while a request may
straddle several; `RotateAfter = 0` makes every second use rotate, as half an
hour of use does. In `Transport` time is kept as ages, no further than they
matter. Faults are switched on by a constant or a bound, and each of them is on
in some passing run. The disjunct of `Finish` for a sizing loop that runs out of
its passes is never the one that ends it in this instance. `CHECK_DEADLOCK FALSE`
stands where the system simply finishes: requests, runs and edits are bounded.

`LoanIsAsAsked`, `MailIsBounded`, `ExportIsHonest`, `PromisesHold` and `WorkIsKept`
are conjunctions of properties that are stated one by one in their modules
(`FundedAtTheStatedShare` and `SizedLoanClearsTheCovenants`, for one); a
counterexample to any part is a counterexample to the whole. `TypeOK` of
`Sessions` and of `Vault` is proved; that of `Login`, `AuditChain` and `DuoAdmin`
was run once on their instances and is kept beside them as documentation.

What the properties do not promise is in the formulas, not in the bounds. The
exceptions of `WorkIsKept` are overlapping writes of one deal, what another
page wrote since, a notice another write's success has taken away, samples saved where
the browser refused its storage at the load, and samples over a damaged payload whose
copy found no room; those of `NeverEnabledUnchecked` a `set` while Duo is on or about
to be, and a `check` whose stamp lands on a credential set while Duo answered for
another; those of `ExportIsHonest` the payloads a key service that refused once, or a
ciphertext that opens with no key, left null, each beside that reason; that of
`RunsEnd` a body that begins and never ends; those of
`PromisesHold` overlapping saves, damage that strikes twice before a save
completes, and a tolerant read that fails; `SourcedIsObservedWhereReported` says
nothing where a source withholds a month; `SuspendedNeverServed` nothing of a request
resolved before the suspension; `NothingPassesUnmeasured` says nothing of
the share of restaurants. Each is a thing the code really does, listed below.

One run ends in a counterexample:

| run | what the code does | what a comment says |
|---|---|---|
| `MCSessions_sleeper` | a session insert past the policy check waits out the directory's lock and commits after the deprovisioning: the session works until it expires | `007_scim_provisioning.sql:9-12` |

## Noticed on the way

Disagreements met while modelling, and not kept as runs.

*Sessions, sign-in, keys, erasure.* Any call may rotate, and the page's token
belongs to the old session: its next save is answered 403
(`requireSession.js:61-64`); of two calls a page sends at once the first may
rotate and the second be answered 401 (`config.js:76-77`); a rotated row carries
none of `auth_method`, `mfa_asserted`, `mfa_factor` and `created_at`, though
`login.js:446-450` wants the first three answerable months later; each rotation
starts a new absolute lifetime (`config.js:73`); after one `signOut()` is refused
for its stale token, which `useSession.js:45` swallows; Duo turned off between
two reads lets a link open a session without any factor at a firm that requires
one (`magicLink.js:97-100`); `auth.login` is committed before a session insert
that may be refused (`login.js:558`). Two overlapping writers chain to one audit
entry, and the walk reports a break nobody caused (`verifyAudit.js:22-24`); where
the chain has forked, a removal can leave it intact (`003:56-58`). `duo check`
stamps whatever row is there when Duo has answered, and `duo set` on an enabled
integration leaves the new credential enabled while it reports `enabled: false`
(`admin/duo.js:158,174`), where lines 17-20 and 152-154 say that nothing is enabled
before it was checked. Offboarding's suspension is seen by nobody before its
COMMIT, so a request resolved earlier inserts its deal after the delete of the
deals, and the row, unreadable, outlives the firm (`retention.js:396-397`); the
firm's KMS key is scheduled for deletion before the audit entry may fail and the
rest roll back (`retention.js:500-501`); at a firm that never had a key a PUT of a
missing deal that straddles the offboarding still commits one (`466-470`). A POST
or PUT whose payload cannot be opened again commits and answers with a
`payloadError`, though `deals.js:112-114` says it fails on the write; a PUT
overwrites the whole deal whatever its caller last read (`deals.js:128`).

*Directory, mail, export.* The failure ceiling of an address is looked at before
the token, so one misconfigured directory on a shared egress refuses other firms'
valid tokens (`scim.js:173-180`); a clash of external ids is answered as one of
`userName`; an account created inactive has no `deactivated_at`; `verifyDomain`
checks that no other firm has a domain and then inserts it, with nothing in
between, under a key that contains the firm (`tenants.js:128`). The count of recent
links and the insert are separate statements, so overlapping requests exceed
`perEmailPerHour` by one each; a failed mail leaves its row, which counts. The
users' cursor of an export is opened after the deals', so an offboarding between
the two yields deals without their authors. One refusal by the key service, or a key of
another provider, leaves every sealed payload of the archive null, and the archive still
ends `"complete": true` (`keyring.js:162-168`, `export.js:208-230`): the `payloadError`
of each deal is all that says so.

*Client.* Any successful write clears the notice of another deal's failed write
(`App.jsx:159-164`); two PUTs of one deal in flight may apply out of order; an edit
before `create` answers goes to the placeholder's id and is lost on the server; a
list that answers after *New deal* wipes the new row off the screen; the deal
menu makes a `Number` of its value, which a server's uuid is not. On a full disk a
damaged payload is overwritten by the samples without the copy, and so it is on a nearly
full one, where the probe's byte fits and the copy does not (`storage.js:152`, against
the line above it); one that parses
and holds no deals is always overwritten without a copy; after a refusal of
storage at load the samples that are shown are saved over the user's deals once
storage answers; two tabs overwrite each other's collection; behind a server a
failed list or write reads "Browser storage is unavailable".

*Underwriting.* The hurdle met at the end ignores what was clawed back
(`waterfall.js:37-44`); the restaurant and holdover shares of a rent roll are 0
when nothing is categorised or dated, where `rentRoll.js:24-28` says null, so a soft
test nobody took can pass, as can a term or a market comparison on partial
coverage; sizing settles to a dollar while `validate` compares to a millionth;
`engineInputsFromRentRoll` is exported and tested and no screen calls it.

*Pipeline.* A month the source withholds becomes a growth of minus 100 per cent that
is shown as sourced (`project.js:121`, against its lines 9-10), and that growth ignores
pinned clocks; `canonicalize` names nodes by the core of a name, so two owners
left for review are one node all the same (`stages.js:304`); a traffic row without a
year, or a null row, costs the whole run; a second run with known hashes projects
only what is fresh, so unchanged sources fall back to the seed. The transport's timer
stops before the body is read (`transport.js:197,213`), so that a body that never ends
holds its run open for ever, against lines 15-16; its half-open breaker lets every
caller through, its cache key ignores the body of a POST, and concurrent callers are
not held to the interval; the landing hash ignores source and market. `replace`
takes a failed read of the live key for its absence, and so skips its refusal of newer
versions; a listing shows an id as absent when the read of its fallback fails;
`corrections()` misses one that arrives with a duplicate in the same batch.

## Fairness

`EveryRequestAnswered` and `RunsEnd` need some; everything else promises safety
alone. In `Sessions` a request's next step is taken if infinitely often enabled
(strong fairness): Node runs every callback that is ready, and Postgres grants a
row lock in queue order, so that a statement which waits for a lock that is
released again and again is granted it in the end. A directory's transaction that
has begun goes on to its COMMIT (weak fairness), as `withTenant` always commits or
rolls back and `statement_timeout` bounds each statement. The browser receives an
answer that has arrived. In `Ingest` a run's own steps are taken, time passes, and
an attempt gets its headers or fails: `transport.js` arms a timer for every attempt,
and a host that does not answer in time is a failed one. The timer is cleared when the
headers arrive, so nothing is assumed of the body (`Goes`), and `RunsEnd` names the run
that waits for one for ever. Nothing is
assumed of browsers sending requests, of operators, of faults, of hosts
succeeding or of what they serve.

## What is proved

For every value of the constants, under the assumptions the modules name, and TLC
evaluates on the instances. They say of what kind the constants are, that a special
value is none of the ordinary ones (`None`, `Nobody`, `NoUrl`, an offboarding is not
a request), that a limit, a page or a cooldown is a natural number, and where an
argument counts, that what it counts is finite: the users and callers of
`Directory`, the ids of `Export`. `ModelAssumption` says what may stand in the fields of
a deal: a whole number or `Unknown` in a field of money or share (of either sign; the
guard of the model, `Modellable`, throws out what it cannot take), a natural number or
`Unknown` in a count of months, a term or a rate. `MoneyAssumption` says that a share is
told to a thousandth at the finest and that `Unknown` is no number; `BaysAssumption`, that areas and rents
on a roll are not negative and that a bay without a tenant is vacant, as
`rentRoll.js:104` reads it; `ScanAssumption`, that the halvings allowed can divide the
gap between two samples to one step (`breakeven` takes 48 steps across the range and halves up to 80 times).
None bounds a behaviour: the number of requests, pages, versions, entries, failures,
months, passes or bays is whatever the constants make it.

`Snapshot`, `Vault` and the like state theorems of their own `Spec`. Where a component is
checked as part of a composition, its theorem is about the component's share of it:
`LayerSpec`, `StoreSpec`, `DeskSpec`, `RollSpec` and `ScanSpec` start as the composition
starts and take the steps that the composition takes of their variables, so a
behaviour of `App`, read on those variables, is one of theirs.

*Sessions.*
- `TypeCorrect`: `TypeOK`, which is not inductive alone: a step that revokes or
  touches the row a request stands at needs that row to exist, so the invariant
  carries `Attached` (a request past a stage has the session that stage needs).
- `DeprovisioningRevokes`: `[]OnlyOverlappingInsertSurvives`. The invariant adds
  `ScimHoldsAll`: while a deactivation is uncommitted, it has every unrevoked session
  of its user in `doomed`, because new ones wait for the row lock. Without it the
  commit could leave one behind.
- `RevokedIsFinal`: the action property `RevokedForever`, from the same.
- `IdleExpiryIsHonest`: the action property `IdleRevokesOnlyUnused`. The invariant
  (`Clocked`) says that a row's idle clock lags behind its use by no more than the
  write-back interval unless a touch is under way or was lost, and that a touch is only
  ever under way for a row in use, never for one a request has found abandoned.
- `DeprovisionedIsRefused`, `SuspendedIsRefused`: `[]...NeverServed`. The invariant
  adds `Ownership` (cookies, resolved and rotated sessions belong to the person who
  sent the request; stated by itself as `SessionsStayWithTheirOwner`) and, per request,
  what its being sent to an inactive account or a suspended firm implies at each stage.
- `ReplacedIsDead`: `[]SuccessorReplaces`: once a browser or a handler holds a
  rotated session, the one it replaced is revoked.

*Login.*
- `SignInImplementsAdmission`: `Login` implements `Admission`, initial states to
  initial states, every step to a step of the abstract machine or a stutter.
  `AtMostOnce` follows: a state or a link admits at most once in `Login` itself.
- `FactorsAreEarned`, `SteadyPolicyHolds`, `SignInsAreAudited`: the properties
  `FactorIsEarned`, `SteadyPolicyEnforced`, `SessionsAreAudited`. All rest on one
  invariant of what a callback in flight knows at each await (`WorkInv`), what a parked
  challenge knows (`ChalInv`), and that a root is on its way in at most one of them
  (`OneHolder`). What a callback has read of the policy is stale in general; where a
  field has not changed since the claim, it is so.

*Directory.*
- `TrailIsTrue`: `[]TrailTellsWhoIsIn`. Inductive with it: whoever is mentioned has a
  row, and a request about to write holds its row's lock and has read the row as it is
  (`Holds`), so that the entry it writes is named after what its update changes.
- `ListingIsComplete`: `[]EveryoneIsListed`. Between pages a row that is due and not
  yet read has a place no earlier than the next page begins (`Pending`). Rows are
  inserted anywhere in the order, since their age is that of their transaction, but
  never taken out: an insert moves others back, where they are read twice at worst.
- `ProbesStayBounded`: `[]ProbesAreBounded`. Failures and lookups in progress together
  stay within the ceiling and one for each caller (`Attempts`).

*Audit log.*
- `OnlyOverlapBreaks`: `[]BreaksOnlyWhereWritersOverlapped`. `ChainInv` says that a
  writer who overlapped nobody has the digest of the newest entry in hand, whatever
  order ids and commits came in.
- `TamperingIsSeen`: `[]TamperingShows`; the invariant names, after each kind of
  tampering, the entry that gives it away.
- `PagingIsComplete`: `[]PagesAreComplete`, what is owed has been given or is ahead of
  the cursor. The newest entries of a finite log, and that a page holds that many
  of them, are lemmas.

*Office.*
- `EnabledWasChecked`: `[]NeverEnabledUnchecked`, that the configuration which is
  enabled has passed a check itself. The invariant says that Duo has answered for the
  configuration of a check about to stamp (`StampBehind`), and that a stored one which
  bears the mark, is enabled or is about to be has passed unless it slipped by
  (`ProofBehind`): `set` takes the mark away.
- `MailIsLimited`: `[]MailIsBounded`. `Fits` relates a window to what it let through: a
  running one has counted all of it, and the window's length before it saw no more than
  one allowance. For links, a request whose count no other insert has overtaken still
  has room (`RoomIsKept`), since time only takes links out of the hour.
- `ArchiveIsHonest`: `[]ExportIsHonest`. Each section's cursor has its own snapshot; the
  invariant says in which order they were taken, so that what an earlier one holds is
  explained by a later one (`CursorsAgree`), that what was sent is the first part of
  what a cursor held (`SentInOrder`), and that a payload sent as null has a reason that
  still holds. The lemmas say that the rows of a finite set of
  numbers can be visited in order.

*Vault.*
- `SealedCanBeOpened`: `[]SealedUnderTheFirmsKey`. The invariant says what is known of
  a key in hand (`KeyInv`): it is the committed one, or its holder has inserted it, and
  then none is committed and nobody else has one. Without that a commit could publish a
  second key.
- `ErasureIsFinal`: `[]NothingOpensAfterErasure`. `EraseInv` collects what offboarding
  has established after each of its statements: after the delete of the deals whatever
  is left in plaintext is in the deleted set; after the delete of the users no request
  can write and no batch of the backfill can commit, since it would hold a lock on a row
  offboarding has locked (`LockInv`); so the rows that survive the commit are sealed with
  the key it destroys. The theorem also states `ErasedIsNeverOpened`: no step opens a
  payload afterwards.
- `AcknowledgedWritesStand`: `[]LastWriteStands`, and `EveryDestructionIsRecorded`:
  `[]DestructionIsRecorded`, from a second invariant (`WorkInv`): a deal to be
  inserted is not there and is nobody else's, a row to be rewritten is locked, and the
  backfill holds each payload as its row does.

*Ingestion.*
- `BreakerHolds`: the action property `FailingHostIsLeftAlone`. A request reads the
  breaker, and the property speaks of the host: what joins them is `Agree`, that the
  breaker has counted what happened, is open exactly from the failure that made the
  count full, has the age of that failure, and lets a trial through only while open.
  That the host of a request is one a breaker is kept for needs the rest of `IInv`: a
  run asks for a URL it planned or one a page points to (`AskedIsUrl`).
- `CallersGetCurrentBodies`: `[]BodiesAreCurrent`. What a 304 confirms is the body kept
  under the validator that was sent, so what a caller is handed is what its URL served
  at some moment of the call, whatever the cache went through meanwhile.

*Snapshots.*
- `PromisesAreKept`: `[]PromisesHold`. `KeysInv` relates the two keys to what was promised:
  what can be read includes the promise, the fallback includes what it was kept for, and
  until damage strikes a fallback that decodes stands behind a live key that does. Per
  call, `Knowing` says what a process still knows of the keys at each step as long as nobody
  has written beside it, and `Ready` what a save that writes next has seen or copied
  away, so that a crash inside the write leaves a key to fall back on.

*Canonical layer.*
- `AnswersStand`: `[]PastAnswersStand`. What answers is built fact by fact (`Answering`): a
  fact stamped after the pin is never admitted, so the position that outranks the
  others is reached by the same admitted facts before and after any batch or merge.
- `OwnershipReadsAgree`: `[]OwnersAndPortfoliosAgree`. The graphs that runs can build are
  those of `Deeds` (parcels own nothing, edges end in known nodes). Distance by
  distance, a walk back meets a node exactly if the walk forth from it meets the start,
  and what is met from a parcel is what is met from its owners one step further; so
  owners, portfolios and related parties agree for any depth and around any cycle.

*Client storage.*
- `WorkIsAlwaysKept`: `[]WorkIsKept`, by two invariants, one for each build. A document
  (`DocumentInv`): a page that is not about to write and has said nothing shows what is
  stored, and samples stand only for a document that could be replaced as it was found (`Replaceable`:
  where storage refused, or the copy of a damaged one found no room).
  Rows (`RowsInv`, `PageInv`, `ListInv`): each deal a page shows is saved, on its way in a
  call whose answer the page will hear, or given up with a notice; what a list
  under way will show is still so.

*Underwriting.*
- `BreakevensAreRoots`: `[]BreakevenIsARoot`, over any metric. `ScanInv` says that no sample
  behind the scan hit the target, and no stretch behind it passed through the target a step
  at a time (`Passed`). For the latter the bisection keeps ends on opposite sides and
  halves the gap at least, so a smooth stretch comes down to a root.
- `PassesAreMeasured`: `[]NothingPassesUnmeasured`. A figure is `Unknown` unless something
  entered it, because a sum over nothing is zero and every measure divides by one.
- `LeverageIsInterest`: `[]LeverageOnlyCostsItsInterest`. Month by month (`Balanced`) equity
  has what the deal made, less cost and interest, plus what is still owed; a draw, a
  capitalised month, a payment and a payoff each keep it, a closing without a build falls in
  the first month, and the sale moves the last one alone. That sums and payments
  are whole numbers, whatever the growth, rate and term, is part of the argument (`Good`,
  `Totals`), and so is that a loan sized to the box is a natural number.

Two lemmas carry the walks, the bisection and the monthly sums. The library's induction
theorems are out of reach, but induction up to a bound follows from the
well-foundedness of finite sets (`UpTo`), and with it that a function defined by a
first value and each value from the last exists (`Recursion`). What a recursive
function computes is then shown value by value.

Only model-checked: liveness (`EveryRequestAnswered`, `RunsEnd`), which is out of the
prover's reach; `SourcedIsObservedWhereReported`, `RowOrderIsNothing` and `MatchesAreFound`
of `Ingest`, whose subject is what nested folds make of rows of every shape (the community
modules define folds by operators that take operators, about which these provers can be
told nothing in general); `LoanIsAsAsked`, since the passes an equity target
or a size needs to settle, and how near it comes, are matters of each instance;
`ScreenAgreesWithTheModel` and `SplitIsEarned`, which hold up to roundings that add up with
the instance, and say so by their tolerances.

## What is not modelled

Of the modelled components, with reasons: the Origin header check (a second
reason for the same 403), cookie attributes, roles, wording and logging,
cryptography (a digest or a JWT is what it stands for), the signing key's own
rotation; of `Vault` and `Export`, validation of a deal, the mismatch of key
providers, the length of a retention window, firm defaults and domains, and dry
runs; of `Directory`, names, external ids, the filter grammar and the discovery
documents; of `SignInMail`, SMTP and the other limiters; of `ClientDeals`, the
migration of old rows, the firm's defaults and a change of firm; of the
pipeline, `history()`, `corrections()`, reports and very large bodies; of the
underwriting, the IRR and what compares two of them (the roots of polynomials in
floating point have no counterpart in whole numbers), the confidence, band and
ranking of a screen, and the tornado, the grid and the scenarios, which evaluate
the model again and again and add no state to it.

Not modelled at all: market data ingestion (one download and one parse each, run
by hand: a model of a parser of text would be the parser); market scores and site
selection (weighted sums of tables); documents and views; the demo tools;
infrastructure (declarative resources). `PROJECT.json` gives the reason for each.
