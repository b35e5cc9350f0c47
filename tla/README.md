# DevDNA in TLA+

Specifications of DevDNA, the system that reads an iPhone over USB, scores it,
stores the result and stands behind it later. TLC checks the modules on small
instances; TLAPS proves the properties that matter most for every instance.
Everything here is translated from the source under `src/`; `PROJECT.json`
names the lines of every definition.

## The system

| Part | State it keeps | Operations | What makes it correct |
|---|---|---|---|
| **Bridge agent** (`apps/bridge`), one per bench | list of handsets on USB, sockets of dashboards | poll the bus, greet and broadcast, `/inspect` (collect, score, upload) | the list catches up with the bus; dashboards are told every change; a capture names its gaps; "uploaded" means stored |
| **Ingest admission** (`BridgeSignatureGuard`, `BridgesService`) | bridge registrations, nonce table | admit a signed request, revoke a bridge, prune nonces | a request is admitted at most once however often it is delivered; revocation is final |
| **Inspection store** (`InspectionsService`, `ReportsService`, `AuditService`) | device, inspection, evidence, report and audit rows; PDF files | ingest, re-score, generate a report, verify it in public | conclusions rest on captures, or on evidence whose edit nothing shows, and never change; a report verifies as it was printed; the log is true |
| **Sessions** (`AuthService`) | shops, users, refresh tokens | register, login, refresh, logout, invite | an address has one account and a shop one founder, who owns it; an exchanged token is spent; what has ended issues nothing |
| **Core engine** (`packages/core`) | none; the evidence ledger is a value | collect evidence, identity, hardware, service, battery, security, trust | same evidence, same verdict; no conclusion without evidence; unknown is never good |
| **PhysicalDNA** (`packages/physical`) | calibration table; the ledger of a session is a value | validate pictures, detect, score, evaluate again, load and reset calibration | an unseen surface is never judged; every defect is priced once, whatever the table says later; no top grade from an unmeasured detector |
| **Dashboard** (`apps/web`) | React state of the inspect page, cookies | refresh the list, run an inspection, download, verify | the page comes to show what is there |
| `ml/`, parsers, PDF layout, CLI | tables, text | | not modelled: no state of their own |

How they interact: a dashboard talks to the bridge on the same machine by HTTP
and one WebSocket; the bridge runs libimobiledevice tools as child processes
and uploads to the API by signed HTTP; the API keeps everything in PostgreSQL
and a report directory, and answers the public verification page. Every
handler is asynchronous, so between any two awaits of one handler any other
handler, a revocation, a prune, a crash or a cable can come first. That, and
the two clocks in the upload window, is what the modules are about.

## Modules

| Module | What it is |
|---|---|
| `UploadPromise` | abstract: an upload becomes at most one row, and "uploaded" means the row is there |
| `BridgeIngest` | the upload, the network, the guard await by await, nonces, revocation, clocks; implements `UploadPromise` |
| `BridgeIngestProofs` | its theorems |
| `EvidenceArchive` | abstract: conclusions are drawn from submitted captures, or again from evidence edited unseen, and never change |
| `InspectionStore` | ingest, re-score and report await by await, with failures, restarts, engine upgrades and hand edits; implements `EvidenceArchive` |
| `InspectionStoreProofs` | its theorems |
| `DeviceWatcher` | the bus, `poll()` await by await, the event socket |
| `DeviceWatcherProofs` | its theorems |
| `BenchInspection` | `POST /inspect`: the capture tool by tool, the score, the upload as `UploadPromise`, the answer |
| `BenchInspectionProofs` | its theorems |
| `BenchDashboard` | the device list of the inspect page, on top of `DeviceWatcher` |
| `EvidenceLedger` | records, channels and their reliability, ids, `best` |
| `Confidence` | inferences, corroboration, damping, verdicts and findings, in integers |
| `ConfidenceProofs` | its theorems, and the lemmas on folds, sums, products and roundings the other proofs cite |
| `Checks` | the shape identity and hardware share: a table of checks and one conclusion |
| `IdentityEngine`, `HardwareEngine`, `ServiceEngine`, `BatteryEngine`, `SecurityEngine` | modules 1 to 5, as operators on a ledger |
| `TrustEngine` | module 7: scores, weights, gates, bands, disclosure |
| `Inspection` | the nine collectors as actions, then `evaluate` and the audit of its report |
| `InspectionProofs` | its theorems |
| `ProvenanceAudit` | the audit both kinds of report go through |
| `Taxonomy` | defect classes, surfaces, capture views, the image quality gate |
| `PhysicalScore` | surfaces to pillars to score, gates and grades |
| `Physical` | a PhysicalDNA inspection, its evaluations later on, and the calibration table beside them |
| `PhysicalProofs` | its theorems |
| `Sessions` | accounts and refresh tokens, handler by handler, await by await |
| `SessionsProofs` | its theorems |
| `MC...` | instances for TLC |

Definitions whose comment begins with "Faulty" are plausible mistakes in the
code. No specification uses them: each shows that one property notices.

### BridgeIngest

`wire[u]` is the request that `SnapshotUploader.upload` signed and `bench[u]`
what the bench was told of it. A request can reach the API any number of times,
at any time (`Arrive`), which stands for retries by proxies and for delay; it is
then in a slot of `serving` at one of the awaits of `canActivate`: the
look-up of the registration (`Lookup`), the insert of the nonce
(`InsertNonce`), the update of `lastSeenAt` (`Touch`), and then `ingest()` as
one step (`Ingest`; `InspectionStore` is its inside). `Abort` ends a request at
any of them, by an exception or a crash. `Answer` may reach the bench, or be
lost. The signature always verifies, since the bench signed it, and
`now` moves in fractions of a second because the window compares whole seconds
(`Math.floor`) and the nonce row expires at an instant. `Ahead` and `Behind`
bound the drift of a bench clock, and `Stall` the time a request may spend
between the window check and the nonce insert.

### InspectionStore

A handler in `tasks` holds what the code keeps in local variables across its
awaits. Ingest is `StartIngest` (validate and evaluate), `UpsertDevice`,
`Persist`, `Audit`; re-score is `StartRescore` (read, check digest and ids,
evaluate), `Persist`, `Audit`; a report is `StartReport` (read and render),
`WriteFile`, `CreateReport`, `AuditReport`. `Fail` is a write that throws,
`Restart` ends every handler and may bring a new engine. A row carries the
ledger its ids, its content and its digest stand for, each on its own, and a
report is the pair of a ledger and an engine: the engine is deterministic, and
what it computes is the matter of `Inspection`.

`EditEvidence` is a hand edit of the evidence rows of one inspection, with
either or both of ids and digest brought in line. What `rescore()` checks
before it concludes again is less than it seems: an id covers kind, subject,
key, value, source, method and collector of a row, not its reliability or its
time (`ledger.ts:30-47`); `verifyIntegrity()` computes the ids of the rows that
are there and misses those that are not; ids and digest are hashes without a
key. So a value changed under its old id is found by the ids, and a deleted row
or a changed reliability only by the digest, unless that is recomputed as well.
`disguised`, a history variable no action reads, collects the inspections whose
evidence ever passed both checks and was not what had been concluded from. The
properties say that these, and no others, can be concluded from anew; that the
digest on the printed report then differs from that of the row is not in the
model, and neither are hand edits of other tables or columns.

### BenchInspection

`jobs[j]` holds the local variables of one call of `/inspect`: the position
`at` in `Calls`, the awaits of `collect()` in order, and for each source
whether it was read (`has`) or put on record (`errors`). `Read` is one of the
collectors that stand in a `try` of their own; `ReadIdentity` is the one that
does not; `ReadServices` and `ProbeAfc2` are the two calls of `services()`, and
`ReadAnalytics` is `analytics()`, called if `CollectAnalytics` says so, which
records a copy that fails before its first file and keeps every later failure
to itself.
`offers` is what each handset would tell if asked, which lets the model say
what a gap is: something offered and not read. `Refused` stands for every
reason a call yields nothing: a locked or unplugged handset, a service Apple
has closed, a timeout, a missing tool. The upload takes the actions of
`UploadPromise`, which `BridgeIngest` is proved to implement, so the two
modules together cover the way from the handset to the row. `BridgeStops` ends
every job in flight.

### DeviceWatcher and BenchDashboard

`stage` is the await the poll is at; `found` and `answers` are its local
variables. `Fault` counts failing tools: a failed `idevice_id` yields what it
had printed, perhaps nothing (`List`), a missing one ends the poll with an
error (`ListFails`), a failed probe yields "unpaired". `Subscribe` registers
and greets a socket in one turn of the event loop, as the upgrade handler does.
`BenchDashboard` extends the module with the page: it ignores what frames say,
fetches the list again on a change, and shows whichever answer comes.

### Inspection and the engines

`collectEvidence` is nine actions in the order of the code, because the order
is part of what it does: the first record of an id stays, and the failures come
last. `Batches[c]` says what collector `c` may find in a capture, so that a
run enumerates captures collector by collector; what the code derives by itself
(the catalogue's expectations, the count of applications, the answer of the
diagnostics relay) is computed in the action. `Evaluate` is one step: `evaluate`
is a pure function of the ledger, and the engines are operators.

A value is what a reading says relative to the catalogue: `"expected"` or
`"foreign"` for a board, `"badCheckDigit"` for an IMEI that fails Luhn. The
decoders of `identifiers.ts` are thereby outside, and what the engines do with
their answers is inside. A channel stands for source, method and collector. A
score is a set of at most one number, empty when a module abstained, and so are
the results of `best`.

Confidences are counted in ten-thousandths and weights in percent, so that a
rule's confidence times a channel's reliability is exact; `Round3` stands where
the code rounds to three decimals, and effective weights are per mille as there.
Between two roundings a product of two confidences is kept to four digits where
the code keeps a double. Three details are left out: lists of citations that
the code cuts at two, three or six entries are kept whole, severities appear
only where a score reads them, and the confidence band of a report, which
nothing reads, is not there.

One mismatch of names the module made visible: the collection of battery data
guards the diagnostics relay under the name `battery.ioregistry`, but the relay
adapter throws a `CollectionFailure` that names itself
`ioregistry.AppleSmartBattery`, and `record` keeps the detail of such a failure
as it is. A refused relay is therefore filed under the second name, which
`COLLECTOR_SUBJECTS` does not give to the battery; the failure is on record, and
the battery module reports a gap without citing it.

### Physical

`inspectPhysical` has one await, the detector, and so two actions:
`StartInspection` validates the pictures, `Detected` turns the answer into
evidence and evaluates it. `Reevaluate` is `evaluatePhysical` on the stored
ledger, as often as anybody likes. Beside them `loadCalibration` and
`resetCalibration` change the module-level table, also between the question to
the detector and its answer; thresholds and reliabilities are therefore those
of the moment of the answer. `DetectorUnavailable` rejects the inspection, and
`failed` in `Detected` are the images the detector gives up on.

The ledger is a set, and `Deduplicated` says what the order of the detector's
list decides: of several records with one id any may be the first. A detection
names its picture, class and surface; its `view` is taken to be the one the
picture was taken for, as every detector in the repository does it. Image
measurements are inputs (`metrics.ts` computes them from pixels). Effects and
confidences are in ten-thousandths, weights in percent, with the roundings of
the code; the product over the defects of a surface is cut at four digits where
the code keeps a double.

What the module made visible without contradicting a document: several rejected
pictures of one view collapse into one failure record, since the id of a failure
tells neither picture nor reason; an accepted picture on which the detector
failed still makes its surfaces "photographed clean"; the failures cited for an
unseen front glass include those of the active area, and the reverse; a defect
told on both surfaces with one box is one record, on whichever came first; one
close-up makes all seven surfaces assessable; `UNCLASSIFIED_ANOMALY` has to be
benchmarked before a detector counts as calibrated. `evaluatePhysical` calls
itself "a pure function of the stored evidence" while it reads the table: what
was found is indeed stable (`DamageOutlivesTheTable`), the worth of a clean
surface, the calibration gate and with them the grade are not.

### Sessions

`calls[c]` is one request with the local variables of its handler, `at` the
await it stands at. The order is the code's: `register` looks up the address,
tries slugs one look-up at a time, hashes, and creates shop and owner in one
transaction (`createOrganization`, which fails as a whole on either unique
constraint); `refresh` reads the row (`checkStored`), reads the user
(`checkUser`), revokes the row by its id (`rotate`) and inserts the successor
(`issueTokens`). `Fails` ends a call at any await, or loses its answer. Tokens
are named by the call that issued them, with the token they were exchanged for
as `parent`. `DisableUser` is external: `disabledAt` is read everywhere and set
nowhere in the source. `hopeless` records whether there was a reason to refuse
the call when it came in, so that `RefusedFromTheStart` can say that nothing
under way undoes it. `founders` is a history variable: the users who were
created with their shop. An invitation may name any role, `OWNER` included: the
DTO types the field as three roles but validates a string, and `invite()` casts
it (`auth.service.ts:164`). A shop can therefore have several owners, and what
holds is that one of them, and only one, founded it. Passwords, access tokens
(the guard reads no row) and the audit trail, which no handler reads, are left
out.

Three behaviours the code has and no document excludes: two overlapping
exchanges of one token both succeed and fork the line, since the row is updated
without looking at `revokedAt` again; an exchange that fails after the
revocation ends the session; and a sign-out with the old token between the two
awaits of a refresh leaves the successor valid. `refresh_tokens` is never
pruned.

## Runs

| Run | Instance | Shows |
|---|---|---|
| `bridge_ingest` | 1 upload, 2 benches, 2 slots, skew 3 s, drift -1..1 s, stall 1 s, half seconds, 8 s | at most one row, acknowledged only when stored, revocation final, `UploadPromise` implemented |
| `fast_clock` | skew 2 s and a clock 2 s ahead | the sub-second gap between window and nonce (a finding) |
| `inspection_store` | 2 handlers, 2 ids, 1 public id, one capture and the evidence of another handset that only an edit can put in its place, 2 engines | conclusions rest on captures or on disguised edits, reports verify, counts cover, the log is true, `EvidenceArchive` implemented |
| `verify_spec` | a full and a partial capture of one handset | the verified device description follows the latest capture (a finding) |
| `device_watcher` | 2 handsets, 1 fault, 3 frames | greeting plus events equal the list; the list catches up |
| `bench_inspection` | 2 requests, 1 handset, 1 domain, 2 refusals | gaps other than services and analytics are named, the verdict outlives the upload, every request ends |
| `services_gap` | 1 request, 2 refusals, analytics not collected | a service list that could not be read leaves no error (a finding) |
| `dashboard_reload` | 1 handset, 2 fetches | a change before the greeting is never shown (a finding) |
| `inspection` | one model known to the catalogue and one that is not; 6 x 6 x 3 x 5 x 2 x 2 x 5 outcomes of the collectors, one possible refusal | the audit finds nothing; adverse facts cap; too little of the picture withholds the verdict; listed parts are disclosed; originality needs the attested screen; the most reliable reading decides |
| `physical` | 5 pictures of 5 views, one spoilt by glare; 8 sightings, 2 per answer; 2 benchmarks, one of them partial | judged is seen; every defect priced once, on its surface, the same under every table; nothing seen is lost; a defect that leaves a surface fewer than 40 or 20 points of 100 decides; a top grade needs measurement |
| `sessions` | 4 calls, 2 addresses, one shop with its founder, 2 slugs tried, every invitation one of an owner | one account per address, one founder per shop, exchanged is spent, refused from the start |
| `clean_verdict` | a handset read while locked, with or without developer mode | a clean verdict that only an adverse inference supports (a finding) |

Why the bounds are enough. A replay needs a request and one copy in service
together, a prune in between, and a clock that passes both the end of the
window (`Ahead` + `Skew` seconds) and the expiry of the nonce (2 x `Skew`): two
slots and eight seconds. Uploads do not share a nonce, so one upload is enough
for the invariants, and the proofs do not depend on it. In the store an illegal
conclusion needs a source, an edit and a re-score (two ids), and two handlers
for every overlap of two operations; more handlers repeat the same overlaps
since handlers share nothing but the rows. For the list, two handsets make one
connect and one disconnect in the same poll. Domains are read one like the
other, so one stands for all; two refusals are what it takes to decline both
calls of `services()`, and two requests give every overlap since they share
only the process. `MaxRefusals`, `MaxCount`, `MaxEngine`, `MaxFeed`,
`MaxFaults` and `LastSecond` cap counters and appear in the guards. Handler
slots, inspection ids and request slots are symmetric: no definition tells them
apart, and the refinement checked under that symmetry treats all ids alike. In
`inspection` each collector has the outcomes that its consumers tell apart:
nothing, the expected, the contradicting, and for the channels that overlap
(registry and analytics, technician and OCR) a disagreement. Every gate, every
abstention and all five trust verdicts occur. In `physical` the pictures leave,
in turn, every surface seen, unseen, or tried in vain, and the two surfaces of
the display apart; two sightings are what it takes for a duplicate, or for
damage and wear on one surface, and the sightings include each reason to
discard one; one full benchmark and one that spoils it cross every threshold of
the calibration. In `sessions` a fork of a line takes a sign-in, two
overlapping exchanges and a third of a successor; a race of registrations takes
two calls, and the shop that is there makes the second slug and the random
suffix occur. Calls and addresses are symmetric. Everybody is invited as an
`OWNER`, because somebody invited as less can start fewer calls and no property
reads the role of somebody invited; the theorems hold for any set of roles.
Deadlock is switched off where the bounded clock, or ids and calls that run
out, end a behaviour that in the code goes on, and where `inspect` returns.

## Fairness

`BridgeIngest`, `InspectionStore`, `Physical` and `Sessions` assume none: their
properties are about safety, and a bench, a detector or a client may wait for
ever. `DeviceWatcher` assumes weak fairness of
the steps of a poll, because `setInterval` keeps firing and every tool runs
under a timeout of `execFile`, and of delivery on an open socket. Nothing is
assumed of the technician. `ListCatchesUp` is conditional on a bus that comes
to rest, and tools fail finitely often (`MaxFaults`): a bridge whose
`idevice_id` keeps failing keeps reporting an empty bus, which is what the code
does. `BenchInspection` assumes weak fairness of each tool call, for the same
timeout, and of the end of an upload, since `fetch` gives up by itself after
its default timeouts; which way a call or an upload ends is left open.
`BenchDashboard` adds that loopback requests are answered.

## Proofs

`BridgeIngestProofs`. The assumption `ConstantsOK` types the constants.
`TypeCorrect`, `UploadedMeansStored` (a bench told "uploaded" has its row) and
`RevocationDrains` need nothing else. The replay theorems (`StoredAtMostOnce`,
`NonceIsKept`, `IngestKeepsPromise`) hold under `ClockMargin`, `Ahead + Stall <
Skew`, and run `fast_clock` shows what happens without it. `AtMostOnce` is not
inductive: what keeps a second copy out is that a row, or a request past the
nonce insert, implies a nonce row whose expiry lies beyond the last moment at
which a copy can insert. The inductive invariant therefore adds that at most
one slot is past the insert for an upload that has no row, that each nonce row
of an admitted request expires after the end of its window plus the stall, and
that a request before the insert has spent at most `Stall` seconds there.
Pruning preserves it because a pruned row is one whose request can no longer
pass.

`InspectionStoreProofs`. The invariant adds, to the properties themselves,
`DisguisesAreKnown` (evidence that passes both checks is what was concluded
from, or the inspection is in `disguised`) and what each handler holds in
memory: the report of a re-score is of its source's ledger, or the source was
disguised, and the row or file a later stage relies on is there. From it follow
the three invariants and, action by action, the refinement of `EvidenceArchive`:
`Persist` is `Conclude` or `ConcludeAgain`, `StartIngest` is `Submit`,
`EditEvidence` is `Disguise` when it passes the checks and stutters otherwise,
as everything else does.
`CountNeverLags` needs no stronger invariant: the upsert adds one to the count
and one request to those about to store, `Persist` moves that one to the rows,
every other step only takes away. It rests on `Countable`, that there are
finitely many inspections and requests.

`BenchInspectionProofs`. `GapsAreNamed` speaks of finished captures; the
invariant carries it through the run as `PassedIsAccounted`: every guarded
source at a position already passed has been read or recorded. The lemmas on
`Calls` show that the only jump, over the probe that the service list makes
unnecessary, passes no guarded source; services and analytics are not guarded.
It rests on `ConstantsOK`: domains have names of their own.

`ConfidenceProofs`. The confidence model, the trust engine and the physical
score add and multiply over sets of inferences, surfaces and modules, and the
library defines such folds by a recursive function on finite sets. Nothing is
proved about them by induction on the set (that would need an operator as a
parameter). Instead `MinimalExists`, that a non-empty family of finite sets has
a member of which no proper part is in the family, comes from well-founded
induction on cardinality, and each fact is proved by taking a minimal
counterexample away: that the recursive function exists (`FoldExists`), that
any element can be taken out of a sum first (`SumTakes`, which is what makes a
sum independent of the order the set is folded in), that it depends on its
terms only, that a part of it is no greater, that it is bounded by a bound on
its terms; and that a product of shares is a share no greater than any factor
(`ProductOfShares`). On these rest the theorems: `CorroborationIsShare` and
`VerdictConfidenceIsShare`, for any finite set of inferences. The proofs cite
the value of `One` as a fact (`OneIs`) and seldom expand it: the prover
enumerates a range between two numerals.

`InspectionProofs`. All safety properties of `Inspection` are proved, for every
catalogue and every capture that the assumptions admit. The invariant `IInv` is
about the ledger: every record has the reliability of its channel (`Sound`); a
key that a single collector reads, once, is one record (`SingleIn`), of that
collector's subject (`ReadBy`), so that ids are unique; the reference data
stands beside the model it belongs to (`Seeded`); and a report, once there, is
that of the final ledger. `Sound` is what makes `best` meaningful: among
finitely many channels there is a most reliable one, so the `CHOOSE` in `best`
chooses a reading that no other exceeds (`TheMoreReliableChannelDecides`). What
a report claims is then a matter of operators. Each module is `Accountable`: it
draws inferences from records of the ledger, verdicts from those inferences,
findings from either or from a declared absence, with coverage and confidence a
share; the audit then finds nothing (`EveryReportIsCited`). Lemmas on the trust
engine, for any five such results, say that weighted means of shares are shares
in spite of `Math.round` (`TypeCorrectness`), that less than 45 % of the weight
makes no verdict (`VerdictsNeedThePicture`) and that a gate that fires bounds
the score whatever the raw score is; `AdverseFactsAlwaysCap` adds, fact by fact,
that the modules raise that gate whatever else they read.
`ListedPartsAreDisclosed` and `OriginalsAreEarned` follow the service module's
judgement of one part into the report. Assumptions: `BatchesAssumption` and
`FailingAssumption` (a collector finds finitely many records of its own kinds,
through channels it has), `CatalogueAssumption` (types), and `WordsAssumption`,
that literals of the module are strings, which TLC evaluates and the provers do
not know by themselves.

`DeviceWatcherProofs`. `TypeOK /\ FeedTellsTheList` is inductive as it stands.
The work is in the feed: the dashboard folds frames from the left, so a poll
that appends its events is harmless because the fold goes over a concatenation
in two parts (`FeedsInTurn`), because the events of a poll lead from the list
they were drawn from to the one the poll found (`EventsLead`; each handset is in
one event at most, so the order among connections and among disconnections does
not matter), and because a greeting replaces what came before. It rests
on `ConstantsOK`: finitely many handsets and room for the greeting.

`PhysicalProofs`. The invariant says what the ledger of an inspection is made
of: a capture record for each picture and each surface of its view, no other
capture records, and detections that name a class of the taxonomy, a surface
it occurs on and an accepted picture that shows it. The report is
`evaluatePhysical` of that ledger under some table. What the theorems claim of
a report is then a matter of operators: `UsableIsSeen` (a usable capture record
of the part is one of this very surface exactly when an accepted picture shows
it, although two surfaces share a subject), `DetectionsArePriced` and
`FailuresAreCited`. Two theorems are about steps: `EverySightingIsPriced`
follows because dropping duplicate records keeps one of each id, and
`DamageKeepsItsPrice` because among the inferences of a surface only that of a
clean one reads the table.

`Typed`, the second invariant, is about the numbers: the ledger is finite, its
ids tell its records apart (of several records with one id one is kept), every
record has a reliability and every table is one of calibrations. From it,
operator by operator: the effect of a defect is a share; a surface's score is a
product of shares, so it is no better than what its worst defect leaves by
itself (`SurfaceScoreBounds`); the five pillars have figures within their
scales, the weighted mean of them is at most 100 in spite of three roundings in
a row (`RawScoreIsBounded`), and the gates keep the score below their caps
(`GatesCap`). `DestructionDecides` combines the two invariants: a defect is
charged to its surface, takes what it takes, and the surface fires its gate. It
speaks of what the defect leaves, in points as the code rounds them, because
the classes fall on the boundary: a structural crack takes 80 % and leaves
exactly 20, which is not fewer than 20. `TopGradesAreMeasured` runs the
argument backwards: a score above 84 means that the calibration gate did not
fire, one above 96 that the coverage gate did not, and the weights of the
pillars leave room for no unseen surface but the front camera or the charge
port. The audit has nothing to find because every assessment cites records of
the ledger (`SurfacesAreAssessed`). The proofs rest on `PhysicalAssumption`,
which types the pictures, sightings and benchmarks and makes an inspection
finite, and on `WordsAssumption`, which tells the provers that a word is a
string.

`SessionsProofs`. The invariant records, per call, what its earlier steps have
established and no other call can undo: rows are revoked for good, accounts are
disabled for good, shops are never deleted (`Lasting`). `OthersRely` shows that
a step of one call leaves this of every other, so each action is looked at for
the one call that moves. `ExchangedIsSpent` follows because a call stands at
"issue" only with its token revoked; `ShopsAreFoundedOnce` because both unique
constraints are tested in the step that writes. It assumes nothing of the roles
an invitation may name.

Every invariant, action property and refinement that a passing run checks is
stated by a theorem. Only model-checked: liveness (`ListCatchesUp` and
`EveryRequestEnds`), which is out of the prover's reach, and `BenchDashboard`,
whose one property is of that kind and fails (finding 3). What exactly the
confidence model and the score compute for given inferences, and that the
roundings agree with the code's, is seen on the instances; the theorems bound
it. Progress of the model is the runs' matter as well: a theorem about reports
says nothing of whether there is one.

## Findings

1. A nonce expires a fraction of a second before its request leaves the window
   when the bench clock is ahead by the whole skew (`fast_clock`). It needs the
   pruning to be scheduled, which it is not yet.
2. The verification page describes the device by its latest capture, not by the
   one the report was printed from (`verify_spec`).
3. The inspect page can miss a change for good (`dashboard_reload`).
4. A service list that could not be read is an empty one, without an error
   (`services_gap`). Analytics whose copy breaks off are the same case, as the
   comment in their reader intends; the run leaves them out.
5. A clean security verdict can rest on nothing but an inference against it
   (`clean_verdict`).

## Not modelled, and the plan

In order:

1. A run in which one more refusal never raises a verdict, and the confidence of
   a corroborated verdict as a monotone function of its support.
2. The page flow (`onRun`, progress frames) composed with `BenchInspection`,
   and the read models that order inspections by creation.
3. The browser's side of a session: the cookies, sign-out beside another
   sign-in, and the missing use of `refresh`.

Left out for good: PDF layout, the tables of the core catalogs and the parsers
(text without state), the pixel arithmetic of image measurement, the CLI,
start-up configuration and the offline `ml/` tooling. Tenancy is left out of
every module but `Sessions`: all rows of a module belong to one organization,
and each query of the source is scoped by `organizationId`.
