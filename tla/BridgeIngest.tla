---------------------------- MODULE BridgeIngest ----------------------------
(***************************************************************************)
(* A paired bench uploads a capture and the API admits it: the signed      *)
(* request of SnapshotUploader.upload, a network that loses, delays and    *)
(* duplicates it, the awaits of BridgeSignatureGuard.canActivate one by    *)
(* one, the nonce table with its housekeeping, revocation, and the write   *)
(* that InspectionsService.ingest makes of an admitted request.            *)
(*                                                                         *)
(* An instant is [s, f]: whole seconds and a fraction of one.  The guard   *)
(* compares whole seconds (Math.floor) and the nonce table compares        *)
(* instants; the difference between the two is what the module is about.   *)
(***************************************************************************)
EXTENDS Integers

CONSTANTS
  Bridges,      \* registered workstations
  Uploads,      \* uploads; the nonce is a fresh UUID, so an upload names it
  Requests,     \* requests the API can be serving at the same time
  Skew,         \* config.bridgeRequestSkewSeconds
  Ahead,        \* most seconds a bench clock runs ahead of the API's
  Behind,       \* most seconds a bench clock runs behind it
  Stall,        \* most seconds between the window check and the nonce insert
  Fractions,    \* clock steps in a second
  LastSecond,   \* bound on the clock
  None          \* no upload

Instant == [s : Nat, f : 0..(Fractions - 1)]
Before(a, b) == a.s < b.s \/ (a.s = b.s /\ a.f < b.f)

SignedRequest == [bridge : Bridges, timestamp : Int]
NonceRow == [nonce : Uploads, expiresAt : Instant]

ASSUME ConstantsOK ==
  /\ Skew \in Nat /\ Ahead \in Nat /\ Behind \in Nat /\ Stall \in Nat
  /\ LastSecond \in Nat
  /\ Fractions \in Nat \ {0}
  /\ None \notin Uploads /\ None \notin SignedRequest

VARIABLES
  now,          \* the API's clock
  paired,       \* paired[b]: registration b exists and is not revoked
  wire,         \* wire[u]: the signed request of u, or None
  bench,        \* bench[u]: what the bench knows of upload u
  nonces,       \* rows of the nonce table
  serving,      \* serving[r]: the request in slot r and the await it is at
  rows          \* rows[u]: inspection rows stored for upload u

vars == <<now, paired, wire, bench, nonces, serving, rows>>

\* The awaits a request is suspended at, in the order the code reaches them.
Stage == {"lookup", "nonce", "touch", "ingest", "answer"}
Idle == [upload |-> None, stage |-> "idle", at |-> [s |-> 0, f |-> 0]]
InService == [upload : Uploads, stage : Stage, at : Instant]

TypeOK ==
  /\ now \in Instant
  /\ paired \in [Bridges -> BOOLEAN]
  /\ wire \in [Uploads -> SignedRequest \cup {None}]
  /\ bench \in [Uploads -> {"unsent", "waiting", "uploaded", "notUploaded"}]
  /\ nonces \subseteq NonceRow
  /\ serving \in [Requests -> InService \cup {Idle}]
  /\ rows \in [Uploads -> Nat]

Init ==
  /\ now = [s |-> 0, f |-> 0]
  /\ paired = [b \in Bridges |-> TRUE]
  /\ wire = [u \in Uploads |-> None]
  /\ bench = [u \in Uploads |-> "unsent"]
  /\ nonces = {}
  /\ serving = [r \in Requests |-> Idle]
  /\ rows = [u \in Uploads |-> 0]

(***************************************************************************)
(* The bench                                                               *)
(***************************************************************************)

\* upload(): stamp with the bench's own clock, sign, and await the answer.
Upload(u, b) ==
  /\ bench[u] = "unsent"
  /\ \E drift \in (0 - Behind)..Ahead :
       wire' = [wire EXCEPT ![u] = [bridge |-> b, timestamp |-> now.s + drift]]
  /\ bench' = [bench EXCEPT ![u] = "waiting"]
  /\ UNCHANGED <<now, paired, nonces, serving, rows>>

\* fetch() rejects: no connection, a reset, a timeout of the HTTP client.
ConnectionLost(u) ==
  /\ bench[u] = "waiting"
  /\ bench' = [bench EXCEPT ![u] = "notUploaded"]
  /\ UNCHANGED <<now, paired, wire, nonces, serving, rows>>

(***************************************************************************)
(* The API.  A request leaves the API with an answer that reaches the      *)
(* bench if it still waits, and may be lost on the way.                    *)
(***************************************************************************)

Answer(r, ok) ==
  LET u == serving[r].upload IN
  /\ serving' = [serving EXCEPT ![r] = Idle]
  /\ \/ UNCHANGED bench
     \/ /\ bench[u] = "waiting"
        /\ bench' = [bench EXCEPT ![u] = IF ok THEN "uploaded" ELSE "notUploaded"]

Advance(r, stage) == serving' = [serving EXCEPT ![r].stage = stage]

\* A request on the wire reaches the API, any number of times.  Outside the
\* window it is refused before anything is read (the answer is ConnectionLost
\* as far as the bench can tell).
InWindow(timestamp) ==
  /\ now.s - timestamp <= Skew
  /\ timestamp - now.s <= Skew

Arrive(r, u) ==
  /\ serving[r] = Idle
  /\ wire[u] # None
  /\ InWindow(wire[u].timestamp)
  /\ serving' = [serving EXCEPT ![r] = [upload |-> u, stage |-> "lookup", at |-> now]]
  /\ UNCHANGED <<now, paired, wire, bench, nonces, rows>>

\* Faulty: the lookup forgets revokedAt.
LookupIgnoresRevocation(r) ==
  /\ serving[r].stage = "lookup"
  /\ Advance(r, "nonce")
  /\ UNCHANGED <<now, paired, wire, bench, nonces, rows>>

\* findUnique by token hash, then the signature check, which a request this
\* bench signed always passes.
Lookup(r) ==
  /\ serving[r].stage = "lookup"
  /\ IF paired[wire[serving[r].upload].bridge]
       THEN Advance(r, "nonce") /\ UNCHANGED bench
       ELSE Answer(r, FALSE)
  /\ UNCHANGED <<now, paired, wire, nonces, rows>>

\* Faulty: the nonce is kept for one window, or expires in the past.
RetentionOfOneWindow(u) == [nonce |-> u, expiresAt |-> [s |-> now.s + Skew, f |-> now.f]]
RetentionInThePast(u) == [nonce |-> u, expiresAt |-> [s |-> now.s - 2 * Skew, f |-> now.f]]

Used(u) == \E row \in nonces : row.nonce = u
Retention(u) == [nonce |-> u, expiresAt |-> [s |-> now.s + 2 * Skew, f |-> now.f]]

\* Faulty: an insert without the unique constraint.
InsertNonceUnchecked(r) ==
  /\ serving[r].stage = "nonce"
  /\ nonces' = nonces \cup {Retention(serving[r].upload)}
  /\ Advance(r, "touch")
  /\ UNCHANGED <<now, paired, wire, bench, rows>>

\* Insert under the unique constraint: the row and the verdict in one step.
InsertNonce(r) ==
  LET u == serving[r].upload IN
  /\ serving[r].stage = "nonce"
  /\ IF Used(u)
       THEN Answer(r, FALSE) /\ UNCHANGED nonces
       ELSE /\ nonces' = nonces \cup {Retention(u)}
            /\ Advance(r, "touch")
            /\ UNCHANGED bench
  /\ UNCHANGED <<now, paired, wire, rows>>

\* lastSeenAt, then the controller hands the request to ingest().
Touch(r) ==
  /\ serving[r].stage = "touch"
  /\ Advance(r, "ingest")
  /\ UNCHANGED <<now, paired, wire, bench, nonces, rows>>

\* ingest() persists the inspection; a refusal or a failure is Abort below.
Ingest(r) ==
  /\ serving[r].stage = "ingest"
  /\ rows' = [rows EXCEPT ![serving[r].upload] = @ + 1]
  /\ Advance(r, "answer")
  /\ UNCHANGED <<now, paired, wire, bench, nonces>>

Respond(r) ==
  /\ serving[r].stage = "answer"
  /\ Answer(r, TRUE)
  /\ UNCHANGED <<now, paired, wire, nonces, rows>>

\* Any await can throw, and the process can die at any of them: what was
\* written stays written and the nonce stays used.
Abort(r) ==
  /\ serving[r] # Idle
  /\ Answer(r, FALSE)
  /\ UNCHANGED <<now, paired, wire, nonces, rows>>

\* revoke(): the registration row is updated under whatever is in service.
Revoke(b) ==
  /\ paired[b]
  /\ paired' = [paired EXCEPT ![b] = FALSE]
  /\ UNCHANGED <<now, wire, bench, nonces, serving, rows>>

\* pruneNonces(): rows whose expiry has passed.
PruneNonces ==
  /\ nonces' = {row \in nonces : ~ Before(row.expiresAt, now)}
  /\ nonces' # nonces
  /\ UNCHANGED <<now, paired, wire, bench, serving, rows>>

\* Time passes, but not past a request between its window check and its nonce.
Tomorrow == IF now.f = Fractions - 1
              THEN [s |-> now.s + 1, f |-> 0]
              ELSE [now EXCEPT !.f = @ + 1]

Tick ==
  /\ Tomorrow.s <= LastSecond
  /\ \A r \in Requests :
       serving[r].stage \in {"lookup", "nonce"} => Tomorrow.s <= serving[r].at.s + Stall
  /\ now' = Tomorrow
  /\ UNCHANGED <<paired, wire, bench, nonces, serving, rows>>

Next ==
  \/ \E u \in Uploads, b \in Bridges : Upload(u, b)
  \/ \E u \in Uploads : ConnectionLost(u)
  \/ \E r \in Requests, u \in Uploads : Arrive(r, u)
  \/ \E r \in Requests : \/ Lookup(r) \/ InsertNonce(r) \/ Touch(r)
                         \/ Ingest(r) \/ Respond(r) \/ Abort(r)
  \/ \E b \in Bridges : Revoke(b)
  \/ PruneNonces
  \/ Tick

Spec == Init /\ [][Next]_vars

-----------------------------------------------------------------------------
(***************************************************************************)
(* Properties                                                              *)
(***************************************************************************)

\* A signed request is stored at most once however often it is delivered, in
\* whatever order its copies are served and whatever the housekeeping deletes
\* meanwhile (bridge-signature.guard.ts: "a per-bridge nonce table eliminates
\* it inside that window").
AtMostOnce == \A u \in Uploads : rows[u] <= 1

\* Requests that got past the nonce insert and have not been answered.
Admitted == {"touch", "ingest", "answer"}
InFlight(u) == {r \in Requests : serving[r].upload = u /\ serving[r].stage \in Admitted}
WasAdmitted(u) == rows[u] > 0 \/ InFlight(u) # {}

\* The nonce of an admitted request is remembered for as long as a copy of the
\* request could still get through: while its timestamp is in the window, and
\* while a copy that passed the window check has yet to insert the nonce.
NonceOutlivesWindow ==
  \A u \in Uploads :
    /\ WasAdmitted(u)
    /\ \/ InWindow(wire[u].timestamp)
       \/ \E r \in Requests : /\ serving[r].upload = u
                              /\ serving[r].stage \in {"lookup", "nonce"}
    => Used(u)

\* A bench that is told "uploaded" has its inspection stored, although the
\* answer, the row and the bench's patience race each other.
UploadedIsStored == \A u \in Uploads : bench[u] = "uploaded" => rows[u] > 0

\* Revocation is checked before the nonce and never again, so a request in
\* service can still be stored; once those have drained, nothing more of that
\* bench is stored, ever.
Drained(b) ==
  /\ ~ paired[b]
  /\ \A r \in Requests :
       serving[r] # Idle /\ wire[serving[r].upload].bridge = b
         => serving[r].stage = "lookup"
StaysDrained ==
  \A b \in Bridges : Drained(b) =>
    /\ Drained(b)'
    /\ \A u \in Uploads : wire[u] # None /\ wire[u].bridge = b => rows'[u] = rows[u]
RevocationIsFinal == [][StaysDrained]_vars

\* The guard, the nonce table and the network together keep UploadPromise.
Promise == INSTANCE UploadPromise WITH outcome <- bench
KeepsPromise == Promise!Spec
=============================================================================
