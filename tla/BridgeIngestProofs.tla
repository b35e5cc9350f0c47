------------------------- MODULE BridgeIngestProofs -------------------------
(***************************************************************************)
(* A signed upload is stored at most once, for any number of benches,      *)
(* uploads and requests in service and any window, provided the window is  *)
(* wider than the bench clock's lead plus the longest stall between the    *)
(* window check and the nonce insert (ClockMargin).  Without that margin   *)
(* the run with a fast bench clock shows the second row.                   *)
(***************************************************************************)
EXTENDS BridgeIngest, TLAPS

ClockMargin == Ahead + Stall < Skew

-----------------------------------------------------------------------------
(***************************************************************************)
(* The inductive invariant                                                 *)
(***************************************************************************)

\* Stages before the nonce insert, and after it with nothing stored yet.
Entering == {"lookup", "nonce"}
Pending == {"touch", "ingest"}

ServedWereSent ==
  \A r \in Requests : serving[r] # Idle => wire[serving[r].upload] # None

UnsentIsNew == \A u \in Uploads : bench[u] = "unsent" => wire[u] = None

RowsWereSent == \A u \in Uploads : rows[u] > 0 => wire[u] # None

\* A timestamp is never further ahead of the API's clock than Ahead.
StampsNotTooEarly ==
  \A u \in Uploads : wire[u] # None => wire[u].timestamp <= now.s + Ahead

\* The end of the retention of an upload's nonce, whenever it was inserted.
Retained(u) == wire[u].timestamp - Ahead + 2 * Skew

RowsLastLongEnough ==
  \A row \in nonces : /\ wire[row.nonce] # None
                      /\ row.expiresAt.s >= Retained(row.nonce)

\* A request before the nonce was in the window when it came, not long ago.
RecentlyInWindow ==
  \A r \in Requests : serving[r].stage \in Entering =>
    /\ serving[r].at.s - wire[serving[r].upload].timestamp <= Skew
    /\ now.s <= serving[r].at.s + Stall

PendingIsAlone ==
  \A r \in Requests : serving[r].stage \in Pending =>
    /\ rows[serving[r].upload] = 0
    /\ \A q \in Requests :
         serving[q].stage \in Pending /\ serving[q].upload = serving[r].upload => q = r

AnsweredIsStored ==
  \A r \in Requests : serving[r].stage = "answer" => rows[serving[r].upload] > 0

\* The nonce of an admitted upload is in the table, or its time is over.
Remembered ==
  \A u \in Uploads :
    \/ rows[u] > 0
    \/ \E r \in Requests : serving[r].upload = u /\ serving[r].stage \in Pending
    => Used(u) \/ now.s >= Retained(u)

IInv ==
  /\ TypeOK
  /\ UnsentIsNew
  /\ ServedWereSent
  /\ RowsWereSent
  /\ StampsNotTooEarly
  /\ RowsLastLongEnough
  /\ RecentlyInWindow
  /\ PendingIsAlone
  /\ AnsweredIsStored
  /\ Remembered
  /\ AtMostOnce

-----------------------------------------------------------------------------
(***************************************************************************)
(* Two facts about the records, used by every action of the API            *)
(***************************************************************************)

\* A request at a stage is one in service, of an upload, since an instant.
LEMMA InServiceIsTyped ==
  ASSUME TypeOK, NEW r \in Requests, serving[r].stage \in Stage
  PROVE  serving[r] \in InService /\ serving[r] # Idle
BY ConstantsOK DEF TypeOK, InService, Idle, Stage

\* Moving a request to another stage keeps it typed and moves nothing else.
LEMMA AdvanceIsTyped ==
  ASSUME TypeOK, NEW r \in Requests, serving[r].stage \in Stage,
         NEW stage \in Stage, Advance(r, stage)
  PROVE  /\ serving' \in [Requests -> InService \cup {Idle}]
         /\ serving'[r] = [upload |-> serving[r].upload, stage |-> stage, at |-> serving[r].at]
         /\ \A q \in Requests \ {r} : serving'[q] = serving[q]
<1>1. serving[r] \in InService
  BY InServiceIsTyped
<1>2. [serving[r] EXCEPT !.stage = stage]
        = [upload |-> serving[r].upload, stage |-> stage, at |-> serving[r].at]
  BY <1>1 DEF InService
<1>3. [upload |-> serving[r].upload, stage |-> stage, at |-> serving[r].at] \in InService
  BY <1>1 DEF InService
<1>. QED
  BY <1>1, <1>2, <1>3 DEF TypeOK, Advance

\* An answered request leaves its slot idle and touches no other slot.
LEMMA AnswerIsTyped ==
  ASSUME TypeOK, NEW r \in Requests, serving[r].stage \in Stage,
         NEW ok \in BOOLEAN, Answer(r, ok)
  PROVE  /\ serving' \in [Requests -> InService \cup {Idle}]
         /\ serving'[r] = Idle
         /\ \A q \in Requests \ {r} : serving'[q] = serving[q]
         /\ bench' \in [Uploads -> {"unsent", "waiting", "uploaded", "notUploaded"}]
         /\ \A v \in Uploads : bench'[v] = "unsent" => bench[v] = "unsent"
<1>1. serving[r].upload \in Uploads
  BY InServiceIsTyped DEF InService
<1>. QED
  BY <1>1 DEF TypeOK, Answer

-----------------------------------------------------------------------------
(***************************************************************************)
(* The inductive step, one lemma for the requests in service               *)
(***************************************************************************)

\* Ending a request, with whatever answer, preserves the invariant.
LEMMA EndingPreserves ==
  ASSUME IInv, NEW r \in Requests, serving[r].stage \in Stage,
         NEW ok \in BOOLEAN, Answer(r, ok),
         UNCHANGED <<now, paired, wire, nonces, rows>>
  PROVE  IInv'
<1>. USE DEF IInv
<1>1. /\ serving' \in [Requests -> InService \cup {Idle}]
      /\ serving'[r] = Idle
      /\ \A q \in Requests \ {r} : serving'[q] = serving[q]
      /\ bench' \in [Uploads -> {"unsent", "waiting", "uploaded", "notUploaded"}]
      /\ \A v \in Uploads : bench'[v] = "unsent" => bench[v] = "unsent"
  BY AnswerIsTyped
<1>2. \A q \in Requests : serving'[q] = serving[q] \/ serving'[q].stage = "idle"
  BY <1>1 DEF Idle
<1>3. \A q \in Requests : serving'[q] = serving[q] \/ serving'[q] = Idle
  BY <1>1
<1>4. TypeOK'
  BY <1>1 DEF TypeOK
<1>5. UnsentIsNew' /\ ServedWereSent' /\ RowsWereSent' /\ StampsNotTooEarly' /\ RowsLastLongEnough'
  BY <1>1, <1>3 DEF UnsentIsNew, ServedWereSent, RowsWereSent, StampsNotTooEarly, RowsLastLongEnough, Retained
<1>6. RecentlyInWindow'
  BY <1>2 DEF RecentlyInWindow, Entering
<1>7. PendingIsAlone' /\ AnsweredIsStored'
  BY <1>2 DEF PendingIsAlone, AnsweredIsStored, Pending
<1>8. Remembered'
  BY <1>2 DEF Remembered, Pending, Used, Retained
<1>9. AtMostOnce'
  BY DEF AtMostOnce
<1>. QED
  BY <1>4, <1>5, <1>6, <1>7, <1>8, <1>9

\* A request that meets its bridge paired goes on to the nonce.
LEMMA LookupPreserves ==
  ASSUME IInv, NEW r \in Requests, Lookup(r)
  PROVE  IInv'
<1>. USE DEF IInv
<1>1. serving[r].stage = "lookup" /\ serving[r].stage \in Stage
  BY DEF Lookup, Stage
<1>2. CASE ~ paired[wire[serving[r].upload].bridge]
  BY <1>1, <1>2, EndingPreserves DEF Lookup
<1>3. CASE paired[wire[serving[r].upload].bridge]
  <2>1. Advance(r, "nonce") /\ UNCHANGED <<now, paired, wire, bench, nonces, rows>>
    BY <1>3 DEF Lookup
  <2>2. /\ serving' \in [Requests -> InService \cup {Idle}]
        /\ serving'[r] = [upload |-> serving[r].upload, stage |-> "nonce", at |-> serving[r].at]
        /\ \A q \in Requests \ {r} : serving'[q] = serving[q]
    BY <1>1, <2>1, AdvanceIsTyped DEF Stage
  <2>3. serving[r] # Idle
    BY <1>1, InServiceIsTyped
  <2>4. TypeOK'
    BY <2>1, <2>2 DEF TypeOK
  <2>5. UnsentIsNew' /\ ServedWereSent' /\ RowsWereSent' /\ StampsNotTooEarly' /\ RowsLastLongEnough'
    BY <2>1, <2>2, <2>3
       DEF UnsentIsNew, ServedWereSent, RowsWereSent, StampsNotTooEarly, RowsLastLongEnough, Retained
  <2>6. RecentlyInWindow'
    BY <1>1, <2>1, <2>2 DEF RecentlyInWindow, Entering
  <2>7. PendingIsAlone' /\ AnsweredIsStored' /\ Remembered' /\ AtMostOnce'
    BY <1>1, <2>1, <2>2
       DEF PendingIsAlone, AnsweredIsStored, Pending, Remembered, Used, Retained, AtMostOnce
  <2>. QED
    BY <2>4, <2>5, <2>6, <2>7
<1>. QED
  BY <1>2, <1>3

\* The heart of it: an insert that finds no row finds no earlier admission,
\* because a request this recent cannot have outlived the nonce of its copy.
LEMMA InsertNoncePreserves ==
  ASSUME ClockMargin, IInv, NEW r \in Requests, InsertNonce(r)
  PROVE  IInv'
<1>. USE DEF IInv
<1>. DEFINE u == serving[r].upload
<1>1. serving[r].stage = "nonce" /\ serving[r].stage \in Stage
  BY DEF InsertNonce, Stage
<1>2. CASE Used(u)
  BY <1>1, <1>2, EndingPreserves DEF InsertNonce
<1>3. CASE ~ Used(u)
  <2>1. /\ Advance(r, "touch")
        /\ nonces' = nonces \cup {Retention(u)}
        /\ UNCHANGED <<now, paired, wire, bench, rows>>
    BY <1>3 DEF InsertNonce
  <2>2. /\ serving' \in [Requests -> InService \cup {Idle}]
        /\ serving'[r] = [upload |-> u, stage |-> "touch", at |-> serving[r].at]
        /\ \A q \in Requests \ {r} : serving'[q] = serving[q]
    BY <1>1, <2>1, AdvanceIsTyped DEF Stage
  <2>3. serving[r] \in InService /\ serving[r] # Idle
    BY <1>1, InServiceIsTyped
  <2>4. u \in Uploads /\ serving[r].at \in Instant
    BY <2>3 DEF InService
  <2>5. wire[u] # None /\ wire[u] \in SignedRequest
    BY <2>3, <2>4 DEF ServedWereSent, TypeOK
  <2>6. wire[u].timestamp \in Int /\ now.s \in Nat /\ serving[r].at.s \in Nat
    BY <2>4, <2>5 DEF TypeOK, SignedRequest, Instant
  <2>7. now.s < Retained(u)
    BY <1>1, <2>6, ConstantsOK DEF RecentlyInWindow, Entering, ClockMargin, Retained
  <2>8. /\ rows[u] = 0
        /\ \A q \in Requests : serving[q].upload = u => serving[q].stage \notin Pending
    BY <1>3, <2>4, <2>6, <2>7, ConstantsOK DEF Remembered, TypeOK, Retained
  <2>9. TypeOK'
    <3>1. Retention(u) \in NonceRow
      BY <2>4, <2>6, ConstantsOK DEF Retention, NonceRow, Instant, TypeOK
    <3>. QED
      BY <2>1, <2>2, <3>1 DEF TypeOK
  <2>10. UnsentIsNew' /\ ServedWereSent' /\ RowsWereSent' /\ StampsNotTooEarly'
    BY <2>1, <2>2, <2>3 DEF UnsentIsNew, ServedWereSent, RowsWereSent, StampsNotTooEarly
  <2>11. RowsLastLongEnough'
    <3>1. Retention(u).expiresAt.s >= Retained(u)
      BY <2>4, <2>5, <2>6, ConstantsOK DEF Retention, Retained, StampsNotTooEarly
    <3>. QED
      BY <2>1, <2>5, <3>1 DEF RowsLastLongEnough, Retention, Retained
  <2>12. RecentlyInWindow'
    BY <2>1, <2>2 DEF RecentlyInWindow, Entering
  <2>13. PendingIsAlone' /\ AnsweredIsStored' /\ AtMostOnce'
    BY <2>1, <2>2, <2>8 DEF PendingIsAlone, AnsweredIsStored, Pending, AtMostOnce
  <2>14. Remembered'
    <3>1. Retention(u) \in nonces'
      BY <2>1
    <3>2. Retention(u).nonce = u
      BY DEF Retention
    <3>. QED
      BY <2>1, <2>2, <3>1, <3>2 DEF Remembered, Pending, Used, Retained
  <2>. QED
    BY <2>9, <2>10, <2>11, <2>12, <2>13, <2>14
<1>. QED
  BY <1>2, <1>3

\* lastSeenAt moves a request on and changes nothing the invariant reads.
LEMMA TouchPreserves ==
  ASSUME IInv, NEW r \in Requests, Touch(r)
  PROVE  IInv'
<1>. USE DEF IInv
<1>1. serving[r].stage = "touch" /\ serving[r].stage \in Stage
  BY DEF Touch, Stage
<1>2. Advance(r, "ingest") /\ UNCHANGED <<now, paired, wire, bench, nonces, rows>>
  BY DEF Touch
<1>3. /\ serving' \in [Requests -> InService \cup {Idle}]
      /\ serving'[r] = [upload |-> serving[r].upload, stage |-> "ingest", at |-> serving[r].at]
      /\ \A q \in Requests \ {r} : serving'[q] = serving[q]
  BY <1>1, <1>2, AdvanceIsTyped DEF Stage
<1>4. serving[r] # Idle
  BY <1>1, InServiceIsTyped
<1>5. TypeOK'
  BY <1>2, <1>3 DEF TypeOK
<1>6. UnsentIsNew' /\ ServedWereSent' /\ RowsWereSent' /\ StampsNotTooEarly' /\ RowsLastLongEnough'
  BY <1>2, <1>3, <1>4
     DEF UnsentIsNew, ServedWereSent, RowsWereSent, StampsNotTooEarly, RowsLastLongEnough, Retained
<1>7. RecentlyInWindow'
  BY <1>2, <1>3 DEF RecentlyInWindow, Entering
<1>8. PendingIsAlone' /\ AnsweredIsStored' /\ AtMostOnce'
  BY <1>1, <1>2, <1>3 DEF PendingIsAlone, AnsweredIsStored, Pending, AtMostOnce
<1>9. Remembered'
  BY <1>1, <1>2, <1>3 DEF Remembered, Pending, Used, Retained
<1>. QED
  BY <1>5, <1>6, <1>7, <1>8, <1>9

\* The write: the request was alone, so the row is the first of its upload.
LEMMA IngestPreserves ==
  ASSUME IInv, NEW r \in Requests, Ingest(r)
  PROVE  IInv'
<1>. USE DEF IInv
<1>. DEFINE u == serving[r].upload
<1>1. serving[r].stage = "ingest" /\ serving[r].stage \in Stage
  BY DEF Ingest, Stage
<1>2. Advance(r, "answer") /\ UNCHANGED <<now, paired, wire, bench, nonces>>
  BY DEF Ingest
<1>3. /\ serving' \in [Requests -> InService \cup {Idle}]
      /\ serving'[r] = [upload |-> u, stage |-> "answer", at |-> serving[r].at]
      /\ \A q \in Requests \ {r} : serving'[q] = serving[q]
  BY <1>1, <1>2, AdvanceIsTyped DEF Stage
<1>4. serving[r] \in InService /\ serving[r] # Idle /\ u \in Uploads
  BY <1>1, InServiceIsTyped DEF InService
<1>5. rows[u] = 0
  BY <1>1 DEF PendingIsAlone, Pending
<1>6. rows' \in [Uploads -> Nat] /\ rows'[u] = 1
      /\ \A v \in Uploads : v # u => rows'[v] = rows[v]
  BY <1>4, <1>5 DEF Ingest, TypeOK
<1>7. TypeOK'
  BY <1>2, <1>3, <1>6 DEF TypeOK
<1>8. UnsentIsNew' /\ ServedWereSent' /\ RowsWereSent' /\ StampsNotTooEarly' /\ RowsLastLongEnough'
  BY <1>2, <1>3, <1>4, <1>6
     DEF UnsentIsNew, ServedWereSent, RowsWereSent, StampsNotTooEarly, RowsLastLongEnough, Retained
<1>9. RecentlyInWindow'
  BY <1>2, <1>3 DEF RecentlyInWindow, Entering
<1>10. PendingIsAlone'
  <2>1. \A q \in Requests : serving'[q].stage \in Pending =>
          q # r /\ serving'[q] = serving[q]
    BY <1>3 DEF Pending
  <2>2. \A q \in Requests : serving[q].stage \in Pending /\ serving[q].upload = u => q = r
    BY <1>1 DEF PendingIsAlone, Pending
  <2>3. \A q \in Requests : serving[q].stage \in Pending => serving[q].upload \in Uploads
    BY InServiceIsTyped DEF Pending, Stage, InService
  <2>. QED
    BY <1>6, <2>1, <2>2, <2>3 DEF PendingIsAlone
<1>11. AnsweredIsStored'
  <2>1. \A q \in Requests : serving[q].stage = "answer" => serving[q].upload \in Uploads
    BY InServiceIsTyped DEF Stage, InService
  <2>2. \A v \in Uploads : rows[v] > 0 => rows'[v] > 0
    BY <1>5, <1>6 DEF TypeOK
  <2>. QED
    BY <1>3, <1>6, <2>1, <2>2 DEF AnsweredIsStored
<1>12. Remembered'
  <2>1. Used(u) \/ now.s >= Retained(u)
    BY <1>1, <1>4 DEF Remembered, Pending
  <2>2. \A v \in Uploads : v # u =>
         ((\E q \in Requests : serving'[q].upload = v /\ serving'[q].stage \in Pending)
            => (\E q \in Requests : serving[q].upload = v /\ serving[q].stage \in Pending))
    BY <1>3
  <2>3. \A v \in Uploads : Used(v)' <=> Used(v)
    BY <1>2 DEF Used
  <2>4. \A v \in Uploads : Retained(v)' = Retained(v)
    BY <1>2 DEF Retained
  <2>5. \A v \in Uploads : v = u => Used(v) \/ now.s >= Retained(v)
    BY <2>1
  <2>6. \A v \in Uploads : v # u => rows'[v] = rows[v]
    BY <1>6
  <2>. QED
    BY <1>2, <2>2, <2>3, <2>4, <2>5, <2>6 DEF Remembered
<1>13. AtMostOnce'
  BY <1>6 DEF AtMostOnce
<1>. QED
  BY <1>7, <1>8, <1>9, <1>10, <1>11, <1>12, <1>13

-----------------------------------------------------------------------------
(***************************************************************************)
(* The inductive step: the bench, the wire, the clock and the housekeeping *)
(***************************************************************************)

\* A new request carries a new nonce, so nothing is known of it yet.
LEMMA UploadPreserves ==
  ASSUME IInv, NEW u \in Uploads, NEW b \in Bridges, Upload(u, b)
  PROVE  IInv'
<1>. USE DEF IInv
<1>1. PICK drift \in (0 - Behind)..Ahead :
        wire' = [wire EXCEPT ![u] = [bridge |-> b, timestamp |-> now.s + drift]]
  BY DEF Upload
<1>2. drift \in Int /\ drift <= Ahead /\ now.s \in Nat
  BY ConstantsOK DEF TypeOK, Instant
<1>3. UNCHANGED <<now, paired, nonces, serving, rows>> /\ bench[u] = "unsent"
  BY DEF Upload
<1>4. [bridge |-> b, timestamp |-> now.s + drift] \in SignedRequest
  BY <1>2 DEF SignedRequest
<1>5. wire'[u] = [bridge |-> b, timestamp |-> now.s + drift]
      /\ \A v \in Uploads : v # u => wire'[v] = wire[v]
  BY <1>1 DEF TypeOK
<1>6. wire[u] = None /\ wire'[u] # None
  BY <1>3, <1>4, <1>5, ConstantsOK DEF UnsentIsNew
<1>7. TypeOK'
  BY <1>1, <1>3, <1>4 DEF TypeOK, Upload
<1>8. UnsentIsNew' /\ RowsWereSent' /\ AtMostOnce'
  BY <1>3, <1>5, <1>6 DEF Upload, UnsentIsNew, RowsWereSent, AtMostOnce, TypeOK
<1>9. \A q \in Requests : serving[q] # Idle =>
        serving[q].upload \in Uploads /\ serving[q].upload # u
  BY <1>6 DEF ServedWereSent, TypeOK, InService
<1>10. \A q \in Requests : serving[q].stage \in Stage => serving[q] # Idle
  BY InServiceIsTyped
<1>11. ServedWereSent'
  BY <1>3, <1>5, <1>9 DEF ServedWereSent
<1>12. StampsNotTooEarly'
  BY <1>2, <1>3, <1>5, ConstantsOK DEF StampsNotTooEarly
<1>13. RowsLastLongEnough'
  BY <1>3, <1>5, <1>6 DEF RowsLastLongEnough, Retained, TypeOK, NonceRow
<1>14. RecentlyInWindow'
  BY <1>3, <1>5, <1>9, <1>10 DEF RecentlyInWindow, Entering, Stage
<1>15. PendingIsAlone' /\ AnsweredIsStored'
  BY <1>3 DEF PendingIsAlone, AnsweredIsStored
<1>16. Remembered'
  <2>1. rows[u] = 0 /\ \A q \in Requests : serving[q].stage \in Pending => serving[q].upload # u
    BY <1>6, <1>9, <1>10 DEF RowsWereSent, TypeOK, Pending, Stage
  <2>. QED
    BY <1>3, <1>5, <2>1 DEF Remembered, Used, Retained
<1>. QED
  BY <1>7, <1>8, <1>11, <1>12, <1>13, <1>14, <1>15, <1>16

\* A copy that reaches the API was in the window when it did.
LEMMA ArrivePreserves ==
  ASSUME IInv, NEW r \in Requests, NEW u \in Uploads, Arrive(r, u)
  PROVE  IInv'
<1>. USE DEF IInv
<1>1. /\ wire[u] # None
      /\ now.s - wire[u].timestamp <= Skew
      /\ UNCHANGED <<now, paired, wire, bench, nonces, rows>>
  BY DEF Arrive, InWindow
<1>2. [upload |-> u, stage |-> "lookup", at |-> now] \in InService
  BY DEF InService, Stage, TypeOK
<1>3. /\ serving' \in [Requests -> InService \cup {Idle}]
      /\ serving'[r] = [upload |-> u, stage |-> "lookup", at |-> now]
      /\ \A q \in Requests \ {r} : serving'[q] = serving[q]
  BY <1>2 DEF Arrive, TypeOK
<1>4. TypeOK'
  BY <1>1, <1>3 DEF TypeOK
<1>5. UnsentIsNew' /\ ServedWereSent' /\ RowsWereSent' /\ StampsNotTooEarly' /\ RowsLastLongEnough'
  BY <1>1, <1>3
     DEF UnsentIsNew, ServedWereSent, RowsWereSent, StampsNotTooEarly, RowsLastLongEnough, Retained
<1>6. RecentlyInWindow'
  <2>1. now.s \in Nat /\ now.s <= now.s + Stall
    BY ConstantsOK DEF TypeOK, Instant
  <2>. QED
    BY <1>1, <1>3, <2>1 DEF RecentlyInWindow
<1>7. PendingIsAlone' /\ AnsweredIsStored' /\ Remembered' /\ AtMostOnce'
  BY <1>1, <1>3
     DEF PendingIsAlone, AnsweredIsStored, Pending, Remembered, Used, Retained, AtMostOnce
<1>. QED
  BY <1>4, <1>5, <1>6, <1>7

\* Housekeeping deletes only rows whose upload can no longer be admitted.
LEMMA PruneNoncesPreserves ==
  ASSUME IInv, PruneNonces
  PROVE  IInv'
<1>. USE DEF IInv
<1>1. UNCHANGED <<now, paired, wire, bench, serving, rows>>
  BY DEF PruneNonces
<1>2. nonces' \subseteq nonces
  BY DEF PruneNonces
<1>3. \A row \in nonces : row \notin nonces' => row.expiresAt.s <= now.s
  BY DEF PruneNonces, Before, TypeOK, NonceRow, Instant
<1>4. TypeOK' /\ UnsentIsNew' /\ ServedWereSent' /\ RowsWereSent' /\ StampsNotTooEarly'
      /\ RowsLastLongEnough' /\ RecentlyInWindow' /\ PendingIsAlone' /\ AnsweredIsStored'
      /\ AtMostOnce'
  BY <1>1, <1>2 DEF TypeOK, UnsentIsNew, ServedWereSent, RowsWereSent, StampsNotTooEarly,
     RowsLastLongEnough, RecentlyInWindow, PendingIsAlone, AnsweredIsStored, AtMostOnce, Retained
<1>5. Remembered'
  <2>1. \A v \in Uploads : Used(v) => Used(v)' \/ now.s >= Retained(v)
    <3> SUFFICES ASSUME NEW v \in Uploads, NEW row \in nonces, row.nonce = v, row \notin nonces'
                 PROVE  now.s >= Retained(v)
      BY DEF Used
    <3>1. row.expiresAt.s >= Retained(v) /\ row.expiresAt.s \in Nat
      BY DEF RowsLastLongEnough, TypeOK, NonceRow, Instant
    <3>2. wire[v] # None /\ wire[v].timestamp \in Int
      BY DEF RowsLastLongEnough, TypeOK, SignedRequest
    <3>. QED
      BY <1>3, <3>1, <3>2, ConstantsOK DEF Retained, TypeOK, Instant
  <2>. QED
    BY <1>1, <2>1 DEF Remembered, Retained
<1>. QED
  BY <1>4, <1>5

\* Time only widens what the invariant asks of the clock.
LEMMA TickPreserves ==
  ASSUME IInv, Tick
  PROVE  IInv'
<1>. USE DEF IInv
<1>1. UNCHANGED <<paired, wire, bench, nonces, serving, rows>> /\ now' = Tomorrow
  BY DEF Tick
<1>2. now' \in Instant /\ now'.s \in Nat /\ now.s \in Nat /\ now.s <= now'.s
  BY <1>1, ConstantsOK DEF Tomorrow, TypeOK, Instant
<1>3. TypeOK' /\ UnsentIsNew' /\ ServedWereSent' /\ RowsWereSent' /\ RowsLastLongEnough'
      /\ PendingIsAlone' /\ AnsweredIsStored' /\ AtMostOnce'
  BY <1>1, <1>2 DEF TypeOK, UnsentIsNew, ServedWereSent, RowsWereSent, RowsLastLongEnough,
     PendingIsAlone, AnsweredIsStored, AtMostOnce, Retained
<1>4. \A v \in Uploads : wire[v] # None => wire[v].timestamp \in Int
  BY DEF TypeOK, SignedRequest
<1>5. StampsNotTooEarly'
  BY <1>1, <1>2, <1>4, ConstantsOK DEF StampsNotTooEarly
<1>6. RecentlyInWindow'
  BY <1>1 DEF RecentlyInWindow, Entering, Tick
<1>7. Remembered'
  <2>1. \A v \in Uploads : rows[v] > 0 => wire[v] # None
    BY DEF RowsWereSent
  <2>2. \A q \in Requests : serving[q].stage \in Pending => wire[serving[q].upload] # None
    BY InServiceIsTyped DEF Pending, Stage, ServedWereSent
  <2>. QED
    BY <1>1, <1>2, <1>4, <2>1, <2>2, ConstantsOK DEF Remembered, Used, Retained
<1>. QED
  BY <1>3, <1>5, <1>6, <1>7

\* Nothing the invariant says depends on revocation or on a lost connection.
LEMMA RevokePreserves ==
  ASSUME IInv, NEW b \in Bridges, Revoke(b)
  PROVE  IInv'
BY DEF IInv, Revoke, TypeOK, UnsentIsNew, ServedWereSent, RowsWereSent, StampsNotTooEarly,
       RowsLastLongEnough, RecentlyInWindow, PendingIsAlone, AnsweredIsStored, Remembered,
       AtMostOnce, Retained, Used

LEMMA ConnectionLostPreserves ==
  ASSUME IInv, NEW u \in Uploads, ConnectionLost(u)
  PROVE  IInv'
<1>1. /\ bench' \in [Uploads -> {"unsent", "waiting", "uploaded", "notUploaded"}]
      /\ \A v \in Uploads : bench'[v] = "unsent" => bench[v] = "unsent"
  BY DEF IInv, TypeOK, ConnectionLost
<1>2. UNCHANGED <<now, paired, wire, nonces, serving, rows>>
  BY DEF ConnectionLost
<1>. QED
  BY <1>1, <1>2
     DEF IInv, TypeOK, UnsentIsNew, ServedWereSent, RowsWereSent, StampsNotTooEarly,
         RowsLastLongEnough, RecentlyInWindow, PendingIsAlone, AnsweredIsStored, Remembered,
         AtMostOnce, Retained, Used

LEMMA StutterPreserves ==
  ASSUME IInv, UNCHANGED vars
  PROVE  IInv'
BY DEF vars, IInv, TypeOK, UnsentIsNew, ServedWereSent, RowsWereSent, StampsNotTooEarly,
       RowsLastLongEnough, RecentlyInWindow, PendingIsAlone, AnsweredIsStored, Remembered,
       AtMostOnce, Retained, Used

LEMMA InitEstablishes == Init => IInv
<1>. SUFFICES ASSUME Init PROVE IInv
  OBVIOUS
<1>1. TypeOK
  BY ConstantsOK DEF Init, TypeOK, Instant
<1>. QED
  BY <1>1 DEF Init, IInv, UnsentIsNew, ServedWereSent, RowsWereSent, StampsNotTooEarly,
     RowsLastLongEnough, RecentlyInWindow, PendingIsAlone, AnsweredIsStored, Remembered,
     AtMostOnce, Idle, Entering, Pending

LEMMA NextPreserves ==
  ASSUME ClockMargin, IInv, [Next]_vars
  PROVE  IInv'
<1>1. ASSUME NEW u \in Uploads, NEW b \in Bridges, Upload(u, b) PROVE IInv'
  BY <1>1, UploadPreserves
<1>2. ASSUME NEW u \in Uploads, ConnectionLost(u) PROVE IInv'
  BY <1>2, ConnectionLostPreserves
<1>3. ASSUME NEW r \in Requests, NEW u \in Uploads, Arrive(r, u) PROVE IInv'
  BY <1>3, ArrivePreserves
<1>4. ASSUME NEW r \in Requests, Lookup(r) PROVE IInv'
  BY <1>4, LookupPreserves
<1>5. ASSUME NEW r \in Requests, InsertNonce(r) PROVE IInv'
  BY <1>5, InsertNoncePreserves
<1>6. ASSUME NEW r \in Requests, Touch(r) PROVE IInv'
  BY <1>6, TouchPreserves
<1>7. ASSUME NEW r \in Requests, Ingest(r) PROVE IInv'
  BY <1>7, IngestPreserves
<1>8. ASSUME NEW r \in Requests, Respond(r) PROVE IInv'
  BY <1>8, EndingPreserves DEF Respond, Stage
<1>9. ASSUME NEW r \in Requests, Abort(r) PROVE IInv'
  <2>1. serving[r].stage \in Stage
    BY <1>9 DEF Abort, IInv, TypeOK, InService
  <2>. QED
    BY <1>9, <2>1, EndingPreserves DEF Abort
<1>10. ASSUME NEW b \in Bridges, Revoke(b) PROVE IInv'
  BY <1>10, RevokePreserves
<1>. QED
  BY <1>1, <1>2, <1>3, <1>4, <1>5, <1>6, <1>7, <1>8, <1>9, <1>10,
     PruneNoncesPreserves, TickPreserves, StutterPreserves DEF Next

-----------------------------------------------------------------------------
(***************************************************************************)
(* What needs no clock margin: the types, what a bench is told, revocation *)
(***************************************************************************)

BaseInv ==
  /\ TypeOK
  /\ UnsentIsNew
  /\ ServedWereSent
  /\ AnsweredIsStored
  /\ UploadedIsStored

LEMMA InitIsBase == Init => BaseInv
BY InitEstablishes DEF IInv, BaseInv, Init, UploadedIsStored

\* The answer "uploaded" leaves only from the stage after the write.
LEMMA AnswerKeepsBase ==
  ASSUME BaseInv, NEW r \in Requests, serving[r].stage \in Stage,
         NEW ok \in BOOLEAN, Answer(r, ok), UNCHANGED <<now, paired, wire, rows>>,
         nonces' \subseteq nonces, ok => rows[serving[r].upload] > 0
  PROVE  BaseInv'
<1>. USE DEF BaseInv
<1>1. /\ serving' \in [Requests -> InService \cup {Idle}]
      /\ serving'[r] = Idle
      /\ \A q \in Requests \ {r} : serving'[q] = serving[q]
      /\ bench' \in [Uploads -> {"unsent", "waiting", "uploaded", "notUploaded"}]
      /\ \A v \in Uploads : bench'[v] = "unsent" => bench[v] = "unsent"
  BY AnswerIsTyped
<1>2. TypeOK' /\ UnsentIsNew' /\ ServedWereSent'
  BY <1>1 DEF TypeOK, UnsentIsNew, ServedWereSent
<1>3. AnsweredIsStored'
  BY <1>1 DEF AnsweredIsStored, Idle
<1>4. UploadedIsStored'
  <2>1. serving[r].upload \in Uploads
    BY InServiceIsTyped DEF InService
  <2>2. bench' = bench \/ bench' = [bench EXCEPT ![serving[r].upload] =
                                      IF ok THEN "uploaded" ELSE "notUploaded"]
    BY DEF Answer
  <2>. QED
    BY <2>1, <2>2 DEF TypeOK, UploadedIsStored
<1>. QED
  BY <1>2, <1>3, <1>4

\* Moving on to any stage but the answer disturbs nothing.
LEMMA AdvanceKeepsBase ==
  ASSUME BaseInv, NEW r \in Requests, serving[r].stage \in Stage,
         NEW stage \in Stage \ {"answer"}, Advance(r, stage),
         UNCHANGED <<now, paired, wire, bench, rows>>, nonces' \subseteq NonceRow
  PROVE  BaseInv'
<1>1. /\ serving' \in [Requests -> InService \cup {Idle}]
      /\ serving'[r] = [upload |-> serving[r].upload, stage |-> stage, at |-> serving[r].at]
      /\ \A q \in Requests \ {r} : serving'[q] = serving[q]
  BY AdvanceIsTyped DEF BaseInv
<1>2. serving[r] # Idle
  BY InServiceIsTyped DEF BaseInv
<1>. QED
  BY <1>1, <1>2
     DEF BaseInv, TypeOK, UnsentIsNew, ServedWereSent, AnsweredIsStored, UploadedIsStored

LEMMA NextKeepsBase ==
  ASSUME BaseInv, [Next]_vars
  PROVE  BaseInv'
<1>. USE DEF BaseInv
<1>. DEFINE Keeps == BaseInv'
<1>1. ASSUME NEW u \in Uploads, NEW b \in Bridges, Upload(u, b) PROVE Keeps
  <2>1. PICK drift \in (0 - Behind)..Ahead :
          wire' = [wire EXCEPT ![u] = [bridge |-> b, timestamp |-> now.s + drift]]
    BY <1>1 DEF Upload
  <2>2. [bridge |-> b, timestamp |-> now.s + drift] \in SignedRequest
    BY ConstantsOK DEF TypeOK, Instant, SignedRequest
  <2>3. [bridge |-> b, timestamp |-> now.s + drift] # None
    BY <2>2, ConstantsOK
  <2>4. TypeOK' /\ UnsentIsNew' /\ ServedWereSent'
    BY <1>1, <2>1, <2>2, <2>3 DEF Upload, TypeOK, UnsentIsNew, ServedWereSent
  <2>. QED
    BY <1>1, <2>4 DEF Upload, TypeOK, AnsweredIsStored, UploadedIsStored
<1>2. ASSUME NEW u \in Uploads, ConnectionLost(u) PROVE Keeps
  BY <1>2 DEF ConnectionLost, TypeOK, UnsentIsNew, ServedWereSent, AnsweredIsStored,
     UploadedIsStored
<1>3. ASSUME NEW r \in Requests, NEW u \in Uploads, Arrive(r, u) PROVE Keeps
  <2>1. [upload |-> u, stage |-> "lookup", at |-> now] \in InService
    BY DEF InService, Stage, TypeOK
  <2>. QED
    BY <1>3, <2>1 DEF Arrive, TypeOK, UnsentIsNew, ServedWereSent, AnsweredIsStored,
       UploadedIsStored
<1>4. ASSUME NEW r \in Requests, Lookup(r) PROVE Keeps
  BY <1>4, AnswerKeepsBase, AdvanceKeepsBase DEF Lookup, Stage, TypeOK
<1>5. ASSUME NEW r \in Requests, InsertNonce(r) PROVE Keeps
  <2>1. serving[r].upload \in Uploads
    BY <1>5, InServiceIsTyped DEF InService, InsertNonce, Stage
  <2>2. Retention(serving[r].upload) \in NonceRow
    BY <2>1, ConstantsOK DEF Retention, NonceRow, Instant, TypeOK
  <2>. QED
    BY <1>5, <2>2, AnswerKeepsBase, AdvanceKeepsBase DEF InsertNonce, Stage, TypeOK
<1>6. ASSUME NEW r \in Requests, Touch(r) PROVE Keeps
  BY <1>6, AdvanceKeepsBase DEF Touch, Stage, TypeOK
<1>7. ASSUME NEW r \in Requests, Ingest(r) PROVE Keeps
  <2>1. /\ serving[r].upload \in Uploads
        /\ serving[r] # Idle /\ serving[r].stage \in Stage
    BY <1>7, InServiceIsTyped DEF InService, Ingest, Stage
  <2>2. /\ serving' \in [Requests -> InService \cup {Idle}]
        /\ serving'[r] = [upload |-> serving[r].upload, stage |-> "answer", at |-> serving[r].at]
        /\ \A q \in Requests \ {r} : serving'[q] = serving[q]
    BY <1>7, <2>1, AdvanceIsTyped DEF Ingest, Stage
  <2>3. /\ rows' \in [Uploads -> Nat]
        /\ rows'[serving[r].upload] > 0
        /\ \A v \in Uploads : rows[v] > 0 => rows'[v] > 0
    BY <1>7, <2>1 DEF Ingest, TypeOK
  <2>4. TypeOK' /\ UnsentIsNew' /\ ServedWereSent' /\ UploadedIsStored'
    BY <1>7, <2>1, <2>2, <2>3
       DEF Ingest, TypeOK, UnsentIsNew, ServedWereSent, UploadedIsStored
  <2>5. \A q \in Requests : serving[q].stage = "answer" => serving[q].upload \in Uploads
    BY InServiceIsTyped DEF Stage, InService
  <2>6. AnsweredIsStored'
    BY <2>2, <2>3, <2>5 DEF AnsweredIsStored
  <2>. QED
    BY <2>4, <2>6
<1>8. ASSUME NEW r \in Requests, Respond(r) PROVE Keeps
  BY <1>8, AnswerKeepsBase DEF Respond, Stage, AnsweredIsStored
<1>9. ASSUME NEW r \in Requests, Abort(r) PROVE Keeps
  <2>1. serving[r].stage \in Stage
    BY <1>9 DEF Abort, TypeOK, InService
  <2>. QED
    BY <1>9, <2>1, AnswerKeepsBase DEF Abort
<1>10. CASE Tick
  <2>1. now' \in Instant
    BY <1>10, ConstantsOK DEF Tick, Tomorrow, TypeOK, Instant
  <2>. QED
    BY <1>10, <2>1
       DEF Tick, TypeOK, UnsentIsNew, ServedWereSent, AnsweredIsStored, UploadedIsStored
<1>11. CASE (\E b \in Bridges : Revoke(b)) \/ PruneNonces \/ UNCHANGED vars
  BY <1>11 DEF Revoke, PruneNonces, vars, TypeOK, UnsentIsNew, ServedWereSent,
     AnsweredIsStored, UploadedIsStored
<1>. QED
  BY <1>1, <1>2, <1>3, <1>4, <1>5, <1>6, <1>7, <1>8, <1>9, <1>10, <1>11 DEF Next

\* Only an ingest writes a row, and a drained bench has no request that far.
LEMMA DrainedStep ==
  ASSUME BaseInv, BaseInv', [Next]_vars
  PROVE  StaysDrained
<1>. SUFFICES ASSUME NEW b \in Bridges, Drained(b)
              PROVE  /\ Drained(b)'
                     /\ \A u \in Uploads : wire[u] # None /\ wire[u].bridge = b
                          => rows'[u] = rows[u]
  BY DEF StaysDrained
<1>. DEFINE Mine(r) == serving[r] # Idle /\ wire[serving[r].upload].bridge = b
<1>1. ~ paired[b] /\ \A r \in Requests : Mine(r) => serving[r].stage = "lookup"
  BY DEF Drained
<1>2. ~ paired'[b]
  BY <1>1 DEF BaseInv, TypeOK, Next, vars, Upload, ConnectionLost, Arrive, Lookup, InsertNonce,
     Touch, Ingest, Respond, Abort, Revoke, PruneNonces, Tick
<1>3. ASSUME NEW r \in Requests, Ingest(r)
      PROVE  \A u \in Uploads : wire[u].bridge = b => rows'[u] = rows[u]
  <2>1. serving[r] # Idle /\ serving[r].upload \in Uploads
    BY <1>3, InServiceIsTyped DEF BaseInv, Ingest, Stage, InService
  <2>2. wire[serving[r].upload].bridge # b
    BY <1>1, <1>3, <2>1 DEF Ingest
  <2>. QED
    BY <1>3, <2>1, <2>2 DEF Ingest, BaseInv, TypeOK
<1>4. \A u \in Uploads : wire[u] # None /\ wire[u].bridge = b => rows'[u] = rows[u]
  BY <1>3 DEF Next, vars, Upload, ConnectionLost, Arrive, Lookup, InsertNonce, Touch, Respond,
     Abort, Revoke, PruneNonces, Tick
<1>5. \A r \in Requests : serving'[r] # Idle /\ wire'[serving'[r].upload].bridge = b
        => serving'[r].stage = "lookup"
  <2>. DEFINE Kept == \A r \in Requests :
                        serving'[r] # Idle /\ wire'[serving'[r].upload].bridge = b
                          => serving'[r].stage = "lookup"
  <2>1. ASSUME NEW r \in Requests, serving[r].stage \in Stage, NEW ok \in BOOLEAN, Answer(r, ok),
               UNCHANGED wire
        PROVE  Kept
    <3>1. serving'[r] = Idle /\ \A q \in Requests \ {r} : serving'[q] = serving[q]
      BY <2>1, AnswerIsTyped DEF BaseInv
    <3>. QED
      BY <1>1, <2>1, <3>1
  <2>2. ASSUME NEW r \in Requests, serving[r].stage \in Stage, NEW stage \in Stage,
               Advance(r, stage), ~ Mine(r), UNCHANGED wire
        PROVE  Kept
    <3>1. /\ serving'[r].upload = serving[r].upload
          /\ \A q \in Requests \ {r} : serving'[q] = serving[q]
      <4>1. TypeOK
        BY DEF BaseInv
      <4>2. serving'[r] = [upload |-> serving[r].upload, stage |-> stage, at |-> serving[r].at]
            /\ \A q \in Requests \ {r} : serving'[q] = serving[q]
        BY <2>2, <4>1, AdvanceIsTyped
      <4>. QED
        BY <4>2
    <3>2. serving[r] # Idle
      BY <2>2, InServiceIsTyped DEF BaseInv
    <3>. QED
      BY <1>1, <2>2, <3>1, <3>2
  <2>3. ASSUME NEW u \in Uploads, NEW c \in Bridges, Upload(u, c) PROVE Kept
    <3>1. UNCHANGED serving /\ wire[u] = None
      BY <2>3 DEF Upload, BaseInv, UnsentIsNew
    <3>2. \A v \in Uploads : v # u => wire'[v] = wire[v]
      BY <2>3 DEF Upload, BaseInv, TypeOK
    <3>3. \A r \in Requests : serving[r] # Idle =>
            serving[r].upload \in Uploads /\ serving[r].upload # u
      BY <3>1 DEF BaseInv, ServedWereSent, TypeOK, InService
    <3>. QED
      BY <1>1, <3>1, <3>2, <3>3
  <2>4. ASSUME NEW r \in Requests, NEW u \in Uploads, Arrive(r, u) PROVE Kept
    <3>1. /\ serving'[r].stage = "lookup"
          /\ UNCHANGED wire
          /\ \A q \in Requests \ {r} : serving'[q] = serving[q]
      BY <2>4 DEF Arrive, BaseInv, TypeOK
    <3>. QED
      BY <1>1, <3>1
  <2>5. ASSUME NEW r \in Requests, Lookup(r) PROVE Kept
    <3>1. serving[r] # Idle /\ serving[r].stage \in Stage
      BY <2>5, InServiceIsTyped DEF BaseInv, Lookup, Stage
    <3>2. Mine(r) => ~ paired[wire[serving[r].upload].bridge]
      BY <1>1
    <3>. QED
      BY <2>1, <2>2, <2>5, <3>1, <3>2 DEF Lookup, Stage
  <2>6. ASSUME NEW r \in Requests, InsertNonce(r) \/ Touch(r) \/ Ingest(r) PROVE Kept
    <3>1. serving[r].stage \in Stage \ {"lookup"} /\ UNCHANGED wire
      BY <2>6 DEF InsertNonce, Touch, Ingest, Stage
    <3>2. ~ Mine(r)
      BY <1>1, <3>1
    <3>. QED
      BY <2>1, <2>2, <2>6, <3>1, <3>2 DEF InsertNonce, Touch, Ingest, Stage
  <2>7. ASSUME NEW r \in Requests, Respond(r) PROVE Kept
    BY <2>1, <2>7 DEF Respond, Stage
  <2>8. ASSUME NEW r \in Requests, Abort(r) PROVE Kept
    <3>1. serving[r].stage \in Stage
      BY <2>8 DEF Abort, BaseInv, TypeOK, InService
    <3>. QED
      BY <2>1, <2>8, <3>1 DEF Abort
  <2>9. CASE UNCHANGED <<serving, wire>>
    BY <1>1, <2>9
  <2>. QED
    BY <2>3, <2>4, <2>5, <2>6, <2>7, <2>8, <2>9
       DEF Next, vars, ConnectionLost, Revoke, PruneNonces, Tick
<1>. QED
  BY <1>2, <1>4, <1>5 DEF Drained

-----------------------------------------------------------------------------
(***************************************************************************)
(* The refinement                                                          *)
(***************************************************************************)

LEMMA InitRefines == Init => Promise!Init
BY DEF Init, Promise!Init

\* Answering a request is Confirm, GiveUp or no step of the promise.
LEMMA AnswerRefines ==
  ASSUME IInv, NEW r \in Requests, serving[r].stage \in Stage,
         NEW ok \in BOOLEAN, Answer(r, ok), UNCHANGED rows,
         ok => rows[serving[r].upload] > 0
  PROVE  [Promise!Next]_(Promise!pvars)
<1>. DEFINE u == serving[r].upload
<1>1. u \in Uploads
  BY InServiceIsTyped DEF IInv, InService
<1>2. CASE UNCHANGED bench
  BY <1>2 DEF Promise!pvars
<1>3. CASE /\ bench[u] = "waiting"
           /\ bench' = [bench EXCEPT ![u] = IF ok THEN "uploaded" ELSE "notUploaded"]
  <2>1. CASE ok
    <3>1. rows[u] = 1
      BY <1>1, <2>1 DEF IInv, TypeOK, AtMostOnce
    <3>2. Promise!Confirm(u)
      BY <1>3, <2>1, <3>1 DEF Promise!Confirm
    <3>. QED
      BY <1>1, <3>2 DEF Promise!Next
  <2>2. CASE ~ ok
    <3>1. Promise!GiveUp(u)
      BY <1>3, <2>2 DEF Promise!GiveUp
    <3>. QED
      BY <1>1, <3>1 DEF Promise!Next
  <2>. QED
    BY <2>1, <2>2
<1>. QED
  BY <1>2, <1>3 DEF Answer

LEMMA NextRefines ==
  ASSUME IInv, IInv', [Next]_vars
  PROVE  [Promise!Next]_(Promise!pvars)
<1>1. ASSUME UNCHANGED <<bench, rows>> PROVE [Promise!Next]_(Promise!pvars)
  BY <1>1 DEF Promise!pvars
<1>2. ASSUME NEW u \in Uploads, NEW b \in Bridges, Upload(u, b)
      PROVE  [Promise!Next]_(Promise!pvars)
  <2>1. Promise!Send(u)
    BY <1>2 DEF Upload, Promise!Send
  <2>. QED
    BY <2>1 DEF Promise!Next
<1>3. ASSUME NEW u \in Uploads, ConnectionLost(u) PROVE [Promise!Next]_(Promise!pvars)
  <2>1. Promise!GiveUp(u)
    BY <1>3 DEF ConnectionLost, Promise!GiveUp
  <2>. QED
    BY <2>1 DEF Promise!Next
<1>4. ASSUME NEW r \in Requests, Lookup(r) PROVE [Promise!Next]_(Promise!pvars)
  BY <1>1, <1>4, AnswerRefines DEF Lookup, Stage
<1>5. ASSUME NEW r \in Requests, InsertNonce(r) PROVE [Promise!Next]_(Promise!pvars)
  BY <1>1, <1>5, AnswerRefines DEF InsertNonce, Stage
<1>6. ASSUME NEW r \in Requests, Ingest(r) PROVE [Promise!Next]_(Promise!pvars)
  <2>. DEFINE u == serving[r].upload
  <2>1. UNCHANGED bench /\ rows' = [rows EXCEPT ![u] = @ + 1]
    BY <1>6 DEF Ingest
  <2>2. u \in Uploads /\ serving[r] # Idle
    BY <1>6, InServiceIsTyped DEF IInv, InService, Ingest, Stage
  <2>3. rows[u] = 0
    BY <1>6 DEF IInv, PendingIsAlone, Pending, Ingest
  <2>4. bench[u] # "unsent"
    BY <2>2 DEF IInv, ServedWereSent, UnsentIsNew
  <2>5. rows' = [rows EXCEPT ![u] = 1]
    BY <2>1, <2>3
  <2>6. Promise!Record(u)
    BY <2>1, <2>3, <2>4, <2>5 DEF Promise!Record
  <2>. QED
    BY <2>2, <2>6 DEF Promise!Next
<1>7. ASSUME NEW r \in Requests, Respond(r) PROVE [Promise!Next]_(Promise!pvars)
  BY <1>7, AnswerRefines DEF Respond, Stage, IInv, AnsweredIsStored
<1>8. ASSUME NEW r \in Requests, Abort(r) PROVE [Promise!Next]_(Promise!pvars)
  <2>1. serving[r].stage \in Stage
    BY <1>8 DEF Abort, IInv, TypeOK, InService
  <2>. QED
    BY <1>8, <2>1, AnswerRefines DEF Abort
<1>9. ASSUME \/ \E r \in Requests, u \in Uploads : Arrive(r, u)
             \/ \E r \in Requests : Touch(r)
             \/ \E b \in Bridges : Revoke(b)
             \/ PruneNonces \/ Tick \/ UNCHANGED vars
      PROVE  [Promise!Next]_(Promise!pvars)
  BY <1>1, <1>9 DEF Arrive, Touch, Revoke, PruneNonces, Tick, vars
<1>. QED
  BY <1>2, <1>3, <1>4, <1>5, <1>6, <1>7, <1>8, <1>9 DEF Next

-----------------------------------------------------------------------------
(***************************************************************************)
(* The theorems                                                            *)
(***************************************************************************)

\* The invariant holds in every reachable state of every instance with the
\* clock margin.
THEOREM InductiveInvariant == ClockMargin => (Spec => []IInv)
<1>. SUFFICES ASSUME ClockMargin PROVE Spec => []IInv
  OBVIOUS
<1>1. Init => IInv
  BY InitEstablishes
<1>2. IInv /\ [Next]_vars => IInv'
  BY NextPreserves
<1>. QED
  BY <1>1, <1>2, PTL DEF Spec

\* What needs no clock margin holds in every reachable state of every instance.
THEOREM BaseInvariant == Spec => []BaseInv
<1>1. Init => BaseInv
  BY InitIsBase
<1>2. BaseInv /\ [Next]_vars => BaseInv'
  BY NextKeepsBase
<1>. QED
  BY <1>1, <1>2, PTL DEF Spec

\* Every variable keeps its type.
THEOREM TypeCorrect == Spec => []TypeOK
<1>1. BaseInv => TypeOK
  BY DEF BaseInv
<1>. QED
  BY <1>1, BaseInvariant, PTL

\* A bench that is told "uploaded" has its inspection stored.
THEOREM UploadedMeansStored == Spec => []UploadedIsStored
<1>1. BaseInv => UploadedIsStored
  BY DEF BaseInv
<1>. QED
  BY <1>1, BaseInvariant, PTL

\* After revocation the requests in service drain and nothing more is stored.
THEOREM RevocationDrains == Spec => RevocationIsFinal
<1>1. BaseInv /\ BaseInv' /\ [Next]_vars => StaysDrained
  BY DrainedStep
<1>. QED
  BY <1>1, BaseInvariant, PTL DEF Spec, RevocationIsFinal

\* No delivery order, duplication, housekeeping or crash stores an upload twice.
THEOREM StoredAtMostOnce == ClockMargin => (Spec => []AtMostOnce)
<1>1. IInv => AtMostOnce
  BY DEF IInv
<1>. QED
  BY <1>1, InductiveInvariant, PTL

\* While a copy of an admitted request could still be let in, its nonce is kept.
THEOREM NonceIsKept == ClockMargin => (Spec => []NonceOutlivesWindow)
<1>. SUFFICES ASSUME ClockMargin PROVE Spec => []NonceOutlivesWindow
  OBVIOUS
<1>1. IInv => NonceOutlivesWindow
  <2>. SUFFICES ASSUME IInv, NEW u \in Uploads, WasAdmitted(u),
                       \/ InWindow(wire[u].timestamp)
                       \/ \E r \in Requests : /\ serving[r].upload = u
                                              /\ serving[r].stage \in {"lookup", "nonce"}
                PROVE  Used(u)
    BY DEF NonceOutlivesWindow
  <2>1. \/ rows[u] > 0
        \/ \E r \in Requests : serving[r].upload = u /\ serving[r].stage \in Pending
    BY DEF WasAdmitted, InFlight, Admitted, Pending, IInv, AnsweredIsStored
  <2>2. wire[u] # None
    <3>1. \A r \in Requests : serving[r].stage \in Pending => serving[r] # Idle
      BY InServiceIsTyped DEF IInv, Pending, Stage
    <3>. QED
      BY <2>1, <3>1 DEF IInv, RowsWereSent, ServedWereSent
  <2>3. wire[u].timestamp \in Int /\ now.s \in Nat
    BY <2>2 DEF IInv, TypeOK, SignedRequest, Instant
  <2>4. CASE InWindow(wire[u].timestamp)
    BY <2>1, <2>3, <2>4, ConstantsOK
       DEF InWindow, IInv, Remembered, Retained, ClockMargin
  <2>5. ASSUME NEW r \in Requests, serving[r].upload = u, serving[r].stage \in Entering
        PROVE  Used(u)
    <3>1. serving[r].at.s \in Nat
      BY <2>5, InServiceIsTyped DEF IInv, InService, Instant, Entering, Stage
    <3>2. serving[r].at.s - wire[u].timestamp <= Skew /\ now.s <= serving[r].at.s + Stall
      BY <2>5 DEF IInv, RecentlyInWindow
    <3>. QED
      BY <2>1, <2>3, <3>1, <3>2, ConstantsOK DEF IInv, Remembered, Retained, ClockMargin
  <2>. QED
    BY <2>4, <2>5 DEF Entering
<1>. QED
  BY <1>1, InductiveInvariant, PTL

\* The guard, the nonce table, the housekeeping and the network implement the
\* promise that an upload is stored at most once and confirmed only if stored.
THEOREM IngestKeepsPromise == ClockMargin => (Spec => KeepsPromise)
<1>. SUFFICES ASSUME ClockMargin PROVE Spec => KeepsPromise
  OBVIOUS
<1>1. Init => Promise!Init
  BY InitRefines
<1>2. IInv /\ IInv' /\ [Next]_vars => [Promise!Next]_(Promise!pvars)
  BY NextRefines
<1>. QED
  BY <1>1, <1>2, InductiveInvariant, PTL DEF Spec, KeepsPromise, Promise!Spec
=============================================================================
