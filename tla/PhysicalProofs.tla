-------------------------- MODULE PhysicalProofs --------------------------
(***************************************************************************)
(* What a physical report judges, prices and grades, for any pictures,     *)
(* sightings and benchmarks.                                               *)
(*                                                                         *)
(* Two inductive invariants.  IInv says what the ledger of an inspection   *)
(* is made of - one record for every surface of every picture, and         *)
(* detections that an accepted picture shows - and that the report         *)
(* evaluates that ledger under some table: from it follows which surfaces  *)
(* are judged, and what is priced.  Typed says what the numbers are: the   *)
(* ledger is finite, its ids tell its records apart, and every figure is a *)
(* share: from it follow the score, the gates, the grade and the audit.    *)
(***************************************************************************)
EXTENDS Physical, ConfidenceProofs

\* The views of the plan show surfaces of the handset.
LEMMA ViewsShowSurfaces ==
  ASSUME NEW v \in CaptureView
  PROVE  viewSpec[v].surfaces \subseteq Surface
<1>1. /\ {"FRONT_GLASS", "FRAME", "FRONT_CAMERA"} \subseteq Surface
      /\ {"REAR_GLASS", "FRAME", "REAR_CAMERA"} \subseteq Surface
      /\ Frame \subseteq Surface /\ Bosses \subseteq Surface /\ RearLens \subseteq Surface
      /\ Panel \subseteq Surface /\ {"FRONT_GLASS"} \subseteq Surface
  BY DEF Surface, Frame, Bosses, RearLens, Panel
<1>2. v \in {"FRONT", "BACK", "LEFT_EDGE", "RIGHT_EDGE", "TOP_EDGE", "BOTTOM_EDGE", "CAMERA_MODULE",
             "DISPLAY_ON", "DISPLAY_OFF", "CLOSE_UP"}
  BY DEF CaptureView, viewSpec
<1> HIDE DEF Surface, Frame, Bosses, RearLens, Panel
<1> QED
  BY <1>1, <1>2 DEF viewSpec, View

\* What an accepted picture can have shown.
Attributed(r) ==
  /\ r.raw.class \in DEFECT_CLASS_IDS
  /\ r.raw.surface \in DEFECT_CLASSES[r.raw.class].surfaces
  /\ r.subject = SURFACE_SUBJECT[r.raw.surface]
  /\ \E i \in AcceptedImages(images) : Shows(i, r.raw.surface)

IsCapture(r) == r.key[1] = "ViewCaptured"

LedgerInv ==
  /\ \A i \in images : \A s \in viewSpec[Pictures[i].view].surfaces :
       CaptureRecord(i, s, AcceptedImages(images)) \in ledger
  /\ \A r \in ledger : IsCapture(r) =>
       \E i \in images : \E s \in viewSpec[Pictures[i].view].surfaces :
         r = CaptureRecord(i, s, AcceptedImages(images))
  /\ \A r \in ledger : r.kind = "VISUAL_OBSERVATION" => Attributed(r)

IInv ==
  /\ images \subseteq DOMAIN Pictures
  /\ phase = "idle" => report = {}
  /\ phase = "detecting" => report = {}
  /\ report # {} => LedgerInv
  /\ phase \in {"reported", "replayed"} => LedgerInv
  /\ \A r \in report : \E cal : r = evaluatePhysical(ledger, cal)

\* The records of the captures carry the surface's part and the picture's view.
LEMMA CaptureFields ==
  ASSUME NEW i, NEW s, NEW accepted
  PROVE  LET r == CaptureRecord(i, s, accepted)
         IN  /\ r.subject = SURFACE_SUBJECT[s]
             /\ r.key = <<"ViewCaptured", Pictures[i].view>>
             /\ IsCapture(r)
             /\ i \in accepted => r.kind = "DEVICE_PROPERTY"
             /\ i \notin accepted => r.kind = "COLLECTION_FAILURE"
BY DEF CaptureRecord, Evidence, IsCapture

\* The record of a detection is no capture, and is attributed to what it names.
LEMMA DefectFields ==
  ASSUME NEW d, NEW cal
  PROVE  LET r == DefectRecord(d, cal)
         IN  /\ r.subject = SURFACE_SUBJECT[d.surface]
             /\ ~IsCapture(r)
             /\ r.raw.class = d.class /\ r.raw.surface = d.surface
BY DEF DefectRecord, Evidence, IsCapture

\* Neither is the record of a failed run.
LEMMA FailureFields ==
  ASSUME NEW failed, NEW r \in DetectorFailures(failed)
  PROVE  ~IsCapture(r) /\ r.kind = "COLLECTION_FAILURE"
<1>1. PICK i \in failed : \E s \in viewSpec[Pictures[i].view].surfaces :
        r = Evidence("COLLECTION_FAILURE", SURFACE_SUBJECT[s], <<"DetectionRun", i>>, <<"UNKNOWN", "">>,
                     "vision", 100, NoRaw)
  BY DEF DetectorFailures
<1>2. PICK s \in viewSpec[Pictures[i].view].surfaces :
        r = Evidence("COLLECTION_FAILURE", SURFACE_SUBJECT[s], <<"DetectionRun", i>>, <<"UNKNOWN", "">>,
                     "vision", 100, NoRaw)
  BY <1>1
<1>3. r.kind = "COLLECTION_FAILURE" /\ r.key = <<"DetectionRun", i>>
  BY <1>2 DEF Evidence
<1> QED
  BY <1>3 DEF IsCapture

\* What the answer of the detector is turned into satisfies the invariant.
LEMMA Collected ==
  ASSUME NEW failed, NEW found, NEW kept \in SUBSET DefectRecords(found, AcceptedImages(images), table),
         ledger' = CaptureRecords(images, AcceptedImages(images)) \cup DetectorFailures(failed) \cup kept,
         images' = images
  PROVE  LedgerInv'
<1>1. AcceptedImages(images)' = AcceptedImages(images)
  BY DEF AcceptedImages
<1>2. \A i \in images : \A s \in viewSpec[Pictures[i].view].surfaces :
        CaptureRecord(i, s, AcceptedImages(images)) \in ledger'
  BY DEF CaptureRecords
<1>3. ASSUME NEW r \in ledger', IsCapture(r)
      PROVE  \E i \in images : \E s \in viewSpec[Pictures[i].view].surfaces :
               r = CaptureRecord(i, s, AcceptedImages(images))
  <2>1. r \notin DetectorFailures(failed)
    BY <1>3, FailureFields
  <2>2. r \notin kept
    BY <1>3, DefectFields DEF DefectRecords
  <2>3. r \in CaptureRecords(images, AcceptedImages(images))
    BY <1>3, <2>1, <2>2
  <2> QED
    BY <2>3 DEF CaptureRecords
<1>4. ASSUME NEW r \in ledger', r.kind = "VISUAL_OBSERVATION"
      PROVE  Attributed(r)
  <2>1. r \notin DetectorFailures(failed)
    BY <1>4, FailureFields
  <2>2. r \notin CaptureRecords(images, AcceptedImages(images))
    BY <1>4, CaptureFields DEF CaptureRecords
  <2>3. PICK d \in found : Passes(d, AcceptedImages(images), table) /\ r = DefectRecord(d, table)
    BY <1>4, <2>1, <2>2 DEF DefectRecords
  <2>4. r.subject = SURFACE_SUBJECT[d.surface] /\ r.raw.class = d.class /\ r.raw.surface = d.surface
    BY <2>3, DefectFields
  <2>5. /\ d.class \in DEFECT_CLASS_IDS /\ d.surface \in DEFECT_CLASSES[d.class].surfaces
        /\ d.image \in AcceptedImages(images) /\ Shows(d.image, d.surface)
    BY <2>3 DEF Passes, Shows
  <2> QED
    BY <2>4, <2>5 DEF Attributed
<1> QED
  BY <1>1, <1>2, <1>3, <1>4 DEF LedgerInv, Attributed, Shows, IsCapture

\* The initial state has no report.
LEMMA InitIInv == Init => IInv
BY DEF Init, IInv

\* Every step keeps the ledger and the report it evaluates in step.
LEMMA NextIInv == IInv /\ [Next]_vars => IInv'
<1> SUFFICES ASSUME IInv, [Next]_vars PROVE IInv'
  OBVIOUS
<1> USE DEF IInv
<1>0. ASSUME UNCHANGED <<images, ledger>>, LedgerInv PROVE LedgerInv'
  BY <1>0 DEF LedgerInv, Attributed, AcceptedImages, Shows, IsCapture
<1>1. CASE StartInspection
  BY <1>1 DEF StartInspection
<1>2. CASE Detected
  <2>1. PICK failed \in SUBSET AcceptedImages(images) :
          \E found \in SUBSET {d \in Sightings : d.image \in AcceptedImages(images) \ failed} :
            \E kept \in SUBSET DefectRecords(found, AcceptedImages(images), table) :
              ledger' = CaptureRecords(images, AcceptedImages(images)) \cup DetectorFailures(failed) \cup kept
    BY <1>2 DEF Detected
  <2>2. images' = images /\ phase' = "reported" /\ report' = {evaluatePhysical(ledger', table)}
    BY <1>2 DEF Detected
  <2>3. LedgerInv'
    BY <2>1, <2>2, Collected
  <2> QED
    BY <2>2, <2>3
<1>3. CASE DetectorUnavailable
  BY <1>3 DEF DetectorUnavailable
<1>4. CASE Reevaluate
  <2>1. LedgerInv'
    BY <1>0, <1>4 DEF Reevaluate
  <2> QED
    BY <1>4, <2>1 DEF Reevaluate
<1>5. CASE loadCalibration \/ resetCalibration
  <2>1. UNCHANGED <<phase, images, ledger, report>>
    BY <1>5 DEF loadCalibration, resetCalibration
  <2> QED
    BY <1>0, <2>1
<1>6. CASE UNCHANGED vars
  BY <1>0, <1>6 DEF vars
<1> QED
  BY <1>1, <1>2, <1>3, <1>4, <1>5, <1>6 DEF Next

\* The invariant holds in every reachable state.
THEOREM Invariance == Spec => []IInv
<1>1. Init => IInv
  BY InitIInv
<1>2. IInv /\ [Next]_vars => IInv'
  BY NextIInv
<1> QED
  BY <1>1, <1>2, PTL DEF Spec

-----------------------------------------------------------------------------
(* What the invariant says of an evaluation. *)

\* A usable capture of a surface is an accepted picture that shows it.
LEMMA UsableIsSeen ==
  ASSUME IInv, LedgerInv, NEW s \in Surface
  PROVE  UsableCaptures(ledger, s) # {} <=> \E i \in AcceptedImages(images) : Shows(i, s)
<1> AcceptedImages(images) \subseteq images
  BY DEF AcceptedImages
<1>1. ASSUME NEW i \in AcceptedImages(images), Shows(i, s)
      PROVE  UsableCaptures(ledger, s) # {}
  <2> DEFINE r == CaptureRecord(i, s, AcceptedImages(images))
  <2>1. r \in ledger
    BY <1>1 DEF LedgerInv, Shows
  <2>2. /\ r.subject = SURFACE_SUBJECT[s] /\ r.key = <<"ViewCaptured", Pictures[i].view>>
        /\ r.kind = "DEVICE_PROPERTY"
    BY CaptureFields
  <2>3. Pictures[i].view \in VIEWS_FOR_SURFACE[s]
    BY <1>1, PhysicalAssumption DEF Shows, VIEWS_FOR_SURFACE, IInv
  <2> HIDE DEF r
  <2>4. r.key[1] = "ViewCaptured" /\ r.key[2] = Pictures[i].view
    BY <2>2
  <2>5. r \in UsableCaptures(ledger, s)
    BY <2>1, <2>2, <2>3, <2>4 DEF UsableCaptures, captureRecordsFor, forSubject
  <2> QED
    BY <2>5
<1>2. ASSUME NEW r \in UsableCaptures(ledger, s)
      PROVE  \E i \in AcceptedImages(images) : Shows(i, s)
  <2>1. r \in ledger /\ IsCapture(r) /\ r.kind # "COLLECTION_FAILURE" /\ r.key[2] \in VIEWS_FOR_SURFACE[s]
    BY DEF UsableCaptures, captureRecordsFor, forSubject, IsCapture
  <2>2. PICK i \in images : \E x \in viewSpec[Pictures[i].view].surfaces :
                              r = CaptureRecord(i, x, AcceptedImages(images))
    BY <2>1 DEF LedgerInv
  <2>3. r.key = <<"ViewCaptured", Pictures[i].view>> /\ i \in AcceptedImages(images)
    BY <2>1, <2>2, CaptureFields
  <2>4. r.key[2] = Pictures[i].view
    BY <2>3
  <2>5. Shows(i, s)
    BY <2>1, <2>4 DEF Shows, VIEWS_FOR_SURFACE
  <2> QED
    BY <2>3, <2>5
<1> QED
  BY <1>1, <1>2

\* What is attributed is attributed to a surface.
LEMMA AttributedOnHandset ==
  ASSUME IInv, NEW e, Attributed(e)
  PROVE  e.raw.surface \in Surface
<1>1. PICK i \in AcceptedImages(images) : Shows(i, e.raw.surface)
  BY DEF Attributed
<1>2. Pictures[i].view \in CaptureView
  BY PhysicalAssumption DEF IInv, AcceptedImages
<1> QED
  BY <1>1, <1>2, ViewsShowSurfaces DEF Shows

\* The fields of an assessment.
LEMMA AssessmentFields ==
  ASSUME NEW s \in Surface, NEW cal
  PROVE  LET a == Assessments(ledger, cal)[s]
         IN  /\ a.assessable <=> UsableCaptures(ledger, s) # {}
             /\ a.assessable => a.defects \cup a.wear = DefectsOn(ledger, s) /\ a.defects \cap a.wear = {}
             /\ ~a.assessable =>
                  /\ a.defects \cup a.wear = {} /\ a.confidence = 0
                  /\ a.inferences = ViewUnusable(SURFACE_SUBJECT[s], failedCaptures(ledger, s))
BY DEF Assessments, AssessSurface, NotAssessed, Unjudged, Judged, Assessed

\* A surface is assessed, or named as not assessed, with reference to a table
\* that plays no part in it.
LEMMA ReportFields ==
  ASSUME NEW cal
  PROVE  LET r == evaluatePhysical(ledger, cal)
         IN  /\ r.surfaces = Assessments(ledger, cal)
             /\ r.notAssessed = unassessed(r.surfaces)
             /\ r.explained = explainDefects(ledger)
BY DEF evaluatePhysical, reportOn, PhysicalReport

\* Damage and wear that is priced is a detection of the ledger, on its surface.
LEMMA DetectionsArePriced ==
  ASSUME IInv, LedgerInv, NEW cal, NEW e \in explainDefects(ledger), NEW s \in Surface
  PROVE  LET a == Assessments(ledger, cal)[s]
         IN  e \in a.defects \cup a.wear <=> s = e.raw.surface
<1> DEFINE a == Assessments(ledger, cal)[s]
<1>1. e \in ledger /\ e.kind = "VISUAL_OBSERVATION" /\ Attributed(e)
  BY DEF explainDefects, LedgerInv
<1>2. CASE s = e.raw.surface
  <2>1. a.assessable
    BY <1>1, <1>2, UsableIsSeen, AssessmentFields DEF Attributed
  <2>2. e \in DefectsOn(ledger, s)
    BY <1>1, <1>2 DEF Attributed, DefectsOn, defectRecordsFor, forSubject
  <2> QED
    BY <1>2, <2>1, <2>2, AssessmentFields
<1>3. CASE s # e.raw.surface
  <2>1. e \notin DefectsOn(ledger, s)
    BY <1>3 DEF DefectsOn
  <2> QED
    BY <1>3, <2>1, AssessmentFields
<1> QED
  BY <1>2, <1>3

\* A surface that was tried in vain cites a failure of every view it was tried with.
LEMMA FailuresAreCited ==
  ASSUME IInv, LedgerInv, NEW cal, NEW s \in Surface,
         ~\E i \in AcceptedImages(images) : Shows(i, s),
         NEW i \in images, Shows(i, s)
  PROVE  \E x \in Assessments(ledger, cal)[s].inferences :
           <<"ViewCaptured", Pictures[i].view>> \in {e.key : e \in x.evidence}
<1> DEFINE r == CaptureRecord(i, s, AcceptedImages(images))
           part == SURFACE_SUBJECT[s]
           failed == failedCaptures(ledger, s)
           cites == Inference(part, "view-unusable", "REDUCES_DETERMINACY", 100, 100, failed)
<1>1. r \in ledger
  BY DEF LedgerInv, Shows
<1>2. /\ r.subject = part /\ r.key = <<"ViewCaptured", Pictures[i].view>> /\ r.kind = "COLLECTION_FAILURE"
  BY CaptureFields
<1>3. r \in failed
  <2> HIDE DEF r
  <2>1. r.key[1] = "ViewCaptured"
    BY <1>2
  <2> QED
    BY <1>1, <1>2, <2>1 DEF failedCaptures, captureRecordsFor, forSubject
<1>4. Assessments(ledger, cal)[s].inferences = ViewUnusable(part, failed)
  BY UsableIsSeen, AssessmentFields
<1>5. cites \in ViewUnusable(part, failed)
  BY <1>3 DEF ViewUnusable
<1>6. cites.evidence = failed
  BY DEF Inference, derive
<1>7. <<"ViewCaptured", Pictures[i].view>> \in {e.key : e \in cites.evidence}
  <2> HIDE DEF r, failed, cites
  <2> QED
    BY <1>2, <1>3, <1>6
<1> QED
  BY <1>4, <1>5, <1>7

-----------------------------------------------------------------------------
(* The theorems. *)

\* A surface is judged when, and only when, an accepted picture shows it: for
\* any pictures, answers of the detector and calibration tables.
THEOREM EverySurfaceIsAccountedFor == Spec => []JudgedWasSeen
<1>1. IInv => JudgedWasSeen
  <2> SUFFICES ASSUME IInv, NEW r \in report, NEW s \in Surface
               PROVE  LET seen  == \E i \in AcceptedImages(images) : Shows(i, s)
                          tried == {<<"ViewCaptured", Pictures[i].view>> : i \in {i \in images : Shows(i, s)}}
                      IN  /\ s \in reportSection(r).notAssessed <=> ~seen
                          /\ ~seen => /\ r.surfaces[s].confidence = 0
                                      /\ \A k \in tried : \E i \in r.surfaces[s].inferences :
                                           k \in {e.key : e \in i.evidence}
    BY DEF JudgedWasSeen
  <2> DEFINE seen == \E i \in AcceptedImages(images) : Shows(i, s)
             tried == {<<"ViewCaptured", Pictures[i].view>> : i \in {i \in images : Shows(i, s)}}
  <2>1. PICK cal : r = evaluatePhysical(ledger, cal)
    BY DEF IInv
  <2>2. LedgerInv
    BY DEF IInv
  <2>3. r.surfaces = Assessments(ledger, cal) /\ r.notAssessed = unassessed(r.surfaces)
    BY <2>1, ReportFields
  <2>4. r.surfaces[s].assessable <=> seen
    BY <2>2, <2>3, UsableIsSeen, AssessmentFields
  <2>5. s \in reportSection(r).notAssessed <=> ~seen
    BY <2>3, <2>4 DEF reportSection, unassessed
  <2>6. ~seen => r.surfaces[s].confidence = 0
    BY <2>3, <2>4, AssessmentFields
  <2>7. ASSUME ~seen, NEW k \in tried
        PROVE  \E i \in r.surfaces[s].inferences : k \in {e.key : e \in i.evidence}
    <3>1. PICK i \in images : Shows(i, s) /\ k = <<"ViewCaptured", Pictures[i].view>>
      BY DEF tried
    <3> QED
      BY <2>2, <2>3, <2>7, <3>1, FailuresAreCited
  <2> QED
    BY <2>5, <2>6, <2>7
<1> QED
  BY <1>1, Invariance, PTL

\* Every defect is priced on exactly one surface, whatever the detector answers
\* and whatever the tables say.
THEOREM EveryDefectIsPricedOnce == Spec => []PricedOnce
<1>1. IInv => PricedOnce
  <2> SUFFICES ASSUME IInv, NEW r \in report
               PROVE  /\ ChargedDefects(r.surfaces) = r.explained
                      /\ \A e \in r.explained :
                           /\ {s \in Surface : e \in r.surfaces[s].defects \cup r.surfaces[s].wear} = {e.raw.surface}
                           /\ e.raw.surface \in DEFECT_CLASSES[e.raw.class].surfaces
                           /\ e \notin r.surfaces[e.raw.surface].defects \cap r.surfaces[e.raw.surface].wear
                           /\ e.raw.surface \in reportSection(r).damaged
    BY DEF PricedOnce
  <2>1. PICK cal : r = evaluatePhysical(ledger, cal)
    BY DEF IInv
  <2>2. LedgerInv
    BY DEF IInv
  <2>3. /\ r.surfaces = Assessments(ledger, cal) /\ r.notAssessed = unassessed(r.surfaces)
        /\ r.explained = explainDefects(ledger)
    BY <2>1, ReportFields
  <2>4. ASSUME NEW e \in r.explained
        PROVE  /\ e.raw.class \in DEFECT_CLASS_IDS
               /\ e.raw.surface \in DEFECT_CLASSES[e.raw.class].surfaces /\ e.raw.surface \in Surface
    BY <2>2, <2>3, AttributedOnHandset DEF explainDefects, LedgerInv, Attributed
  <2>5. ASSUME NEW e \in r.explained, NEW s \in Surface
        PROVE  e \in r.surfaces[s].defects \cup r.surfaces[s].wear <=> s = e.raw.surface
    BY <2>2, <2>3, DetectionsArePriced
  <2>6. ASSUME NEW s \in Surface
        PROVE  /\ r.surfaces[s].defects \cup r.surfaces[s].wear \subseteq r.explained
               /\ r.surfaces[s].defects \cap r.surfaces[s].wear = {}
               /\ r.surfaces[s].defects \cup r.surfaces[s].wear # {} => r.surfaces[s].assessable
    <3>1. DefectsOn(ledger, s) \subseteq r.explained
      BY <2>3 DEF DefectsOn, defectRecordsFor, forSubject, explainDefects
    <3> QED
      BY <2>3, <3>1, AssessmentFields
  <2>7. ChargedDefects(r.surfaces) = r.explained
    BY <2>4, <2>5, <2>6 DEF ChargedDefects
  <2>8. ASSUME NEW e \in r.explained
        PROVE  /\ {s \in Surface : e \in r.surfaces[s].defects \cup r.surfaces[s].wear} = {e.raw.surface}
               /\ e \notin r.surfaces[e.raw.surface].defects \cap r.surfaces[e.raw.surface].wear
               /\ e.raw.surface \in reportSection(r).damaged
    <3>1. e.raw.surface \in Surface /\ e \in r.surfaces[e.raw.surface].defects \cup r.surfaces[e.raw.surface].wear
      BY <2>4, <2>5
    <3>2. e.raw.surface \in Surface \ r.notAssessed
      BY <2>3, <2>6, <3>1 DEF unassessed
    <3> QED
      BY <2>5, <2>6, <3>1, <3>2 DEF reportSection
  <2> QED
    BY <2>4, <2>7, <2>8
<1> QED
  BY <1>1, Invariance, PTL

\* Whatever the detector saw at or above the operating point of its class is
\* priced, for any answer and any table in force when it is taken in.
THEOREM EverySightingIsPriced == Spec => NothingSeenIsLost
<1> DEFINE Step == phase = "detecting" /\ phase' = "reported" =>
             \A d \in offered' :
               /\ d.class \in DEFECT_CLASS_IDS
               /\ d.surface \in DEFECT_CLASSES[d.class].surfaces /\ Shows(d.image, d.surface)
               /\ d.modelScore >= table[d.class].operatingThreshold
               => \A r \in report' : \E e \in ChargedDefects(r.surfaces) :
                    /\ e.raw.class = d.class /\ e.value = <<d.image, d.box>>
                    /\ e.subject = SURFACE_SUBJECT[d.surface]
<1>1. IInv /\ PricedOnce' /\ [Next]_vars => Step
  <2> SUFFICES ASSUME IInv, PricedOnce', [Next]_vars, phase = "detecting", phase' = "reported",
                      NEW d \in offered', d.class \in DEFECT_CLASS_IDS,
                      d.surface \in DEFECT_CLASSES[d.class].surfaces, Shows(d.image, d.surface),
                      d.modelScore >= table[d.class].operatingThreshold, NEW r \in report'
               PROVE  \E e \in ChargedDefects(r.surfaces) :
                        /\ e.raw.class = d.class /\ e.value = <<d.image, d.box>>
                        /\ e.subject = SURFACE_SUBJECT[d.surface]
    OBVIOUS
  <2> DEFINE usable == AcceptedImages(images)
  <2>1. Detected
    BY DEF Next, StartInspection, DetectorUnavailable, Reevaluate, loadCalibration, resetCalibration, vars
  <2>2. PICK failed \in SUBSET usable :
          \E found \in SUBSET {x \in Sightings : x.image \in usable \ failed} :
            /\ offered' = found
            /\ \E kept \in SUBSET DefectRecords(found, usable, table) :
                 /\ Deduplicated(DefectRecords(found, usable, table), kept)
                 /\ ledger' = CaptureRecords(images, usable) \cup DetectorFailures(failed) \cup kept
    BY <2>1 DEF Detected
  <2> DEFINE found == offered'
  <2> PICK kept \in SUBSET DefectRecords(found, usable, table) :
        /\ Deduplicated(DefectRecords(found, usable, table), kept)
        /\ ledger' = CaptureRecords(images, usable) \cup DetectorFailures(failed) \cup kept
    BY <2>2
  <2>3. d.image \in usable
    BY <2>2
  <2>4. DefectRecord(d, table) \in DefectRecords(found, usable, table)
    BY <2>2, <2>3 DEF DefectRecords, Passes, passesThreshold, Shows
  <2>5. PICK k \in kept : evidenceId(k) = evidenceId(DefectRecord(d, table))
    BY <2>2, <2>4 DEF Deduplicated
  <2>6. PICK x \in found : k = DefectRecord(x, table)
    BY <2>2, <2>5 DEF DefectRecords
  <2>7. /\ k.subject = SURFACE_SUBJECT[d.surface] /\ k.raw.class = d.class
        /\ k.value = <<d.image, d.box>> /\ k.kind = "VISUAL_OBSERVATION"
    BY <2>5, <2>6 DEF evidenceId, DefectRecord, Evidence
  <2>8. k \in explainDefects(ledger')
    BY <2>2, <2>7 DEF explainDefects
  <2>9. r = evaluatePhysical(ledger', table)
    BY <2>1 DEF Detected
  <2>10. r.explained = explainDefects(ledger')
    BY <2>9 DEF evaluatePhysical, reportOn, PhysicalReport
  <2>11. k \in ChargedDefects(r.surfaces)
    BY <2>8, <2>10 DEF PricedOnce
  <2> QED
    BY <2>7, <2>11
<1> QED
  BY <1>1, Invariance, EveryDefectIsPricedOnce, PTL DEF Spec, NothingSeenIsLost

\* Only what was not found on a surface depends on the table.
LEMMA OnlyCleanDependsOnTheTable ==
  ASSUME NEW s \in Surface, NEW cal, NEW later
  PROVE  LET x == Assessments(ledger, cal)[s]
             y == Assessments(ledger, later)[s]
         IN  /\ ~(x.assessable /\ x.defects \cup x.wear = {}) => x = y
             /\ x.assessable /\ x.defects \cup x.wear = {} =>
                  /\ x.assessable = y.assessable /\ x.score = y.score /\ x.verdict.value = y.verdict.value
                  /\ x.defects = y.defects /\ x.wear = y.wear
<1> DEFINE usable == UsableCaptures(ledger, s)
           failed == failedCaptures(ledger, s)
           records == DefectsOn(ledger, s)
           part == SURFACE_SUBJECT[s]
           x == Assessments(ledger, cal)[s]
           y == Assessments(ledger, later)[s]
<1>0. /\ x = AssessSurface(s, usable, failed, records, cal)
      /\ y = AssessSurface(s, usable, failed, records, later)
  BY DEF Assessments
<1>1. CASE usable = {}
  <2>1. x = NotAssessed(part, ViewUnusable(part, failed)) /\ y = x
    BY <1>0, <1>1 DEF AssessSurface
  <2>2. ~x.assessable
    BY <2>1 DEF NotAssessed, Unjudged
  <2> QED
    BY <2>1, <2>2
<1>2. CASE usable # {} /\ records # {}
  <2>1. {DefectInference(r, cal) : r \in records} = {DefectInference(r, later) : r \in records}
    BY DEF DefectInference
  <2>2. x = y
    BY <1>0, <1>2, <2>1 DEF AssessSurface
  <2>3. x.defects \cup x.wear # {}
    BY <1>0, <1>2 DEF AssessSurface, Judged, Assessed
  <2> QED
    BY <2>2, <2>3
<1>3. CASE usable # {} /\ records = {}
  <2>1. /\ x = Judged(s, {}, {PhotographedClean(s, usable, cal)})
        /\ y = Judged(s, {}, {PhotographedClean(s, usable, later)})
    BY <1>0, <1>3 DEF AssessSurface
  <2>2. x.assessable /\ x.defects \cup x.wear = {}
    BY <2>1 DEF Judged, Assessed
  <2> HIDE DEF x, y
  <2>3. /\ x.assessable = y.assessable /\ x.score = y.score /\ x.verdict.value = y.verdict.value
        /\ x.defects = y.defects /\ x.wear = y.wear
    BY <2>1 DEF Judged, Assessed, Verdict
  <2> QED
    BY <2>2, <2>3 DEF x, y
<1> QED
  BY <1>1, <1>2, <1>3

\* What was found keeps its price and its credit under every later table.
THEOREM DamageKeepsItsPrice == Spec => DamageOutlivesTheTable
<1>1. IInv /\ [Next]_vars =>
        (phase' = "replayed" =>
           \A old \in report, new \in report' : \A s \in Surface :
             LET x == old.surfaces[s]
                 y == new.surfaces[s]
             IN  IF s \in reportSection(old).clean
                 THEN /\ x.assessable = y.assessable /\ x.score = y.score /\ x.verdict.value = y.verdict.value
                      /\ x.defects = y.defects /\ x.wear = y.wear
                 ELSE x = y)
  <2> SUFFICES ASSUME IInv, [Next]_vars, phase' = "replayed", NEW old \in report, NEW new \in report',
                      NEW s \in Surface
               PROVE  LET x == old.surfaces[s]
                          y == new.surfaces[s]
                      IN  IF s \in reportSection(old).clean
                          THEN /\ x.assessable = y.assessable /\ x.score = y.score /\ x.verdict.value = y.verdict.value
                               /\ x.defects = y.defects /\ x.wear = y.wear
                          ELSE x = y
    OBVIOUS
  <2>1. PICK cal : old = evaluatePhysical(ledger, cal)
    BY DEF IInv
  <2>2. PICK later : new = evaluatePhysical(ledger, later)
    <3>1. CASE Reevaluate
      BY <3>1 DEF Reevaluate
    <3>2. CASE report' = report
      BY <3>2 DEF IInv
    <3> QED
      BY <3>1, <3>2 DEF Next, StartInspection, Detected, DetectorUnavailable, loadCalibration,
                        resetCalibration, vars
  <2>3. /\ old.surfaces = Assessments(ledger, cal) /\ old.notAssessed = unassessed(old.surfaces)
        /\ new.surfaces = Assessments(ledger, later)
    BY <2>1, <2>2, ReportFields
  <2> DEFINE x == old.surfaces[s]
  <2>4. s \in reportSection(old).clean <=> x.assessable /\ x.defects \cup x.wear = {}
    BY <2>3 DEF reportSection, unassessed
  <2> QED
    BY <2>3, <2>4, OnlyCleanDependsOnTheTable
<1> QED
  BY <1>1, Invariance, PTL DEF Spec, DamageOutlivesTheTable

-----------------------------------------------------------------------------
(***************************************************************************)
(* The taxonomy                                                            *)
(***************************************************************************)

\* A severity is a percentage, and what a family says of a class is kept.
LEMMA SeverityIsGiven ==
  ASSUME NEW severity, NEW surfaces
  PROVE  /\ Minor(severity, surfaces).severity = severity
         /\ Damage(severity, surfaces).severity = severity
         /\ Opened(severity, surfaces).severity = severity
         /\ Worn(Minor(severity, surfaces)).severity = severity
         /\ Worn(Damage(severity, surfaces)).severity = severity
         /\ Damage(severity, surfaces).surfaces = surfaces
<1>1. Minor(severity, surfaces).severity = severity /\ Minor(severity, surfaces).surfaces = surfaces
  BY DEF Minor
<1>2. Damage(severity, surfaces).severity = severity /\ Damage(severity, surfaces).surfaces = surfaces
  BY DEF Damage, Minor
<1>3. Opened(severity, surfaces).severity = severity
  BY DEF Opened, Damage, Minor
<1>4. Worn(Minor(severity, surfaces)).severity = severity
  BY DEF Worn, Minor
<1>5. Worn(Damage(severity, surfaces)).severity = severity
  BY DEF Worn, Damage, Minor
<1>. QED
  BY <1>1, <1>2, <1>3, <1>4, <1>5

Priced(family) == \A c \in DOMAIN family : family[c].severity \in 0..100

\* Whatever family a class is of, its severity is a percentage and it names surfaces.
LEMMA FamiliesArePriced ==
  ASSUME NEW f \in Families
  PROVE  Priced(f)
<1>1. Priced(SurfaceDamage)
  BY SeverityIsGiven DEF Priced, SurfaceDamage
<1>2. Priced(FrameDamage)
  BY SeverityIsGiven DEF Priced, FrameDamage
<1>3. Priced(CameraDamage)
  BY SeverityIsGiven DEF Priced, CameraDamage
<1>4. Priced(DisplayDefect)
  BY SeverityIsGiven DEF Priced, DisplayDefect
<1>5. Priced(Wear)
  BY SeverityIsGiven DEF Priced, Wear
<1>6. Priced(MissingComponent)
  BY SeverityIsGiven DEF Priced, MissingComponent
<1>7. Priced(RepairIndicator)
  BY SeverityIsGiven DEF Priced, RepairIndicator
<1>8. Priced(Contamination)
  BY SeverityIsGiven DEF Priced, Contamination
<1>9. Priced(Anomaly)
  BY SeverityIsGiven DEF Priced, Anomaly
<1>. QED
  BY <1>1, <1>2, <1>3, <1>4, <1>5, <1>6, <1>7, <1>8, <1>9, Zenon DEF Families

\* A class says what its family says.
LEMMA ClassIsOfAFamily ==
  ASSUME NEW c \in DEFECT_CLASS_IDS
  PROVE  \E f \in Families : c \in DOMAIN f /\ DEFECT_CLASSES[c] = f[c]
<1>. DEFINE family(x) == CHOOSE f \in Families : x \in DOMAIN f
<1>1. c \in UNION {DOMAIN f : f \in Families}
  BY Zenon DEF DEFECT_CLASS_IDS, DEFECT_CLASSES
<1>2. DEFECT_CLASSES[c] = family(c)[c]
  BY <1>1, Zenon DEF DEFECT_CLASSES
<1>3. \E f \in Families : c \in DOMAIN f
  BY <1>1, Zenon
<1>4. family(c) \in Families /\ c \in DOMAIN family(c)
  BY <1>3, Zenon
<1>. QED
  BY <1>2, <1>4, Zenon

\* Every class of the taxonomy has a severity in percent.
LEMMA ClassesArePriced ==
  ASSUME NEW c \in DEFECT_CLASS_IDS
  PROVE  DEFECT_CLASSES[c].severity \in 0..100
BY ClassIsOfAFamily, FamiliesArePriced DEF Priced

\* The unclassified anomaly can be on every surface.
LEMMA EverySurfaceHasAClass ==
  ASSUME NEW s \in Surface
  PROVE  classesForSurface[s] \in SUBSET DEFECT_CLASS_IDS /\ classesForSurface[s] # {}
<1>. DEFINE a == "UNCLASSIFIED_ANOMALY"
<1>1. a \in DOMAIN Anomaly /\ Anomaly[a].surfaces = Surface
  BY SeverityIsGiven DEF Anomaly
<1>2. a \in DEFECT_CLASS_IDS
  BY <1>1, Zenon DEF DEFECT_CLASS_IDS, DEFECT_CLASSES, Families
<1>3. PICK f \in Families : a \in DOMAIN f /\ DEFECT_CLASSES[a] = f[a]
  BY <1>2, ClassIsOfAFamily
<1>4. f = Anomaly
  <2>1. a \notin DOMAIN SurfaceDamage /\ a \notin DOMAIN FrameDamage
    BY DEF SurfaceDamage, FrameDamage
  <2>2. a \notin DOMAIN CameraDamage /\ a \notin DOMAIN DisplayDefect
    BY DEF CameraDamage, DisplayDefect
  <2>3. a \notin DOMAIN Wear /\ a \notin DOMAIN MissingComponent
    BY DEF Wear, MissingComponent
  <2>4. a \notin DOMAIN RepairIndicator /\ a \notin DOMAIN Contamination
    BY DEF RepairIndicator, Contamination
  <2>. QED
    BY <1>3, <2>1, <2>2, <2>3, <2>4 DEF Families
<1>5. s \in DEFECT_CLASSES[a].surfaces
  BY <1>1, <1>3, <1>4
<1>. QED
  BY <1>2, <1>5 DEF classesForSurface

-----------------------------------------------------------------------------
(***************************************************************************)
(* Effects and scores                                                      *)
(***************************************************************************)

\* Math.round of a quotient: a number, within half of the quotient.
LEMMA RoundedBounds ==
  ASSUME NEW a \in Nat, NEW b \in Nat, b > 0
  PROVE  /\ Rounded(a, b) \in Nat
         /\ 2 * b * Rounded(a, b) <= 2 * a + b
         /\ \A k \in Nat : 2 * a + b < (k + 1) * (2 * b) => Rounded(a, b) <= k
<1>. DEFINE n == 2 * a + b
            d == 2 * b
            q == n \div d
<1>1. n \in Nat /\ d \in Nat /\ d > 0
  OBVIOUS
<1>2. Rounded(a, b) = q
  BY DEF Rounded
<1>. HIDE DEF n, d
<1>3. q \in Nat /\ \A k \in Nat : n < (k + 1) * d => q <= k
  BY <1>1, QuotientBounds
<1>4. d * q <= n
  BY <1>1
<1>. HIDE DEF q
<1>. QED
  BY <1>1, <1>2, <1>3, <1>4 DEF n, d

\* A rounded share: no more than One, and no further off than half a unit.
LEMMA ShareIsShare ==
  ASSUME NEW a \in Nat, NEW b \in Nat, b > 0
  PROVE  /\ Share(a, b) \in Nat
         /\ a <= b => Share(a, b) \in 0..One
         /\ b * Share(a, b) <= One * a + 5 * b
<1>. DEFINE r == Rounded(1000 * a, b)
<1>1. /\ r \in Nat /\ 2 * b * r <= 2 * (1000 * a) + b
      /\ 2 * (1000 * a) + b < (1000 + 1) * (2 * b) => r <= 1000
  BY RoundedBounds
<1>2. Share(a, b) = 10 * r
  BY DEF Share
<1>. HIDE DEF r
<1>3. a <= b => r <= 1000
  BY <1>1
<1>4. b * (10 * r) <= 10000 * a + 5 * b
  <2>1. b * (10 * r) = 5 * (2 * b * r)
    BY <1>1
  <2>. DEFINE x == 2 * b * r
  <2>2. x \in Int
    BY <1>1
  <2>3. x <= 2000 * a + b
    BY <1>1
  <2>. HIDE DEF x
  <2>4. 5 * x <= 10000 * a + 5 * b
    BY <2>2, <2>3
  <2>. QED
    BY <2>1, <2>4 DEF x
<1>. QED
  BY <1>1, <1>2, <1>3, <1>4, OneIs

\* How far a defect extends is a share, whatever its box.
LEMMA ExtentIsShare ==
  ASSUME NEW area \in Nat
  PROVE  extentFactor(area) \in 0..One
<1>. DEFINE m == AtMost(area, REFERENCE_AREA)
            q == (6500 * m) \div 600
<1>1. m \in Nat /\ m <= 600
  BY DEF AtMost, REFERENCE_AREA
<1>2. extentFactor(area) = 3500 + q
  BY DEF extentFactor, REFERENCE_AREA
<1>. HIDE DEF m
<1>3. q \in Nat /\ q <= 6500
  BY <1>1
<1>. HIDE DEF q
<1>. QED
  BY <1>2, <1>3, OneIs

\* What a defect takes from a surface is a share.
LEMMA EffectIsShare ==
  ASSUME NEW class \in DEFECT_CLASS_IDS, NEW area \in Nat
  PROVE  effect(class, area) \in 0..One
<1>. DEFINE v == DEFECT_CLASSES[class].severity
            e == extentFactor(area)
            p == v * e
            q == p \div 100
<1>1. v \in 0..100 /\ e \in 0..One
  BY ClassesArePriced, ExtentIsShare
<1>2. effect(class, area) = AtMost(One, q)
  BY DEF effect
<1>. HIDE DEF v, e
<1>3. p \in Nat
  BY <1>1, OneIs
<1>. HIDE DEF p
<1>4. q \in Nat
  BY <1>3
<1>. HIDE DEF q
<1>. QED
  BY <1>2, <1>4, OneIs DEF AtMost

\* Rounding keeps an order.
LEMMA RoundedIsMonotone ==
  ASSUME NEW a \in Nat, NEW c \in Nat, a <= c
  PROVE  Rounded(a, 100) <= Rounded(c, 100)
<1>1. Rounded(a, 100) = (2 * a + 100) \div 200 /\ Rounded(c, 100) = (2 * c + 100) \div 200
  BY DEF Rounded
<1>. QED
  BY <1>1

\* Records of the taxonomy with an area, as many as a ledger can hold.
Measurable(records) ==
  /\ IsFiniteSet(records)
  /\ \A r \in records : r.raw.class \in DEFECT_CLASS_IDS /\ r.raw.area \in Nat

\* A surface is scored out of a hundred, and no better than its worst defect.
LEMMA SurfaceScoreBounds ==
  ASSUME NEW defects, Measurable(defects)
  PROVE  /\ surfaceScore(defects) \in 0..100
         /\ \A d \in defects : LeftBy(d) \in Nat /\ surfaceScore(defects) <= LeftBy(d)
<1>. DEFINE left == [d \in defects |-> One - effect(d.raw.class, d.raw.area)]
            p == FoldFunction(Times, One, left)
            score == surfaceScore(defects)
<1>1. \A d \in defects : effect(d.raw.class, d.raw.area) \in 0..One
  BY EffectIsShare DEF Measurable
<1>2. ASSUME NEW d \in defects
      PROVE  left[d] \in 0..One /\ left[d] = One - effect(d.raw.class, d.raw.area)
  <2>. DEFINE e == effect(d.raw.class, d.raw.area)
  <2>1. e \in 0..One /\ left[d] = One - e
    BY <1>1
  <2>. HIDE DEF e, left
  <2>2. left[d] \in 0..One
    BY <2>1, OneIs
  <2>. QED
    BY <2>1, <2>2 DEF e
<1>3. DOMAIN left = defects /\ IsFiniteSet(defects)
  BY DEF Measurable
<1>4. score = Rounded(One - (One - p), 100)
  BY DEF surfaceScore, surfacePenalty
<1>. HIDE DEF left, score
<1>5. Shares(left, DOMAIN left)
  BY <1>2, <1>3 DEF Shares
<1>6. p \in 0..One /\ \A d \in defects : p <= left[d]
  <2>1. /\ FoldFunction(Times, One, left) \in 0..One
        /\ \A x \in DOMAIN left : FoldFunction(Times, One, left) <= left[x]
    BY <1>3, <1>5, ProductOfShares, Zenon
  <2>. QED
    BY <1>3, <2>1
<1>. HIDE DEF p
<1>7. score = Rounded(p, 100) /\ p \in Nat /\ p <= 10000
  <2>1. One - (One - p) = p
    BY <1>6, OneIs
  <2>. QED
    BY <1>4, <1>6, <2>1, OneIs
<1>8. score \in Nat /\ \A k \in Nat : 2 * p + 100 < (k + 1) * (2 * 100) => score <= k
  BY <1>7, RoundedBounds
<1>9. score <= 100
  BY <1>7, <1>8
<1>10. ASSUME NEW d \in defects
       PROVE  LeftBy(d) \in Nat /\ score <= LeftBy(d)
  <2>. DEFINE l == left[d]
  <2>1. l \in 0..One /\ p <= l
    BY <1>2, <1>6
  <2>2. LeftBy(d) = Rounded(l, 100)
    BY <1>2 DEF LeftBy
  <2>. HIDE DEF l
  <2>3. l \in Nat
    BY <2>1, OneIs
  <2>4. Rounded(p, 100) <= Rounded(l, 100)
    BY <1>7, <2>1, <2>3, RoundedIsMonotone
  <2>5. Rounded(l, 100) \in Nat
    BY <2>3, RoundedBounds
  <2>. QED
    BY <1>7, <2>2, <2>4, <2>5
<1>. QED
  BY <1>8, <1>9, <1>10 DEF score

-----------------------------------------------------------------------------
(***************************************************************************)
(* Pillars                                                                 *)
(***************************************************************************)

\* A rounded mean stays within the bound of the values.
LEMMA RoundedMean ==
  ASSUME NEW n \in Nat, NEW w \in Nat, w > 0, NEW k \in Nat, n <= k * w
  PROVE  Rounded(n, w) \in 0..k
<1>. DEFINE r == Rounded(n, w)
<1>1. r \in Nat /\ (2 * n + w < (k + 1) * (2 * w) => r <= k)
  BY RoundedBounds
<1>. HIDE DEF r
<1>2. 2 * n + w < (k + 1) * (2 * w)
  <2>1. (k + 1) * (2 * w) = 2 * (k * w) + 2 * w
    OBVIOUS
  <2>. DEFINE x == k * w
  <2>2. x \in Int /\ n <= x
    OBVIOUS
  <2>. HIDE DEF x
  <2>3. 2 * n + w < 2 * x + 2 * w
    BY <2>2
  <2>. QED
    BY <2>1, <2>3 DEF x
<1>. QED
  BY <1>1, <1>2 DEF r

\* A sum over two surfaces.
LEMMA SumOfTwo ==
  ASSUME NEW f, NEW x, NEW y, x # y, f[x] \in Nat, f[y] \in Nat
  PROVE  SumFunctionOnSet(f, {x, y}) = f[x] + f[y]
<1>1. IsFiniteSet({x, y})
  <2>1. {x, y} = {x} \cup {y}
    OBVIOUS
  <2>2. IsFiniteSet({x} \cup {y})
    BY FS_Singleton, FS_Union
  <2>. QED
    BY <2>1, <2>2, Zenon
<1>2. NaturalOn(f, {x, y})
  BY DEF NaturalOn
<1>3. SumFunctionOnSet(f, {x, y}) = f[x] + SumFunctionOnSet(f, {x, y} \ {x})
  BY <1>1, <1>2, SumTakes
<1>4. {x, y} \ {x} = {y}
  OBVIOUS
<1>. QED
  BY <1>3, <1>4, SumOfOne

LEMMA SurfacesAreFinite == IsFiniteSet(Surface)
<1>. DEFINE S1 == {"FRONT_GLASS"} \cup {"DISPLAY_ACTIVE_AREA"}
            S2 == S1 \cup {"REAR_GLASS"}
            S3 == S2 \cup {"FRAME"}
            S4 == S3 \cup {"REAR_CAMERA"}
            S5 == S4 \cup {"FRONT_CAMERA"}
            S6 == S5 \cup {"CHARGE_PORT"}
<1>1. Surface = S6
  BY DEF Surface
<1>2. IsFiniteSet(S2)
  BY FS_Singleton, FS_Union
<1>. HIDE DEF S2
<1>3. IsFiniteSet(S4)
  BY <1>2, FS_Singleton, FS_Union
<1>. HIDE DEF S4
<1>4. IsFiniteSet(S6)
  BY <1>3, FS_Singleton, FS_Union
<1>. QED
  BY <1>1, <1>4

DamagePillar == {"DISPLAY", "FRAME", "CAMERA", "REAR_GLASS"}

\* The surfaces of a pillar weigh a hundred percent together.
LEMMA PillarSurfaces ==
  ASSUME NEW p \in DamagePillar
  PROVE  LET weightOf == PILLAR_SURFACES[p]
         IN  /\ DOMAIN weightOf \in SUBSET Surface /\ IsFiniteSet(DOMAIN weightOf)
             /\ \A s \in DOMAIN weightOf : weightOf[s] \in 1..100
             /\ SumFunctionOnSet(weightOf, DOMAIN weightOf) = 100
<1>1. CASE p = "REAR_GLASS"
  <2>. DEFINE f == PILLAR_SURFACES[p]
  <2>1. DOMAIN f = {"REAR_GLASS"} /\ f["REAR_GLASS"] = 100
    BY <1>1 DEF PILLAR_SURFACES
  <2>. HIDE DEF f
  <2>2. SumFunctionOnSet(f, {"REAR_GLASS"}) = 100
    BY <2>1, SumOfOne
  <2>3. {"REAR_GLASS"} \in SUBSET Surface
    BY DEF Surface
  <2>. QED
    BY <2>1, <2>2, <2>3, SurfacesAreFinite, FS_Subset DEF f
<1>2. ASSUME NEW x, NEW y, x # y, x \in Surface, y \in Surface, DOMAIN PILLAR_SURFACES[p] = {x, y},
             PILLAR_SURFACES[p][x] \in 1..99, PILLAR_SURFACES[p][y] = 100 - PILLAR_SURFACES[p][x]
      PROVE  LET weightOf == PILLAR_SURFACES[p]
             IN  /\ DOMAIN weightOf \in SUBSET Surface /\ IsFiniteSet(DOMAIN weightOf)
                 /\ \A s \in DOMAIN weightOf : weightOf[s] \in 1..100
                 /\ SumFunctionOnSet(weightOf, DOMAIN weightOf) = 100
  <2>. DEFINE f == PILLAR_SURFACES[p]
  <2>1. f[x] \in 1..99 /\ f[y] \in 1..99 /\ f[x] + f[y] = 100
    BY <1>2
  <2>2. DOMAIN f = {x, y}
    BY <1>2
  <2>. HIDE DEF f
  <2>3. SumFunctionOnSet(f, {x, y}) = 100
    <3>1. f[x] \in Nat /\ f[y] \in Nat /\ x # y
      BY <1>2, <2>1
    <3>2. SumFunctionOnSet(f, {x, y}) = f[x] + f[y]
      BY <3>1, SumOfTwo
    <3>. QED
      BY <2>1, <3>2
  <2>. QED
    BY <1>2, <2>1, <2>2, <2>3, SurfacesAreFinite, FS_Subset DEF f
<1>3. CASE p = "DISPLAY"
  <2>1. /\ DOMAIN PILLAR_SURFACES[p] = {"DISPLAY_ACTIVE_AREA", "FRONT_GLASS"}
        /\ PILLAR_SURFACES[p]["DISPLAY_ACTIVE_AREA"] = 60 /\ PILLAR_SURFACES[p]["FRONT_GLASS"] = 40
    BY <1>3 DEF PILLAR_SURFACES
  <2>. QED
    BY <1>2, <2>1 DEF Surface
<1>4. CASE p = "FRAME"
  <2>1. /\ DOMAIN PILLAR_SURFACES[p] = {"FRAME", "CHARGE_PORT"}
        /\ PILLAR_SURFACES[p]["FRAME"] = 80 /\ PILLAR_SURFACES[p]["CHARGE_PORT"] = 20
    BY <1>4 DEF PILLAR_SURFACES
  <2>. QED
    BY <1>2, <2>1 DEF Surface
<1>5. CASE p = "CAMERA"
  <2>1. /\ DOMAIN PILLAR_SURFACES[p] = {"REAR_CAMERA", "FRONT_CAMERA"}
        /\ PILLAR_SURFACES[p]["REAR_CAMERA"] = 85 /\ PILLAR_SURFACES[p]["FRONT_CAMERA"] = 15
    BY <1>5 DEF PILLAR_SURFACES
  <2>. QED
    BY <1>2, <2>1 DEF Surface
<1>. QED
  BY <1>1, <1>3, <1>4, <1>5 DEF DamagePillar

\* What a score is computed from.
Judgeable(surfaces) ==
  \A s \in Surface : /\ surfaces[s].confidence \in 0..One /\ surfaces[s].score \in Nat
                     /\ Measurable(surfaces[s].defects) /\ Measurable(surfaces[s].wear)

Figures(pillar) ==
  pillar.score \in 0..100 /\ pillar.confidence \in 0..One /\ pillar.coverage \in 0..One

\* A pillar nothing speaks for has figures like any other.
LEMMA NoPillarFigures == Figures(NoPillar) /\ NoPillar.coverage = 0
BY OneIs DEF Figures, NoPillar

\* The figures of a damage pillar are within their scales.
LEMMA DamagePillarFigures ==
  ASSUME NEW surfaces, Judgeable(surfaces), NEW p \in DamagePillar
  PROVE  /\ Figures(damagePillar(p, surfaces))
         /\ \A s \in DOMAIN PILLAR_SURFACES[p] :
              ~surfaces[s].assessable =>
                 damagePillar(p, surfaces).coverage <= 10005 - 100 * PILLAR_SURFACES[p][s]
<1>. DEFINE weightOf == PILLAR_SURFACES[p]
            D == DOMAIN weightOf
            assessed == {s \in D : surfaces[s].assessable}
            scoreOf == [s \in assessed |-> surfaceScore(surfaces[s].defects)]
            confidenceOf == [s \in assessed |-> surfaces[s].confidence]
            weighedScore == [s \in assessed |-> surfaceScore(surfaces[s].defects) * weightOf[s]]
            weighedConfidence == [s \in assessed |-> surfaces[s].confidence * weightOf[s]]
            weight == SumFunctionOnSet(weightOf, assessed)
            total == SumFunction(weightOf)
            some == [scored |-> TRUE,
                     score |-> Rounded(SumFunction(weighedScore), weight),
                     confidence |-> 10 * Rounded(SumFunction(weighedConfidence), 10 * weight),
                     coverage |-> Share(weight, total)]
<1>1. damagePillar(p, surfaces) = IF assessed = {} THEN NoPillar ELSE some
  BY DEF damagePillar
<1>2. /\ D \in SUBSET Surface /\ IsFiniteSet(D) /\ \A s \in D : weightOf[s] \in 1..100
      /\ SumFunctionOnSet(weightOf, D) = 100
  BY PillarSurfaces
<1>3. total = 100
  BY <1>2 DEF SumFunction
<1>4. assessed \in SUBSET D
  OBVIOUS
<1>5. /\ weighedScore = [s \in assessed |-> scoreOf[s] * weightOf[s]]
      /\ weighedConfidence = [s \in assessed |-> confidenceOf[s] * weightOf[s]]
  OBVIOUS
<1>6. /\ \A s \in assessed : scoreOf[s] \in 0..100
      /\ \A s \in assessed : confidenceOf[s] \in 0..One
  BY <1>2, SurfaceScoreBounds DEF Judgeable
<1>7. \A s \in D : s \notin assessed => ~surfaces[s].assessable
  OBVIOUS
<1>8. \A s \in D : ~surfaces[s].assessable => s \notin assessed
  OBVIOUS
<1>. HIDE DEF assessed, scoreOf, confidenceOf, total, weightOf, D
<1>9. CASE assessed = {}
  <2>1. damagePillar(p, surfaces) = NoPillar
    BY <1>1, <1>9
  <2>2. \A s \in D : weightOf[s] \in 1..100
    BY <1>2
  <2>. QED
    BY <2>1, <2>2, NoPillarFigures DEF D, weightOf
<1>10. CASE assessed # {}
  <2>1. IsFiniteSet(assessed) /\ \A s \in assessed : weightOf[s] \in Nat /\ weightOf[s] > 0
    BY <1>2, <1>4, FS_Subset
  <2>2. NaturalOn(weightOf, D)
    BY <1>2 DEF NaturalOn
  <2>3. /\ SumFunction(weighedScore) \in Nat /\ weight \in Nat /\ weight > 0
        /\ SumFunction(weighedScore) <= 100 * weight
    <3>. DEFINE hundred == 100
    <3>1. hundred \in Nat /\ \A s \in assessed : scoreOf[s] \in 0..hundred
      BY <1>6
    <3>. HIDE DEF hundred
    <3>2. /\ SumFunction(weighedScore) \in Nat /\ weight \in Nat /\ weight > 0
          /\ SumFunction(weighedScore) <= hundred * weight
      <4>1. LET weighted == [s \in assessed |-> scoreOf[s] * weightOf[s]]
            IN  /\ SumFunction(weighted) \in Nat /\ SumFunctionOnSet(weightOf, assessed) \in Nat
                /\ SumFunctionOnSet(weightOf, assessed) > 0
                /\ SumFunction(weighted) <= hundred * SumFunctionOnSet(weightOf, assessed)
        BY <1>10, <2>1, <3>1, MeanIsShare, Zenon
      <4>. HIDE DEF weighedScore
      <4>. QED
        BY <1>5, <4>1
    <3>. QED
      BY <3>2 DEF hundred
  <2>4. /\ SumFunction(weighedConfidence) \in Nat
        /\ SumFunction(weighedConfidence) <= One * weight
    <3>1. One \in Nat
      BY OneIs
    <3>. QED
      BY <1>5, <1>6, <1>10, <2>1, <3>1, MeanIsShare
  <2>5. weight <= 100
    BY <1>2, <1>4, <2>2, SumOfPart
  <2>6. ASSUME NEW s \in D, s \notin assessed PROVE weight <= 100 - weightOf[s]
    <3>1. 100 = weightOf[s] + SumFunctionOnSet(weightOf, D \ {s})
      BY <1>2, <2>2, SumTakes
    <3>2. IsFiniteSet(D \ {s}) /\ NaturalOn(weightOf, D \ {s}) /\ SumFunctionOnSet(weightOf, D \ {s}) \in Nat
      BY <1>2, <2>2, PartsOfFinite
    <3>3. assessed \in SUBSET (D \ {s})
      BY <1>4, <2>6
    <3>4. weight <= SumFunctionOnSet(weightOf, D \ {s})
      BY <3>2, <3>3, SumOfPart
    <3>5. weightOf[s] \in 1..100
      BY <1>2
    <3>. DEFINE rest == SumFunctionOnSet(weightOf, D \ {s})
    <3>. HIDE DEF rest, weight
    <3>. QED
      BY <2>3, <3>1, <3>2, <3>4, <3>5 DEF rest
  <2>7. damagePillar(p, surfaces) = some
    BY <1>1, <1>10
  <2>. DEFINE sum == SumFunction(weighedScore)
              sum2 == SumFunction(weighedConfidence)
              coverage == Share(weight, 100)
  <2>8. some.score = Rounded(sum, weight) /\ some.confidence = 10 * Rounded(sum2, 10 * weight)
        /\ some.coverage = coverage
    BY <1>3
  <2>. HIDE DEF weight, sum, sum2, some
  <2>9. Rounded(sum, weight) \in 0..100
    BY <2>3, RoundedMean DEF sum
  <2>10. Rounded(sum2, 10 * weight) \in 0..1000
    <3>1. 10 * weight \in Nat /\ 10 * weight > 0 /\ sum2 \in Nat /\ sum2 <= 1000 * (10 * weight)
      BY <2>3, <2>4, OneIs DEF sum2
    <3>. DEFINE n == 10 * weight
                k == 1000
    <3>2. n \in Nat /\ n > 0 /\ sum2 \in Nat /\ k \in Nat /\ sum2 <= k * n
      BY <3>1
    <3>. HIDE DEF n, k
    <3>3. Rounded(sum2, n) \in 0..k
      BY <3>2, RoundedMean
    <3>. QED
      BY <3>3 DEF n, k
  <2>11. coverage \in 0..One /\ 100 * coverage <= One * weight + 5 * 100
    BY <2>3, <2>5, ShareIsShare
  <2>. HIDE DEF coverage
  <2>12. ASSUME NEW s \in D, s \notin assessed PROVE coverage <= 10005 - 100 * weightOf[s]
    <3>1. weight <= 100 - weightOf[s] /\ weightOf[s] \in 1..100
      BY <1>2, <2>6, <2>12
    <3>. DEFINE w == weightOf[s]
    <3>. HIDE DEF w
    <3>2. coverage <= 10005 - 100 * w
      BY <2>3, <2>11, <3>1, OneIs DEF w
    <3>. QED
      BY <3>2 DEF w
  <2>13. Figures(some)
    <3>. DEFINE c == Rounded(sum2, 10 * weight)
    <3>. HIDE DEF c
    <3>1. 10 * c \in 0..One
      BY <2>10, OneIs DEF c
    <3>. QED
      BY <2>8, <2>9, <2>11, <3>1 DEF Figures, c
  <2>. QED
    BY <1>8, <2>7, <2>8, <2>12, <2>13 DEF D, weightOf
<1>. QED
  BY <1>9, <1>10

\* Wear is scored over the surfaces that were seen.
LEMMA BodyWearFigures ==
  ASSUME NEW surfaces, Judgeable(surfaces)
  PROVE  Figures(bodyWearPillar(surfaces))
<1>. DEFINE all == BODY_WEAR_SURFACES
            contributing == {s \in all : surfaces[s].assessable}
            confidenceOf == [s \in contributing |-> surfaces[s].confidence]
            wearOf == [s \in contributing |-> surfaces[s].wear]
            wear == UNION {surfaces[s].wear : s \in contributing}
            count == Cardinality(contributing)
            some == [scored |-> TRUE,
                     score |-> surfaceScore(wear),
                     confidence |-> 10 * Rounded(SumFunction(confidenceOf), 10 * count),
                     coverage |-> Share(count, Cardinality(all))]
<1>1. bodyWearPillar(surfaces) = IF contributing = {} THEN NoPillar ELSE some
  BY DEF bodyWearPillar
<1>2. all \in SUBSET Surface /\ contributing \in SUBSET all
  BY DEF BODY_WEAR_SURFACES, Surface
<1>3. IsFiniteSet(all) /\ IsFiniteSet(contributing)
  BY <1>2, SurfacesAreFinite, FS_Subset, Zenon
<1>4. CASE contributing = {}
  BY <1>1, <1>4, NoPillarFigures
<1>5. CASE contributing # {}
  <2>1. count \in Nat /\ Cardinality(all) \in Nat /\ count <= Cardinality(all)
    BY <1>2, <1>3, FS_CardinalityType, FS_Subset
  <2>2. count > 0
    <3>1. count # 0
      BY <1>3, <1>5, FS_EmptySet, Zenon
    <3>. HIDE DEF count
    <3>. QED
      BY <2>1, <3>1
  <2>3. wear = UNION {wearOf[s] : s \in contributing}
    OBVIOUS
  <2>4. \A s \in contributing : /\ Measurable(wearOf[s])
                                /\ wearOf[s] = surfaces[s].wear
                                /\ confidenceOf[s] = surfaces[s].confidence
                                /\ confidenceOf[s] \in 0..One
    BY <1>2 DEF Judgeable
  <2>5. SumFunction(confidenceOf) = SumFunctionOnSet(confidenceOf, contributing)
    BY DEF SumFunction
  <2>. DEFINE sum == SumFunctionOnSet(confidenceOf, contributing)
              coverage == Share(count, Cardinality(all))
              c == Rounded(sum, 10 * count)
  <2>. HIDE DEF wear, wearOf, confidenceOf, contributing
  <2>6. Measurable(wear)
    <3>1. IsFiniteSet({wearOf[s] : s \in contributing})
      BY <1>3, ImageIsFinite
    <3>2. \A w \in {wearOf[s] : s \in contributing} : IsFiniteSet(w)
      BY <2>4 DEF Measurable
    <3>3. IsFiniteSet(wear)
      BY <2>3, <3>1, <3>2, FS_UNION
    <3>4. \A r \in wear : r.raw.class \in DEFECT_CLASS_IDS /\ r.raw.area \in Nat
      BY <2>3, <2>4 DEF Measurable
    <3>. QED
      BY <3>3, <3>4 DEF Measurable
  <2>7. NaturalOn(confidenceOf, contributing) /\ \A s \in contributing : confidenceOf[s] <= One
    <3>1. ASSUME NEW s \in contributing PROVE confidenceOf[s] \in Nat /\ confidenceOf[s] <= One
      <4>1. confidenceOf[s] \in 0..One
        BY <2>4
      <4>2. 0 \in Nat /\ One \in Nat
        BY OneIs
      <4>. QED
        BY <4>1, <4>2, InRangeIsNatural, Zenon
    <3>. QED
      BY <3>1 DEF NaturalOn
  <2>8. sum \in Nat /\ sum <= 1000 * (10 * count)
    <3>1. \A s \in contributing : 1 * confidenceOf[s] <= 0 * confidenceOf[s] + One
      <4>. SUFFICES ASSUME NEW s \in contributing
                    PROVE  1 * confidenceOf[s] <= 0 * confidenceOf[s] + One
        OBVIOUS
      <4>1. confidenceOf[s] \in Nat /\ confidenceOf[s] <= One
        BY <2>7 DEF NaturalOn
      <4>. QED
        BY <4>1, OneIs
    <3>2. One \in Nat
      BY OneIs
    <3>3. sum \in Nat
      BY <1>3, <2>7, SumIsNatural
    <3>4. 1 * sum <= 0 * sum + One * count
      BY <1>3, <2>7, <3>1, <3>2, SumBounded
    <3>. HIDE DEF sum, count
    <3>. QED
      BY <2>1, <3>3, <3>4, OneIs
  <2>9. some = [scored |-> TRUE, score |-> surfaceScore(wear), confidence |-> 10 * c, coverage |-> coverage]
    BY <2>5
  <2>10. surfaceScore(wear) \in 0..100
    BY <2>6, SurfaceScoreBounds
  <2>11. coverage \in 0..One
    <3>. DEFINE n == Cardinality(all)
    <3>1. n \in Nat /\ n > 0 /\ count \in Nat /\ count <= n
      BY <2>1, <2>2
    <3>. HIDE DEF n, count
    <3>2. Share(count, n) \in 0..One
      BY <3>1, ShareIsShare
    <3>. QED
      BY <3>2 DEF n
  <2>12. 10 * c \in 0..One
    <3>. DEFINE n == 10 * count
                k == 1000
    <3>. HIDE DEF count, sum
    <3>1. n \in Nat /\ n > 0 /\ sum \in Nat /\ k \in Nat /\ sum <= k * n
      BY <2>1, <2>2, <2>8
    <3>. HIDE DEF n, k
    <3>2. Rounded(sum, n) \in 0..k
      BY <3>1, RoundedMean
    <3>. DEFINE d == Rounded(sum, n)
    <3>. HIDE DEF d
    <3>3. 10 * d \in 0..One
      BY <3>2, OneIs DEF k, d
    <3>. QED
      BY <3>3 DEF n, d
  <2>. HIDE DEF c, coverage, some
  <2>13. Figures(some)
    BY <2>9, <2>10, <2>11, <2>12 DEF Figures
  <2>. QED
    BY <1>1, <1>5, <2>13
<1>. QED
  BY <1>4, <1>5

PillarsAssessed(pillars) == \A p \in PhysicalPillar : Figures(pillars[p])

\* So are those of every pillar.
LEMMA PillarFigures ==
  ASSUME NEW surfaces, Judgeable(surfaces)
  PROVE  PillarsAssessed(Pillars(surfaces))
<1>. SUFFICES ASSUME NEW p \in PhysicalPillar
              PROVE  Figures(Pillars(surfaces)[p])
  BY DEF PillarsAssessed
<1>1. CASE p = "BODY_WEAR"
  <2>1. Pillars(surfaces)[p] = bodyWearPillar(surfaces)
    BY <1>1 DEF Pillars
  <2>. QED
    BY <2>1, BodyWearFigures
<1>2. CASE p # "BODY_WEAR"
  <2>1. p \in DamagePillar
    BY <1>2 DEF PhysicalPillar, PILLAR_WEIGHTS, DamagePillar
  <2>2. Pillars(surfaces)[p] = damagePillar(p, surfaces)
    BY <1>2 DEF Pillars
  <2>. QED
    BY <2>1, <2>2, DamagePillarFigures
<1>. QED
  BY <1>1, <1>2

\* A sum over the pillars, written out.
LEMMA SumOfPillars ==
  ASSUME NEW f, NaturalOn(f, PhysicalPillar)
  PROVE  SumFunctionOnSet(f, PhysicalPillar)
           = f["DISPLAY"] + f["FRAME"] + f["CAMERA"] + f["REAR_GLASS"] + f["BODY_WEAR"]
<1>. DEFINE S(T) == SumFunctionOnSet(f, T)
            T1 == {"BODY_WEAR"}
            T2 == {"REAR_GLASS", "BODY_WEAR"}
            T3 == {"CAMERA", "REAR_GLASS", "BODY_WEAR"}
            T4 == {"FRAME", "CAMERA", "REAR_GLASS", "BODY_WEAR"}
            T5 == {"DISPLAY", "FRAME", "CAMERA", "REAR_GLASS", "BODY_WEAR"}
<1>1. PhysicalPillar = T5
  BY DEF PhysicalPillar, PILLAR_WEIGHTS
<1>2. \A x \in T5 : f[x] \in Nat
  BY <1>1 DEF NaturalOn
<1>3. IsFiniteSet({"DISPLAY"} \cup {"FRAME"} \cup {"CAMERA"} \cup {"REAR_GLASS"} \cup {"BODY_WEAR"})
  <2>1. IsFiniteSet({"DISPLAY"} \cup {"FRAME"} \cup {"CAMERA"})
    BY FS_Singleton, FS_Union
  <2>2. IsFiniteSet({"DISPLAY"} \cup {"FRAME"} \cup {"CAMERA"} \cup {"REAR_GLASS"})
    BY <2>1, FS_Singleton, FS_Union, Zenon
  <2>. QED
    BY <2>2, FS_Singleton, FS_Union, Zenon
<1>4. IsFiniteSet(T5)
  <2>1. T5 = {"DISPLAY"} \cup {"FRAME"} \cup {"CAMERA"} \cup {"REAR_GLASS"} \cup {"BODY_WEAR"}
    OBVIOUS
  <2>. QED
    BY <1>3, <2>1, Zenon
<1>5. ASSUME NEW T \in SUBSET T5, NEW x \in T, NEW U, U = T \ {x} PROVE S(T) = f[x] + S(U)
  <2>1. IsFiniteSet(T) /\ NaturalOn(f, T)
    BY <1>2, <1>4, FS_Subset DEF NaturalOn
  <2>. QED
    BY <1>5, <2>1, SumTakes
<1>6. S(T1) = f["BODY_WEAR"]
  BY <1>2, SumOfOne
<1>. HIDE DEF S
<1>7. S(T2) = f["REAR_GLASS"] + S(T1)
  BY <1>5
<1>8. S(T3) = f["CAMERA"] + S(T2)
  BY <1>5
<1>9. S(T4) = f["FRAME"] + S(T3)
  BY <1>5
<1>10. S(T5) = f["DISPLAY"] + S(T4)
  BY <1>5
<1>. QED
  BY <1>1, <1>2, <1>6, <1>7, <1>8, <1>9, <1>10 DEF S

\* There are at most five pillars.
LEMMA PillarsAreFew == IsFiniteSet(PhysicalPillar) /\ Cardinality(PhysicalPillar) <= 5
<1>. DEFINE T2 == {"DISPLAY"} \cup {"FRAME"}
            T3 == T2 \cup {"CAMERA"}
            T4 == T3 \cup {"REAR_GLASS"}
            T5 == T4 \cup {"BODY_WEAR"}
<1>1. PhysicalPillar = T5
  BY DEF PhysicalPillar, PILLAR_WEIGHTS
<1>2. ASSUME NEW S, IsFiniteSet(S), NEW n \in Nat, Cardinality(S) <= n, NEW x
      PROVE  IsFiniteSet(S \cup {x}) /\ Cardinality(S \cup {x}) <= n + 1
  <2>1. /\ IsFiniteSet(S \cup {x})
        /\ Cardinality(S \cup {x}) = IF x \in S THEN Cardinality(S) ELSE Cardinality(S) + 1
    BY <1>2, FS_AddElement
  <2>2. Cardinality(S) \in Nat
    BY <1>2, FS_CardinalityType
  <2>. QED
    BY <1>2, <2>1, <2>2
<1>3. IsFiniteSet({"DISPLAY"}) /\ Cardinality({"DISPLAY"}) <= 1
  BY FS_Singleton
<1>4. IsFiniteSet(T2) /\ Cardinality(T2) <= 2
  BY <1>2, <1>3
<1>. HIDE DEF T2
<1>5. IsFiniteSet(T3) /\ Cardinality(T3) <= 3
  <2>1. 2 \in Nat
    OBVIOUS
  <2>2. IsFiniteSet(T3) /\ Cardinality(T3) <= 2 + 1
    BY <1>2, <1>4, <2>1, Zenon
  <2>. QED
    BY <2>2
<1>. HIDE DEF T3
<1>6. IsFiniteSet(T4) /\ Cardinality(T4) <= 4
  <2>1. 3 \in Nat
    OBVIOUS
  <2>2. IsFiniteSet(T4) /\ Cardinality(T4) <= 3 + 1
    BY <1>2, <1>5, <2>1, Zenon
  <2>. QED
    BY <2>2
<1>. HIDE DEF T4
<1>7. IsFiniteSet(T5) /\ Cardinality(T5) <= 5
  <2>1. 4 \in Nat
    OBVIOUS
  <2>2. IsFiniteSet(T5) /\ Cardinality(T5) <= 4 + 1
    BY <1>2, <1>6, <2>1, Zenon
  <2>. QED
    BY <2>2
<1>. QED
  BY <1>1, <1>7

\* What the pillars make of the whole picture.
Whole(v) ==
  30 * v["DISPLAY"] + 20 * v["FRAME"] + 20 * v["CAMERA"] + 15 * v["REAR_GLASS"] + 15 * v["BODY_WEAR"]

\* A mean over the pillars is a share, at most half a per mille above the exact one.
LEMMA OverPictureBounds ==
  ASSUME NEW value, \A p \in PhysicalPillar : value[p] \in 0..One
  PROVE  OverPicture(value) \in 0..One /\ 100 * OverPicture(value) <= Whole(value) + 500
<1>. DEFINE f == [p \in PhysicalPillar |-> value[p] * PILLAR_WEIGHTS[p]]
            a == value["DISPLAY"]
            b == value["FRAME"]
            c == value["CAMERA"]
            d == value["REAR_GLASS"]
            e == value["BODY_WEAR"]
<1>1. PhysicalPillar = {"DISPLAY", "FRAME", "CAMERA", "REAR_GLASS", "BODY_WEAR"}
  BY DEF PhysicalPillar, PILLAR_WEIGHTS
<1>2. /\ f["DISPLAY"] = a * 30 /\ f["FRAME"] = b * 20 /\ f["CAMERA"] = c * 20
      /\ f["REAR_GLASS"] = d * 15 /\ f["BODY_WEAR"] = e * 15
  BY <1>1 DEF PILLAR_WEIGHTS
<1>3. a \in 0..One /\ b \in 0..One /\ c \in 0..One /\ d \in 0..One /\ e \in 0..One
  BY <1>1
<1>4. SumFunction(f) = SumFunctionOnSet(f, PhysicalPillar)
  BY DEF SumFunction
<1>5. OverPicture(value) = 10 * Rounded(SumFunction(f), 1000)
  BY DEF OverPicture
<1>. HIDE DEF f, a, b, c, d, e
<1>6. /\ f["DISPLAY"] \in Nat /\ f["FRAME"] \in Nat /\ f["CAMERA"] \in Nat
      /\ f["REAR_GLASS"] \in Nat /\ f["BODY_WEAR"] \in Nat
  BY <1>2, <1>3, OneIs
<1>7. NaturalOn(f, PhysicalPillar)
  BY <1>1, <1>6 DEF NaturalOn
<1>8. SumFunction(f) = Whole(value)
  <2>1. SumFunction(f) = f["DISPLAY"] + f["FRAME"] + f["CAMERA"] + f["REAR_GLASS"] + f["BODY_WEAR"]
    BY <1>4, <1>7, SumOfPillars
  <2>2. SumFunction(f) = 30 * a + 20 * b + 20 * c + 15 * d + 15 * e
    BY <1>2, <1>3, <2>1, OneIs
  <2>. QED
    BY <2>2 DEF Whole, a, b, c, d, e
<1>9. Whole(value) \in Nat /\ Whole(value) <= 100 * One
  <2>1. Whole(value) = 30 * a + 20 * b + 20 * c + 15 * d + 15 * e
    BY DEF Whole, a, b, c, d, e
  <2>2. One \in Nat
    BY OneIs
  <2>3. Whole(value) \in Nat
    BY <1>3, <2>1, <2>2
  <2>4. Whole(value) <= 100 * One
    BY <1>3, <2>1, <2>2
  <2>. QED
    BY <2>3, <2>4
<1>. DEFINE w == Whole(value)
            r == Rounded(w, 1000)
<1>. HIDE DEF w
<1>10. w \in Nat /\ w <= 100 * One /\ OverPicture(value) = 10 * r
  BY <1>5, <1>8, <1>9 DEF w
<1>11. /\ r \in Nat /\ 2 * 1000 * r <= 2 * w + 1000
       /\ (2 * w + 1000 < (1000 + 1) * (2 * 1000) => r <= 1000)
  BY <1>10, OneIs, RoundedBounds
<1>. HIDE DEF r
<1>12. 10 * r \in 0..One /\ 100 * (10 * r) <= w + 500
  BY <1>10, <1>11, OneIs
<1>. QED
  BY <1>10, <1>12 DEF w

\* However the weights are damped, the shares of the pillars add up to One, but
\* for their roundings: the raw score is out of a hundred.
LEMMA RawScoreIsBounded ==
  ASSUME NEW pillars, PillarsAssessed(pillars)
  PROVE  RawScore(pillars) \in 0..100
<1>. DEFINE scoring == {p \in PhysicalPillar : pillars[p].scored}
            damped == [p \in scoring |-> dampWeight(PILLAR_WEIGHTS[p], pillars[p].confidence)]
            total == SumFunction(damped)
            of == [p \in scoring |-> Share(damped[p], total)]
            share == [p \in scoring |-> pillars[p].score * Share(damped[p], total)]
<1>1. RawScore(pillars) = Rounded(SumFunction(share), One)
  BY DEF RawScore
<1>2. scoring \in SUBSET PhysicalPillar
  OBVIOUS
<1>3. /\ SumFunction(damped) = SumFunctionOnSet(damped, scoring)
      /\ SumFunction(share) = SumFunctionOnSet(share, scoring)
  BY DEF SumFunction
<1>4. \A p \in scoring : /\ pillars[p].score \in 0..100 /\ pillars[p].confidence \in 0..One
                         /\ damped[p] = dampWeight(PILLAR_WEIGHTS[p], pillars[p].confidence)
                         /\ of[p] = Share(damped[p], total) /\ share[p] = pillars[p].score * of[p]
  BY <1>2 DEF PillarsAssessed, Figures
<1>5. IsFiniteSet(scoring) /\ Cardinality(scoring) \in Nat /\ Cardinality(scoring) <= 5
  <2>1. /\ IsFiniteSet(scoring) /\ Cardinality(scoring) <= Cardinality(PhysicalPillar)
    BY <1>2, PillarsAreFew, FS_Subset
  <2>2. Cardinality(scoring) \in Nat /\ Cardinality(PhysicalPillar) \in Nat
    BY <2>1, PillarsAreFew, FS_CardinalityType
  <2>. DEFINE n == Cardinality(scoring)
              m == Cardinality(PhysicalPillar)
  <2>3. m <= 5
    BY PillarsAreFew
  <2>4. n \in Nat /\ m \in Nat /\ n <= m
    BY <2>1, <2>2
  <2>. HIDE DEF n, m
  <2>5. n <= 5
    BY <2>3, <2>4
  <2>. QED
    BY <2>1, <2>2, <2>5 DEF n
<1>6. \A p \in PhysicalPillar : PILLAR_WEIGHTS[p] \in 15..30
  BY DEF PhysicalPillar, PILLAR_WEIGHTS
<1>. HIDE DEF scoring, damped, of, share, total
<1>7. ASSUME NEW p \in scoring PROVE damped[p] \in Nat /\ damped[p] > 0
  <2>. DEFINE w == PILLAR_WEIGHTS[p]
              c == pillars[p].confidence
              k == (60 * c) \div 100
  <2>1. w \in 15..30 /\ c \in 0..One /\ damped[p] = w * (4000 + k)
    BY <1>2, <1>4, <1>6 DEF dampWeight
  <2>. HIDE DEF w, c
  <2>2. k \in Nat
    BY <2>1, OneIs
  <2>. HIDE DEF k
  <2>3. w * (4000 + k) \in Nat /\ 15 * 4000 <= w * (4000 + k)
    <3>1. 15 <= w /\ w \in Nat /\ 4000 <= 4000 + k /\ 4000 + k \in Nat /\ 15 \in Nat /\ 4000 \in Nat
      BY <2>1, <2>2
    <3>. DEFINE m == 15
                n == 4000
                b == 4000 + k
    <3>2. m \in Nat /\ n \in Nat /\ b \in Nat /\ m <= w /\ n <= b /\ w \in Nat
      BY <3>1
    <3>. HIDE DEF m, n, b
    <3>3. w * b \in Nat /\ m * n <= w * b
      BY <3>2, ProductsGrow
    <3>. QED
      BY <3>3 DEF m, n, b
  <2>. DEFINE v == w * (4000 + k)
  <2>. HIDE DEF v
  <2>. QED
    BY <2>1, <2>3 DEF v
<1>8. NaturalOn(damped, scoring)
  BY <1>7 DEF NaturalOn
<1>9. CASE scoring = {}
  <2>1. SumFunction(share) = 0
    BY <1>3, <1>9, SumOfNone
  <2>2. Rounded(0, One) \in 0..100
    BY OneIs DEF Rounded
  <2>. QED
    BY <1>1, <2>1, <2>2
<1>10. CASE scoring # {}
  <2>1. total \in Nat /\ total > 0
    <3>1. PICK p \in scoring : TRUE
      BY <1>10
    <3>2. SumFunctionOnSet(damped, scoring) \in Nat /\ damped[p] <= SumFunctionOnSet(damped, scoring)
      BY <1>5, <1>8, TermIsInSum, SumIsNatural
    <3>3. total = SumFunctionOnSet(damped, scoring)
      BY <1>3 DEF total
    <3>4. damped[p] \in Nat /\ damped[p] > 0
      BY <1>7
    <3>. QED
      BY <3>2, <3>3, <3>4
  <2>2. ASSUME NEW p \in scoring
        PROVE  of[p] \in Nat /\ total * of[p] <= One * damped[p] + 5 * total
    BY <1>4, <1>7, <2>1, ShareIsShare
  <2>3. NaturalOn(of, scoring)
    BY <2>2 DEF NaturalOn
  <2>. DEFINE sum == SumFunctionOnSet(of, scoring)
              count == Cardinality(scoring)
  <2>4. sum \in Nat /\ total * sum <= One * total + (5 * total) * count
    <3>1. One \in Nat /\ 5 * total \in Nat
      BY <2>1, OneIs
    <3>. DEFINE five == 5 * total
    <3>. HIDE DEF five
    <3>2. \A p \in scoring : total * of[p] <= One * damped[p] + five
      BY <2>2 DEF five
    <3>3. total * SumFunctionOnSet(of, scoring) <= One * SumFunctionOnSet(damped, scoring) + five * Cardinality(scoring)
      BY <1>5, <1>8, <2>1, <2>3, <3>1, <3>2, SumBounded DEF five
    <3>4. total = SumFunctionOnSet(damped, scoring)
      BY <1>3 DEF total
    <3>5. sum \in Nat
      BY <1>5, <2>3, SumIsNatural
    <3>. QED
      BY <3>3, <3>4, <3>5 DEF five
  <2>5. sum <= 10025
    <3>1. count \in Nat /\ count <= 5
      BY <1>5
    <3>. HIDE DEF sum, count
    <3>2. (5 * total) * count <= (5 * total) * 5
      <4>1. 5 * total \in Nat /\ 5 * total <= 5 * total
        BY <2>1
      <4>. DEFINE f == 5 * total
                  k == 5
      <4>2. f \in Nat /\ f <= f /\ k \in Nat /\ count <= k
        BY <3>1, <4>1
      <4>. HIDE DEF f, k
      <4>3. f * count <= f * k
        BY <3>1, <4>2, ProductsGrow
      <4>. QED
        BY <4>3 DEF f, k
    <3>3. total * sum <= 10025 * total
      <4>1. (5 * total) * 5 = 25 * total /\ One * total = 10000 * total
        BY <2>1, OneIs
      <4>. DEFINE x == total * sum
                  y == (5 * total) * count
      <4>2. x \in Int /\ y \in Int
        BY <2>1, <2>4, <3>1
      <4>3. x <= 10000 * total + y /\ y <= 25 * total
        BY <2>4, <3>2, <4>1
      <4>. HIDE DEF x, y
      <4>4. x <= 10025 * total
        BY <2>1, <4>2, <4>3
      <4>. QED
        BY <4>4 DEF x
    <3>4. ASSUME sum > 10025 PROVE FALSE
      <4>1. total * 10026 <= total * sum
        <5>1. total \in Nat /\ total <= total /\ sum \in Nat /\ 10026 <= sum
          BY <2>1, <2>4, <3>4
        <5>. DEFINE n == 10026
        <5>2. n \in Nat /\ n <= sum
          BY <5>1
        <5>. HIDE DEF n
        <5>3. total * n <= total * sum
          BY <5>1, <5>2, ProductsGrow
        <5>. QED
          BY <5>3 DEF n
      <4>. DEFINE x == total * sum
      <4>2. x \in Int
        BY <2>1, <2>4
      <4>3. x <= 10025 * total /\ 10026 * total <= x
        BY <2>1, <3>3, <4>1
      <4>. HIDE DEF x
      <4>. QED
        BY <2>1, <4>2, <4>3
    <3>. QED
      BY <2>4, <3>4
  <2>6. ASSUME NEW p \in scoring PROVE share[p] \in Nat /\ share[p] <= 100 * of[p]
    <3>. DEFINE a == pillars[p].score
                b == of[p]
                hundred == 100
    <3>1. a \in Nat /\ a <= hundred /\ hundred \in Nat /\ b \in Nat /\ share[p] = a * b
      BY <1>4, <2>2
    <3>. HIDE DEF a, b, hundred
    <3>2. a * b \in Nat /\ a * b <= hundred * b
      BY <3>1, ProductsGrow
    <3>. QED
      BY <3>1, <3>2 DEF b, hundred
  <2>7. SumFunctionOnSet(share, scoring) \in Nat /\ SumFunctionOnSet(share, scoring) <= 100 * sum
    <3>1. NaturalOn(share, scoring)
      BY <2>6 DEF NaturalOn
    <3>. DEFINE hundred == 100
    <3>2. hundred \in Nat /\ \A p \in scoring : share[p] <= hundred * of[p]
      BY <2>6
    <3>. HIDE DEF hundred
    <3>3. SumFunctionOnSet(share, scoring) <= hundred * SumFunctionOnSet(of, scoring)
      BY <1>5, <2>3, <3>1, <3>2, SumScaled
    <3>4. SumFunctionOnSet(share, scoring) \in Nat
      BY <1>5, <3>1, SumIsNatural
    <3>. QED
      BY <3>3, <3>4 DEF hundred
  <2>. DEFINE n == SumFunction(share)
  <2>. HIDE DEF sum
  <2>8. n \in Nat /\ n <= 100 * 10025
    BY <1>3, <2>4, <2>5, <2>7
  <2>. HIDE DEF n
  <2>9. One \in Nat /\ One > 0 /\ 2 * n + One < (100 + 1) * (2 * One)
    BY <2>8, OneIs
  <2>10. Rounded(n, One) \in Nat /\ (2 * n + One < (100 + 1) * (2 * One) => Rounded(n, One) <= 100)
    <3>1. One \in Nat /\ One > 0
      BY OneIs
    <3>2. Rounded(n, One) \in Nat /\ \A k \in Nat : 2 * n + One < (k + 1) * (2 * One) => Rounded(n, One) <= k
      BY <2>8, <3>1, RoundedBounds
    <3>. QED
      BY <3>2
  <2>. QED
    BY <1>1, <2>9, <2>10 DEF n
<1>. QED
  BY <1>9, <1>10

-----------------------------------------------------------------------------
(***************************************************************************)
(* Gates and grades                                                        *)
(***************************************************************************)

\* A gate caps at a natural number.
LEMMA CapsAreNatural ==
  ASSUME NEW surfaces, NEW coverage, NEW detectorCalibrated
  PROVE  Caps(surfaces, coverage, detectorCalibrated) \subseteq Nat
<1>1. CalibrationGate(detectorCalibrated) \subseteq Nat
  BY DEF CalibrationGate, Gate
<1>2. SurfaceGates(surfaces) \subseteq Nat
  BY DEF SurfaceGates, SevereDamage, Gate
<1>3. CoverageGates(coverage) \subseteq Nat
  BY DEF CoverageGates, Gate
<1>. QED
  BY <1>1, <1>2, <1>3 DEF Caps

\* The two top grades begin where the code says.
LEMMA TopGradesBegin ==
  ASSUME NEW n \in 0..100
  PROVE  /\ gradeFor(n) = "PRISTINE" => n >= 97
         /\ gradeFor(n) = "EXCELLENT" => n >= 85
<1>. DEFINE a == n >= 97
            b == n >= 85
            c == n >= 70
            d == n >= 50
            e == n >= 25
<1>1. gradeFor(n) = CASE a -> "PRISTINE" [] b -> "EXCELLENT" [] c -> "GOOD"
    [] d -> "FAIR"     [] e -> "POOR"      [] OTHER -> "HEAVILY_DAMAGED"
  BY Zenon DEF gradeFor
<1>2. a => b
  OBVIOUS
<1>. HIDE DEF a, b, c, d, e
<1>3. gradeFor(n) = "PRISTINE" => a
  BY <1>1, Zenon
<1>4. gradeFor(n) = "EXCELLENT" => b
  BY <1>1, <1>2, Zenon
<1>. QED
  BY <1>3, <1>4 DEF a, b

\* The score is what the gates leave of the raw score.
Capped(q, raw, confidence, coverage, caps) ==
  /\ q.score \in 0..100 /\ q.rawScore = raw
  /\ q.confidence = confidence /\ q.coverage = coverage
  /\ \A cap \in caps : q.score <= cap
  /\ q.grade = "PRISTINE" => q.score >= 97
  /\ q.grade = "EXCELLENT" => q.score >= 85

\* The score stays below every gate that fires.
LEMMA GatesCap ==
  ASSUME NEW surfaces, NEW pillars, NEW raw \in 0..100, NEW confidence, NEW coverage, NEW detectorCalibrated
  PROVE  Capped(Scored(surfaces, pillars, raw, confidence, coverage, detectorCalibrated),
                raw, confidence, coverage, Caps(surfaces, coverage, detectorCalibrated))
<1>. DEFINE q == Scored(surfaces, pillars, raw, confidence, coverage, detectorCalibrated)
            caps == Caps(surfaces, coverage, detectorCalibrated)
            all == {100} \cup caps
            score == AtMost(raw, Min(all))
            grade == IF coverage = 0 \/ confidence < MinimumReportable
                     THEN "INSUFFICIENT_EVIDENCE" ELSE gradeFor(score)
<1>1. /\ q.score = score /\ q.rawScore = raw /\ q.confidence = confidence /\ q.coverage = coverage
      /\ q.grade = grade
  BY DEF Scored
<1>2. caps \subseteq Nat
  BY CapsAreNatural
<1>. HIDE DEF caps, q
<1>3. all # {} /\ all \subseteq Nat
  BY <1>2
<1>4. Min(all) \in Nat /\ \A cap \in all : Min(all) <= cap
  BY <1>3, MinOfNaturals
<1>. DEFINE least == Min(all)
<1>. HIDE DEF all, least
<1>5. least \in Nat /\ \A cap \in caps : cap \in Nat /\ least <= cap
  BY <1>2, <1>4 DEF all, least
<1>6. score \in 0..100 /\ score <= least
  BY <1>5 DEF AtMost, least
<1>7. \A cap \in caps : score <= cap
  BY <1>5, <1>6
<1>. HIDE DEF score
<1>8. /\ gradeFor(score) = "PRISTINE" => score >= 97
      /\ gradeFor(score) = "EXCELLENT" => score >= 85
  BY <1>6, TopGradesBegin
<1>9. /\ grade = "PRISTINE" => score >= 97
      /\ grade = "EXCELLENT" => score >= 85
  BY <1>8
<1>. HIDE DEF score, grade
<1>. QED
  BY <1>1, <1>6, <1>7, <1>8, <1>9 DEF Capped, q, caps

\* What a surface that is destroyed, a picture with holes and a detector nobody
\* measured add to the gates.
LEMMA GatesThatFire ==
  ASSUME NEW surfaces, NEW coverage \in Nat, NEW detectorCalibrated
  PROVE  LET caps == Caps(surfaces, coverage, detectorCalibrated)
         IN  /\ ~detectorCalibrated => 84 \in caps
             /\ \A s \in Surface :
                  surfaces[s].assessable /\ surfaces[s].score \in Nat =>
                    /\ surfaces[s].score < 20 => 40 \in caps
                    /\ surfaces[s].score < 40 => 40 \in caps \/ 55 \in caps
             /\ coverage < 9500 => \E cap \in caps : cap \in {70, 90, 96}
<1>. DEFINE caps == Caps(surfaces, coverage, detectorCalibrated)
<1>1. ~detectorCalibrated => 84 \in caps
  <2>1. ~detectorCalibrated => 84 \in CalibrationGate(detectorCalibrated)
    BY DEF CalibrationGate, Gate
  <2>. QED
    BY <2>1 DEF Caps
<1>2. ASSUME NEW s \in Surface, surfaces[s].assessable, surfaces[s].score \in Nat
      PROVE  /\ surfaces[s].score < 20 => 40 \in caps
             /\ surfaces[s].score < 40 => 40 \in caps \/ 55 \in caps
  <2>. DEFINE gates == SevereDamage(surfaces[s], surfaces[s].assessable)
              n == surfaces[s].score
  <2>1. gates \subseteq caps
    BY DEF Caps, SurfaceGates
  <2>2. n \in Nat /\ gates = Gate(40, n < 20) \cup Gate(55, n \in 20..39)
    BY <1>2 DEF SevereDamage, Gate
  <2>. HIDE DEF n, gates, caps
  <2>3. n < 20 => 40 \in gates
    BY <2>2 DEF Gate
  <2>4. n < 40 => n < 20 \/ n \in 20..39
    BY <2>2
  <2>5. n \in 20..39 => 55 \in gates
    BY <2>2 DEF Gate
  <2>. QED
    BY <2>1, <2>3, <2>4, <2>5 DEF n
<1>3. coverage < 9500 => \E cap \in caps : cap \in {70, 90, 96}
  <2>1. CoverageGates(coverage) \subseteq caps
    BY DEF Caps
  <2>. HIDE DEF caps
  <2>2. coverage < 9500 => coverage < 4000 \/ coverage \in 4000..6999 \/ coverage \in 7000..9499
    OBVIOUS
  <2>3. coverage < 4000 => 70 \in CoverageGates(coverage)
    BY DEF CoverageGates, Gate
  <2>4. coverage \in 4000..6999 => 90 \in CoverageGates(coverage)
    BY DEF CoverageGates, Gate
  <2>5. coverage \in 7000..9499 => 96 \in CoverageGates(coverage)
    BY DEF CoverageGates, Gate
  <2>. QED
    BY <2>1, <2>2, <2>3, <2>4, <2>5
<1>. HIDE DEF caps
<1>. QED
  BY <1>1, <1>2, <1>3 DEF caps

\* Enough of the picture for the best grade, in the scale of Whole.
Ample == 949500

\* The score of a handset: its figures, its caps, and what a top grade takes.
LEMMA ScoreFigures ==
  ASSUME NEW surfaces, Judgeable(surfaces), NEW detectorCalibrated
  PROVE  LET q == computePhysicalScore(surfaces, detectorCalibrated)
             coverageOf == [p \in PhysicalPillar |-> Pillars(surfaces)[p].coverage]
         IN  /\ q.score \in 0..100 /\ q.rawScore \in 0..100
             /\ q.confidence \in 0..One /\ q.coverage \in 0..One
             /\ \A s \in Surface : surfaces[s].assessable =>
                  /\ surfaces[s].score < 20 => q.score <= 40
                  /\ surfaces[s].score < 40 => q.score <= 55
             /\ q.grade \in {"PRISTINE", "EXCELLENT"} => detectorCalibrated
             /\ q.grade = "PRISTINE" => Whole(coverageOf) >= Ample
<1>. DEFINE pillars == Pillars(surfaces)
            q == computePhysicalScore(surfaces, detectorCalibrated)
            confidenceOf == [p \in PhysicalPillar |-> pillars[p].confidence]
            coverageOf == [p \in PhysicalPillar |-> pillars[p].coverage]
            raw == RawScore(pillars)
            confidence == OverPicture(confidenceOf)
            coverage == OverPicture(coverageOf)
            caps == Caps(surfaces, coverage, detectorCalibrated)
            w == Whole(coverageOf)
<1>1. q = Scored(surfaces, pillars, raw, confidence, coverage, detectorCalibrated)
  BY DEF computePhysicalScore, ScoreOfPillars
<1>2. PillarsAssessed(pillars)
  BY PillarFigures
<1>3. raw \in 0..100
  BY <1>2, RawScoreIsBounded
<1>4. \A p \in PhysicalPillar : confidenceOf[p] \in 0..One /\ coverageOf[p] \in 0..One
  BY <1>2 DEF PillarsAssessed, Figures
<1>. HIDE DEF pillars, confidenceOf, coverageOf
<1>5. confidence \in 0..One /\ coverage \in 0..One /\ 100 * coverage <= w + 500
  BY <1>4, OverPictureBounds
<1>. HIDE DEF raw, confidence, coverage, q, w, caps
<1>6. /\ q.score \in 0..100 /\ q.rawScore = raw
      /\ q.confidence = confidence /\ q.coverage = coverage
      /\ \A cap \in caps : q.score <= cap
      /\ q.grade = "PRISTINE" => q.score >= 97
      /\ q.grade = "EXCELLENT" => q.score >= 85
  <2>1. Capped(q, raw, confidence, coverage, caps)
    BY <1>1, <1>3, GatesCap, Zenon DEF caps
  <2>. QED
    BY <2>1 DEF Capped
<1>7. coverage \in Nat
  BY <1>5, OneIs
<1>8. /\ ~detectorCalibrated => 84 \in caps
      /\ \A s \in Surface :
           surfaces[s].assessable /\ surfaces[s].score \in Nat =>
             /\ surfaces[s].score < 20 => 40 \in caps
             /\ surfaces[s].score < 40 => 40 \in caps \/ 55 \in caps
      /\ coverage < 9500 => \E cap \in caps : cap \in {70, 90, 96}
  BY <1>7, GatesThatFire DEF caps
<1>. DEFINE n == q.score
<1>9. n \in 0..100 /\ \A cap \in caps : n <= cap
  BY <1>6
<1>. HIDE DEF n
<1>10. ASSUME NEW s \in Surface, surfaces[s].assessable
       PROVE  /\ surfaces[s].score < 20 => n <= 40
              /\ surfaces[s].score < 40 => n <= 55
  <2>1. surfaces[s].score \in Nat
    BY DEF Judgeable
  <2>2. /\ surfaces[s].score < 20 => 40 \in caps
        /\ surfaces[s].score < 40 => 40 \in caps \/ 55 \in caps
    BY <1>8, <1>10, <2>1
  <2>3. (40 \in caps => n <= 40) /\ (55 \in caps => n <= 55)
    BY <1>9
  <2>4. n <= 40 => n <= 55
    BY <1>9
  <2>. QED
    BY <2>2, <2>3, <2>4
<1>11. ASSUME n >= 85 PROVE detectorCalibrated
  <2>1. 84 \notin caps
    BY <1>9, <1>11
  <2>. QED
    BY <1>8, <2>1, Zenon
<1>12. ASSUME n >= 97 PROVE w >= Ample
  <2>1. \A cap \in caps : cap \notin {70, 90, 96}
    BY <1>9, <1>12
  <2>2. coverage >= 9500
    BY <1>7, <1>8, <2>1
  <2>3. w \in Int
    <3>1. ASSUME NEW p \in PhysicalPillar PROVE coverageOf[p] \in Nat
      <4>1. coverageOf[p] \in 0..One /\ 0 \in Nat /\ One \in Nat
        BY <1>4, OneIs
      <4>. QED
        BY <4>1, InRangeIsNatural, Zenon
    <3>2. PhysicalPillar = {"DISPLAY", "FRAME", "CAMERA", "REAR_GLASS", "BODY_WEAR"}
      BY DEF PhysicalPillar, PILLAR_WEIGHTS
    <3>. QED
      BY <3>1, <3>2 DEF w, Whole
  <2>. QED
    BY <1>5, <1>7, <2>2, <2>3 DEF Ample
<1>13. q.grade \in {"PRISTINE", "EXCELLENT"} => detectorCalibrated
  <2>1. q.grade \in {"PRISTINE", "EXCELLENT"} => n >= 85
    BY <1>6, <1>9 DEF n
  <2>. QED
    BY <1>11, <2>1
<1>14. q.grade = "PRISTINE" => w >= Ample
  BY <1>6, <1>12 DEF n
<1>15. n \in 0..100 /\ q.score = n
  BY <1>9 DEF n
<1>. QED
  BY <1>3, <1>5, <1>6, <1>10, <1>13, <1>14, <1>15 DEF q, w, coverageOf, pillars

\* With one of the larger surfaces unseen, or both of the smaller, the picture
\* is too thin for the best grade.
LEMMA LargeSurfacesAreNeeded ==
  ASSUME NEW surfaces, Judgeable(surfaces),
         Whole([p \in PhysicalPillar |-> Pillars(surfaces)[p].coverage]) >= Ample
  PROVE  \E s \in {"FRONT_CAMERA", "CHARGE_PORT"} : unassessed(surfaces) \subseteq {s}
<1>. DEFINE pillars == Pillars(surfaces)
            coverageOf == [p \in PhysicalPillar |-> pillars[p].coverage]
            a == coverageOf["DISPLAY"]
            b == coverageOf["FRAME"]
            c == coverageOf["CAMERA"]
            d == coverageOf["REAR_GLASS"]
            e == coverageOf["BODY_WEAR"]
            unseen(s) == ~surfaces[s].assessable
<1>1. \A p \in PhysicalPillar : coverageOf[p] \in 0..One /\ coverageOf[p] = pillars[p].coverage
  BY PillarFigures DEF PillarsAssessed, Figures
<1>2. PhysicalPillar = {"DISPLAY", "FRAME", "CAMERA", "REAR_GLASS", "BODY_WEAR"}
  BY DEF PhysicalPillar, PILLAR_WEIGHTS
<1>3. a \in 0..One /\ b \in 0..One /\ c \in 0..One /\ d \in 0..One /\ e \in 0..One
  <2>. HIDE DEF coverageOf
  <2>. QED
    BY <1>1, <1>2
<1>4. ASSUME NEW p \in DamagePillar, NEW s \in DOMAIN PILLAR_SURFACES[p], unseen(s)
      PROVE  coverageOf[p] <= 10005 - 100 * PILLAR_SURFACES[p][s]
  <2>1. p \in PhysicalPillar /\ p # "BODY_WEAR"
    BY <1>2 DEF DamagePillar
  <2>2. pillars[p] = damagePillar(p, surfaces)
    BY <2>1 DEF Pillars
  <2>. QED
    BY <1>1, <1>4, <2>1, <2>2, DamagePillarFigures
<1>5. 30 * a + 20 * b + 20 * c + 15 * d + 15 * e >= Ample
  BY DEF Whole
<1>. HIDE DEF coverageOf
<1>6. unseen("DISPLAY_ACTIVE_AREA") => a <= 4005
  <2>1. "DISPLAY" \in DamagePillar /\ "DISPLAY_ACTIVE_AREA" \in DOMAIN PILLAR_SURFACES["DISPLAY"]
        /\ PILLAR_SURFACES["DISPLAY"]["DISPLAY_ACTIVE_AREA"] = 60
    BY DEF DamagePillar, PILLAR_SURFACES
  <2>. QED
    BY <1>4, <2>1
<1>7. unseen("FRONT_GLASS") => a <= 6005
  <2>1. "DISPLAY" \in DamagePillar /\ "FRONT_GLASS" \in DOMAIN PILLAR_SURFACES["DISPLAY"]
        /\ PILLAR_SURFACES["DISPLAY"]["FRONT_GLASS"] = 40
    BY DEF DamagePillar, PILLAR_SURFACES
  <2>. QED
    BY <1>4, <2>1
<1>8. unseen("FRAME") => b <= 2005
  <2>1. "FRAME" \in DamagePillar /\ "FRAME" \in DOMAIN PILLAR_SURFACES["FRAME"]
        /\ PILLAR_SURFACES["FRAME"]["FRAME"] = 80
    BY DEF DamagePillar, PILLAR_SURFACES
  <2>. QED
    BY <1>4, <2>1
<1>9. unseen("CHARGE_PORT") => b <= 8005
  <2>1. "FRAME" \in DamagePillar /\ "CHARGE_PORT" \in DOMAIN PILLAR_SURFACES["FRAME"]
        /\ PILLAR_SURFACES["FRAME"]["CHARGE_PORT"] = 20
    BY DEF DamagePillar, PILLAR_SURFACES
  <2>. QED
    BY <1>4, <2>1
<1>10. unseen("REAR_CAMERA") => c <= 1505
  <2>1. "CAMERA" \in DamagePillar /\ "REAR_CAMERA" \in DOMAIN PILLAR_SURFACES["CAMERA"]
        /\ PILLAR_SURFACES["CAMERA"]["REAR_CAMERA"] = 85
    BY DEF DamagePillar, PILLAR_SURFACES
  <2>. QED
    BY <1>4, <2>1
<1>11. unseen("FRONT_CAMERA") => c <= 8505
  <2>1. "CAMERA" \in DamagePillar /\ "FRONT_CAMERA" \in DOMAIN PILLAR_SURFACES["CAMERA"]
        /\ PILLAR_SURFACES["CAMERA"]["FRONT_CAMERA"] = 15
    BY DEF DamagePillar, PILLAR_SURFACES
  <2>. QED
    BY <1>4, <2>1
<1>12. unseen("REAR_GLASS") => d <= 5
  <2>1. "REAR_GLASS" \in DamagePillar /\ "REAR_GLASS" \in DOMAIN PILLAR_SURFACES["REAR_GLASS"]
        /\ PILLAR_SURFACES["REAR_GLASS"]["REAR_GLASS"] = 100
    BY DEF DamagePillar, PILLAR_SURFACES
  <2>. QED
    BY <1>4, <2>1
<1>. HIDE DEF a, b, c, d, e
<1>13. a > 6005 /\ b > 2005 /\ c > 1505 /\ d > 5 /\ (b > 8005 \/ c > 8505)
  <2>. DEFINE u == 30 * a
              v == 20 * b
              w == 20 * c
              x == 15 * d
              y == 15 * e
  <2>1. u \in Int /\ v \in Int /\ w \in Int /\ x \in Int /\ y \in Int
    BY <1>3, OneIs
  <2>2. u <= 300000 /\ v <= 200000 /\ w <= 200000 /\ x <= 150000 /\ y <= 150000
    BY <1>3, OneIs
  <2>3. u + v + w + x + y >= 949500
    BY <1>5 DEF Ample
  <2>4. a <= 6005 => u <= 180150
    BY <1>3, OneIs
  <2>5. b <= 2005 => v <= 40100
    BY <1>3, OneIs
  <2>6. c <= 1505 => w <= 30100
    BY <1>3, OneIs
  <2>7. d <= 5 => x <= 75
    BY <1>3, OneIs
  <2>8. (b <= 8005 => v <= 160100) /\ (c <= 8505 => w <= 170100)
    BY <1>3, OneIs
  <2>. HIDE DEF u, v, w, x, y
  <2>9. ~(a <= 6005) /\ ~(b <= 2005)
    BY <2>1, <2>2, <2>3, <2>4, <2>5
  <2>10. ~(c <= 1505) /\ ~(d <= 5)
    BY <2>1, <2>2, <2>3, <2>6, <2>7
  <2>11. ~(b <= 8005) \/ ~(c <= 8505)
    BY <2>1, <2>2, <2>3, <2>8
  <2>12. a \in Int /\ b \in Int /\ c \in Int /\ d \in Int
    BY <1>3, OneIs
  <2>. QED
    BY <2>9, <2>10, <2>11, <2>12
<1>0. a \in Int /\ b \in Int /\ c \in Int /\ d \in Int
  BY <1>3, OneIs
<1>15. ~unseen("DISPLAY_ACTIVE_AREA") /\ ~unseen("FRONT_GLASS")
  BY <1>0, <1>6, <1>7, <1>13
<1>16. ~unseen("FRAME") /\ ~unseen("REAR_CAMERA") /\ ~unseen("REAR_GLASS")
  BY <1>0, <1>8, <1>10, <1>12, <1>13
<1>17. ~unseen("CHARGE_PORT") \/ ~unseen("FRONT_CAMERA")
  BY <1>0, <1>9, <1>11, <1>13
<1>18. unassessed(surfaces) = {s \in Surface : unseen(s)}
  BY DEF unassessed, unseen
<1>19. \A s \in unassessed(surfaces) : s \in {"FRONT_CAMERA", "CHARGE_PORT"} /\ unseen(s)
  BY <1>15, <1>16, <1>18 DEF Surface
<1>. QED
  BY <1>17, <1>19

-----------------------------------------------------------------------------
(***************************************************************************)
(* One surface                                                             *)
(***************************************************************************)

\* A ledger that can be scored: finite, with reliabilities in percent, and
\* with a class and an area for everything that was detected.
Sturdy(known) ==
  /\ IsFiniteSet(known)
  /\ \A r \in known : /\ r.reliability \in 0..100
                      /\ r.kind = "VISUAL_OBSERVATION" =>
                           r.raw.class \in DEFECT_CLASS_IDS /\ r.raw.area \in Nat

Tables == [DEFECT_CLASS_IDS -> Calibrations]

\* An inference that cites the ledger, and can be weighed.
Cited(known, i) ==
  /\ i.evidence # {} /\ i.evidence \subseteq known
  /\ i.weight \in Nat /\ i.confidence \in 0..One

\* An inference drawn from records of the ledger cites them, with a share of strength.
LEMMA DerivedIsCited ==
  ASSUME NEW known, Sturdy(known), NEW cited \in SUBSET known, cited # {},
         NEW weight \in Nat, NEW strength \in 0..100, NEW subject, NEW rule, NEW direction
  PROVE  Cited(known, Inference(subject, rule, direction, weight, strength, cited))
<1>. DEFINE i == Inference(subject, rule, direction, weight, strength, cited)
            reliabilities == {r.reliability : r \in cited}
            least == Min0(reliabilities)
<1>1. reliabilities # {} /\ \A n \in reliabilities : n \in 0..100
  BY DEF Sturdy
<1>2. i.evidence = cited /\ i.weight = weight /\ i.confidence = strength * least
  BY DEF Inference, derive
<1>3. least = Min(reliabilities)
  BY <1>1 DEF Min0
<1>. HIDE DEF reliabilities, i
<1>4. least \in 0..100
  <2>1. reliabilities \subseteq Nat
    BY <1>1
  <2>. HIDE DEF least
  <2>2. least \in reliabilities
    BY <1>1, <1>3, <2>1, MinOfNaturals, Zenon
  <2>. QED
    BY <1>1, <2>2
<1>. HIDE DEF least
<1>5. strength * least \in 0..One
  <2>. DEFINE hundred == 100
  <2>1. /\ strength \in Nat /\ strength <= hundred /\ least \in Nat /\ least <= hundred
        /\ hundred \in Nat
    BY <1>4
  <2>. HIDE DEF hundred
  <2>2. strength * least \in Nat /\ strength * least <= hundred * hundred
    BY <2>1, ProductsGrow
  <2>. DEFINE c == strength * least
  <2>3. c \in Nat /\ c <= hundred * hundred
    BY <2>2
  <2>. HIDE DEF c
  <2>4. c \in 0..One
    BY <2>3, OneIs DEF hundred
  <2>. QED
    BY <2>4 DEF c
<1>. QED
  BY <1>2, <1>5 DEF Cited, i

\* What a clean surface is worth is a share under every table.
LEMMA CleanIsWorthAShare ==
  ASSUME NEW s \in Surface, NEW cal \in Tables
  PROVE  cleanRuleConfidence(s, cal) \in 0..100
<1>. DEFINE recalls == {cal[c].recall : c \in classesForSurface[s]}
            measured == \A c \in classesForSurface[s] : isMeasured(cal[c])
<1>1. cleanRuleConfidence(s, cal) = IF measured THEN Min(recalls) ELSE 35
  BY DEF cleanRuleConfidence
<1>2. recalls # {} /\ \A n \in recalls : n \in 0..100
  BY EverySurfaceHasAClass DEF Tables, Calibrations
<1>. HIDE DEF recalls, measured
<1>3. Min(recalls) \in 0..100
  <2>1. recalls \subseteq Nat
    BY <1>2
  <2>2. Min(recalls) \in recalls
    BY <1>2, <2>1, MinOfNaturals, Zenon
  <2>. QED
    BY <1>2, <2>2
<1>. QED
  BY <1>1, <1>3

\* The reliability a table gives a class is a share.
LEMMA ReliabilityIsShare ==
  ASSUME NEW class \in DEFECT_CLASS_IDS, NEW cal \in Tables
  PROVE  reliabilityFor(class, cal) \in 0..100
<1>1. cal[class].precision \in 0..100
  BY DEF Tables, Calibrations
<1>. QED
  BY <1>1 DEF reliabilityFor, AtMost, AtLeast

\* What a surface contributes to the report.
Assessment(known, a) ==
  /\ a.confidence \in 0..One /\ a.score \in 0..100
  /\ a.defects \subseteq known /\ a.wear \subseteq known
  /\ Measurable(a.defects) /\ Measurable(a.wear)
  /\ a.assessable => a.score = surfaceScore(a.defects)
  /\ \A i \in a.inferences : Cited(known, i)
  /\ a.verdict.confidence \in 0..One
  /\ a.verdict.determined => a.inferences # {} /\ a.verdict.confidence # 0
  /\ a.verdict.inferences = a.inferences
  /\ a.verdict.evidence = UNION {i.evidence : i \in a.inferences}

\* A confidence drawn from at least one inference is a share, and never nothing.
LEMMA FlooredIsShare ==
  ASSUME NEW inferences, Weighed(inferences)
  PROVE  Floored(inferences) \in 0..One /\ Floored(inferences) # 0
<1>. DEFINE c == verdictConfidence(inferences, 0)
<1>1. c \in 0..One
  <2>1. 0 \in Nat
    OBVIOUS
  <2>. QED
    BY <2>1, VerdictConfidenceIsShare
<1>2. Floored(inferences) = AtLeast(c, 2000)
  BY DEF Floored
<1>. HIDE DEF c
<1>. QED
  BY <1>1, <1>2, OneIs DEF AtLeast

LEMMA NoDefectsAreMeasurable == Measurable({})
BY FS_EmptySet DEF Measurable

\* A judged surface has a score and a confidence on the scale.
LEMMA JudgedIsAnAssessment ==
  ASSUME NEW known, NEW s \in Surface, NEW records \in SUBSET known, Measurable(records),
         NEW inferences, inferences # {}, IsFiniteSet(inferences), \A i \in inferences : Cited(known, i)
  PROVE  Assessment(known, Judged(s, records, inferences))
<1>. DEFINE a == Judged(s, records, inferences)
            defects == {r \in records : ~isWearClass(r.raw.class)}
            wear == {r \in records : isWearClass(r.raw.class)}
            confidence == Floored(inferences)
            value == ConditionVerdict(surfaceScore(defects))
            verdict == Verdict(SURFACE_SUBJECT[s], value, TRUE, confidence, inferences)
<1>1. /\ a.defects = defects /\ a.wear = wear /\ a.score = surfaceScore(defects)
      /\ a.confidence = confidence /\ a.inferences = inferences /\ a.verdict = verdict
  BY DEF Judged, Assessed
<1>2. /\ verdict.confidence = AtMost(confidence, One) /\ verdict.inferences = inferences
      /\ verdict.evidence = UNION {i.evidence : i \in inferences}
  BY DEF Verdict
<1>3. Weighed(inferences)
  BY DEF Weighed, Cited
<1>4. Measurable(defects) /\ Measurable(wear)
  BY FS_Subset DEF Measurable
<1>5. defects \subseteq known /\ wear \subseteq known
  OBVIOUS
<1>. HIDE DEF a, defects, wear, verdict, confidence
<1>6. surfaceScore(defects) \in 0..100
  BY <1>4, SurfaceScoreBounds
<1>7. confidence \in 0..One /\ confidence # 0
  BY <1>3, FlooredIsShare DEF confidence
<1>8. AtMost(confidence, One) = confidence
  BY <1>7, OneIs DEF AtMost
<1>. QED
  BY <1>1, <1>2, <1>4, <1>5, <1>6, <1>7, <1>8 DEF Assessment, a

\* An unjudged surface has neither score nor confidence.
LEMMA UnjudgedIsAnAssessment ==
  ASSUME NEW known, NEW subject, NEW inferences, \A i \in inferences : Cited(known, i)
  PROVE  Assessment(known, NotAssessed(subject, inferences))
<1>. DEFINE a == NotAssessed(subject, inferences)
            verdict == Verdict(subject, "CANNOT_DETERMINE", FALSE, 0, inferences)
<1>1. /\ a.defects = {} /\ a.wear = {} /\ a.score = 0 /\ a.confidence = 0 /\ ~a.assessable
      /\ a.inferences = inferences /\ a.verdict = verdict
  BY DEF NotAssessed, Unjudged, Abstains
<1>2. /\ verdict.confidence = 0 /\ ~verdict.determined /\ verdict.inferences = inferences
      /\ verdict.evidence = UNION {i.evidence : i \in inferences}
  BY DEF Verdict
<1>. HIDE DEF a, verdict
<1>3. 0 \in 0..One /\ 0 \in 0..100
  BY OneIs
<1>. QED
  BY <1>1, <1>2, <1>3, NoDefectsAreMeasurable DEF Assessment, a

\* Every surface of the handset is assessed, one way or the other.
LEMMA SurfacesAreAssessed ==
  ASSUME NEW known, Sturdy(known), NEW s \in Surface, NEW cal \in Tables
  PROVE  Assessment(known, Assessments(known, cal)[s])
<1>. DEFINE usable == UsableCaptures(known, s)
            failed == failedCaptures(known, s)
            records == DefectsOn(known, s)
            part == SURFACE_SUBJECT[s]
<1>1. Assessments(known, cal)[s] = AssessSurface(s, usable, failed, records, cal)
  BY DEF Assessments
<1>2. usable \in SUBSET known /\ failed \in SUBSET known
  BY DEF UsableCaptures, failedCaptures, captureRecordsFor, forSubject
<1>3. records \in SUBSET known /\ \A r \in records : r.kind = "VISUAL_OBSERVATION"
  BY DEF DefectsOn, defectRecordsFor, forSubject
<1>. HIDE DEF usable, failed, records, part
<1>4. Measurable(records)
  BY <1>3, FS_Subset DEF Measurable, Sturdy
<1>5. CASE usable = {}
  <2>1. ASSUME NEW i \in ViewUnusable(part, failed) PROVE Cited(known, i)
    <3>1. /\ i = Inference(part, "view-unusable", "REDUCES_DETERMINACY", 100, 100, failed)
          /\ failed # {}
      BY DEF ViewUnusable
    <3>2. 100 \in Nat /\ 100 \in 0..100
      OBVIOUS
    <3>. QED
      BY <1>2, <3>1, <3>2, DerivedIsCited
  <2>2. AssessSurface(s, usable, failed, records, cal) = NotAssessed(part, ViewUnusable(part, failed))
    BY <1>5 DEF AssessSurface, part
  <2>. QED
    BY <1>1, <2>1, <2>2, UnjudgedIsAnAssessment
<1>6. CASE usable # {} /\ records = {}
  <2>. DEFINE i == PhotographedClean(s, usable, cal)
  <2>1. Cited(known, i)
    <3>1. 90 \in Nat /\ cleanRuleConfidence(s, cal) \in 0..100
      BY CleanIsWorthAShare
    <3>. QED
      BY <1>2, <1>6, <3>1, DerivedIsCited DEF PhotographedClean
  <2>. HIDE DEF i
  <2>2. IsFiniteSet({i})
    BY FS_Singleton
  <2>3. AssessSurface(s, usable, failed, records, cal) = Judged(s, records, {i})
    BY <1>6 DEF AssessSurface, i
  <2>. QED
    BY <1>1, <1>3, <1>4, <2>1, <2>2, <2>3, JudgedIsAnAssessment
<1>7. CASE usable # {} /\ records # {}
  <2>. DEFINE of == [r \in records |-> DefectInference(r, cal)]
              inferences == {DefectInference(r, cal) : r \in records}
  <2>1. ASSUME NEW i \in inferences PROVE Cited(known, i)
    <3>1. PICK r \in records : i = DefectInference(r, cal)
      OBVIOUS
    <3>. DEFINE e == effect(r.raw.class, r.raw.area)
                weight == e \div 100
    <3>2. e \in 0..One
      BY <1>4, EffectIsShare DEF Measurable
    <3>. HIDE DEF e
    <3>3. weight \in Nat
      BY <3>2, OneIs
    <3>4. i = Inference(r.subject, r.raw.class, "SUPPORTS_NEGATIVE", weight, 95, {r})
      BY <3>1 DEF DefectInference, e
    <3>5. {r} \in SUBSET known /\ {r} # {} /\ 95 \in 0..100
      BY <1>3
    <3>. HIDE DEF weight
    <3>. QED
      BY <3>3, <3>4, <3>5, DerivedIsCited
  <2>2. inferences = {of[r] : r \in records} /\ inferences # {}
    BY <1>7
  <2>3. IsFiniteSet(records)
    BY <1>4 DEF Measurable
  <2>4. AssessSurface(s, usable, failed, records, cal) = Judged(s, records, inferences)
    BY <1>7 DEF AssessSurface
  <2>. HIDE DEF inferences, of
  <2>5. IsFiniteSet(inferences)
    BY <2>2, <2>3, ImageIsFinite
  <2>. QED
    BY <1>1, <1>3, <1>4, <2>1, <2>2, <2>4, <2>5, JudgedIsAnAssessment
<1>. QED
  BY <1>5, <1>6, <1>7

-----------------------------------------------------------------------------
(***************************************************************************)
(* Types                                                                   *)
(***************************************************************************)

DistinctIds(known) == \A x, y \in known : evidenceId(x) = evidenceId(y) => x = y

Evaluated(known) ==
  report = {} \/ \E cal \in Tables : report = {evaluatePhysical(known, cal)}

Typed ==
  /\ phase \in {"idle", "detecting", "reported", "replayed"}
  /\ images \subseteq DOMAIN Pictures /\ offered \subseteq Sightings
  /\ table \in Tables
  /\ Sturdy(ledger) /\ DistinctIds(ledger)
  /\ Evaluated(ledger)

\* The table the module starts with is a table.
LEMMA PlaceholderIsATable == PLACEHOLDER_TABLE \in Tables
<1>. DEFINE entry == [operatingThreshold |-> 85, precision |-> 50, recall |-> 0, sampleSize |-> 0,
                      benchmarkVersion |-> Unmeasured]
<1>1. entry \in Calibrations
  BY WordsAssumption DEF Calibrations
<1>2. PLACEHOLDER_TABLE = [c \in DEFECT_CLASS_IDS |-> entry]
  BY DEF PLACEHOLDER_TABLE
<1>. HIDE DEF entry
<1>. QED
  BY <1>1, <1>2 DEF Tables

\* The records of an inspection, one by one.
LEMMA CapturesAreSturdy ==
  ASSUME NEW captures \in SUBSET DOMAIN Pictures, NEW accepted
  PROVE  /\ Sturdy(CaptureRecords(captures, accepted))
         /\ DistinctIds(CaptureRecords(captures, accepted))
<1>. DEFINE shown(i) == viewSpec[Pictures[i].view].surfaces
            all == CaptureRecords(captures, accepted)
            parts == [i \in captures |-> {CaptureRecord(i, s, accepted) : s \in shown(i)}]
<1>1. all = UNION {parts[i] : i \in captures}
  BY DEF CaptureRecords
<1>2. IsFiniteSet(captures)
  BY PhysicalAssumption, FS_Subset
<1>3. ASSUME NEW i \in captures PROVE IsFiniteSet(parts[i])
  <2>1. IsFiniteSet(shown(i))
    <3>1. Pictures[i].view \in CaptureView
      BY PhysicalAssumption
    <3>2. shown(i) \subseteq Surface
      BY <3>1, ViewsShowSurfaces
    <3>. QED
      BY <3>2, SurfacesAreFinite, FS_Subset
  <2>. DEFINE S == shown(i)
              f == [s \in S |-> CaptureRecord(i, s, accepted)]
  <2>2. parts[i] = {f[s] : s \in S}
    OBVIOUS
  <2>. HIDE DEF S, f, parts
  <2>. QED
    BY <2>1, <2>2, ImageIsFinite DEF S
<1>4. IsFiniteSet(all)
  <2>. HIDE DEF parts, all
  <2>1. IsFiniteSet({parts[i] : i \in captures})
    BY <1>2, ImageIsFinite
  <2>2. \A p \in {parts[i] : i \in captures} : IsFiniteSet(p)
    BY <1>3
  <2>. QED
    BY <1>1, <2>1, <2>2, FS_UNION
<1>5. ASSUME NEW r \in all
      PROVE  \E i \in captures : \E s \in shown(i) : r = CaptureRecord(i, s, accepted)
  BY DEF CaptureRecords
<1>6. ASSUME NEW r \in all
      PROVE  /\ r.kind = "DEVICE_PROPERTY" \/ r.kind = "COLLECTION_FAILURE"
             /\ r.reliability \in 0..100
  <2>1. PICK i, s : /\ i \in captures /\ s \in shown(i)
                    /\ r = CaptureRecord(i, s, accepted)
    BY <1>5
  <2>2. /\ r.kind = "DEVICE_PROPERTY" \/ r.kind = "COLLECTION_FAILURE"
        /\ r.reliability = 90 \/ r.reliability = 100
    BY <2>1 DEF CaptureRecord, Evidence, ChannelReliability
  <2>. QED
    BY <2>2
<1>7. ASSUME NEW x \in all, NEW y \in all, evidenceId(x) = evidenceId(y)
      PROVE  x = y
  <2>1. PICK i, s : /\ i \in captures /\ s \in shown(i)
                    /\ x = CaptureRecord(i, s, accepted)
    BY <1>5
  <2>2. PICK j, t : /\ j \in captures /\ t \in shown(j)
                    /\ y = CaptureRecord(j, t, accepted)
    BY <1>5
  <2>3. x.kind = y.kind /\ x.subject = y.subject /\ x.key = y.key /\ x.value = y.value
    BY <1>7 DEF evidenceId
  <2>4. x.subject = SURFACE_SUBJECT[s] /\ y.subject = SURFACE_SUBJECT[t]
    BY <2>1, <2>2, CaptureFields
  <2>5. x.key = <<"ViewCaptured", Pictures[i].view>> /\ y.key = <<"ViewCaptured", Pictures[j].view>>
    BY <2>1, <2>2, CaptureFields
  <2>6. CASE i \in accepted /\ j \in accepted
    <3>1. /\ x = Evidence("DEVICE_PROPERTY", SURFACE_SUBJECT[s], <<"ViewCaptured", Pictures[i].view>>,
                          <<i, "">>, "capture", ChannelReliability["capture"], NoRaw)
          /\ y = Evidence("DEVICE_PROPERTY", SURFACE_SUBJECT[t], <<"ViewCaptured", Pictures[j].view>>,
                          <<j, "">>, "capture", ChannelReliability["capture"], NoRaw)
      BY <2>1, <2>2, <2>6 DEF CaptureRecord
    <3>2. x.value = <<i, "">> /\ y.value = <<j, "">>
      BY <3>1 DEF Evidence
    <3>3. i = j
      <4>1. <<i, "">> = <<j, "">>
        BY <2>3, <3>2
      <4>. QED
        BY <4>1
    <3>. QED
      BY <2>3, <2>4, <3>1, <3>3
  <2>7. CASE i \notin accepted /\ j \notin accepted
    <3>1. /\ x = Evidence("COLLECTION_FAILURE", SURFACE_SUBJECT[s], <<"ViewCaptured", Pictures[i].view>>,
                          <<"PARSE_ERROR", "">>, "capture", 100, NoRaw)
          /\ y = Evidence("COLLECTION_FAILURE", SURFACE_SUBJECT[t], <<"ViewCaptured", Pictures[j].view>>,
                          <<"PARSE_ERROR", "">>, "capture", 100, NoRaw)
      BY <2>1, <2>2, <2>7 DEF CaptureRecord
    <3>. QED
      BY <2>3, <2>4, <2>5, <3>1
  <2>8. CASE ~(i \in accepted <=> j \in accepted)
    <3>1. x.kind # y.kind
      BY <2>1, <2>2, <2>8, CaptureFields
    <3>. QED
      BY <2>3, <3>1
  <2>. QED
    BY <2>6, <2>7, <2>8
<1>. HIDE DEF all
<1>8. Sturdy(all)
  BY <1>4, <1>6 DEF Sturdy
<1>9. DistinctIds(all)
  BY <1>7 DEF DistinctIds
<1>. QED
  BY <1>8, <1>9 DEF all

\* The record of an image the detector gave up on is a record like others.
LEMMA FailedRunsAreSturdy ==
  ASSUME NEW failed \in SUBSET DOMAIN Pictures
  PROVE  Sturdy(DetectorFailures(failed)) /\ DistinctIds(DetectorFailures(failed))
<1>. DEFINE shown(i) == viewSpec[Pictures[i].view].surfaces
            record(i, s) == Evidence("COLLECTION_FAILURE", SURFACE_SUBJECT[s], <<"DetectionRun", i>>,
                                     <<"UNKNOWN", "">>, "vision", 100, NoRaw)
            all == DetectorFailures(failed)
            parts == [i \in failed |-> {record(i, s) : s \in shown(i)}]
<1>1. all = UNION {parts[i] : i \in failed}
  BY DEF DetectorFailures
<1>2. IsFiniteSet(failed)
  BY PhysicalAssumption, FS_Subset
<1>3. ASSUME NEW i \in failed PROVE IsFiniteSet(parts[i])
  <2>1. IsFiniteSet(shown(i))
    <3>1. Pictures[i].view \in CaptureView
      BY PhysicalAssumption
    <3>2. shown(i) \subseteq Surface
      BY <3>1, ViewsShowSurfaces
    <3>. QED
      BY <3>2, SurfacesAreFinite, FS_Subset
  <2>. DEFINE S == shown(i)
              f == [s \in S |-> record(i, s)]
  <2>2. parts[i] = {f[s] : s \in S}
    OBVIOUS
  <2>. HIDE DEF S, f, parts
  <2>. QED
    BY <2>1, <2>2, ImageIsFinite DEF S
<1>4. IsFiniteSet(all)
  <2>. HIDE DEF parts, all
  <2>1. IsFiniteSet({parts[i] : i \in failed})
    BY <1>2, ImageIsFinite
  <2>2. \A p \in {parts[i] : i \in failed} : IsFiniteSet(p)
    BY <1>3
  <2>. QED
    BY <1>1, <2>1, <2>2, FS_UNION
<1>5. ASSUME NEW r \in all
      PROVE  \E i \in failed : \E s \in shown(i) : r = record(i, s)
  BY DEF DetectorFailures
<1>6. ASSUME NEW r \in all
      PROVE  r.kind = "COLLECTION_FAILURE" /\ r.reliability \in 0..100
  <2>1. PICK i, s : /\ i \in failed /\ s \in shown(i)
                    /\ r = record(i, s)
    BY <1>5
  <2>2. r.kind = "COLLECTION_FAILURE" /\ r.reliability = 100
    BY <2>1 DEF Evidence
  <2>. QED
    BY <2>2
<1>7. ASSUME NEW x \in all, NEW y \in all, evidenceId(x) = evidenceId(y)
      PROVE  x = y
  <2>1. PICK i, s : /\ i \in failed /\ s \in shown(i)
                    /\ x = record(i, s)
    BY <1>5
  <2>2. PICK j, t : /\ j \in failed /\ t \in shown(j)
                    /\ y = record(j, t)
    BY <1>5
  <2>3. x.subject = y.subject /\ x.key = y.key
    BY <1>7 DEF evidenceId
  <2>4. /\ x.subject = SURFACE_SUBJECT[s] /\ y.subject = SURFACE_SUBJECT[t]
        /\ x.key = <<"DetectionRun", i>> /\ y.key = <<"DetectionRun", j>>
    BY <2>1, <2>2 DEF Evidence
  <2>5. record(i, s) = record(j, t)
    BY <2>3, <2>4
  <2>. HIDE DEF record
  <2>. QED
    BY <2>1, <2>2, <2>5
<1>. HIDE DEF all
<1>8. Sturdy(all)
  BY <1>4, <1>6 DEF Sturdy
<1>9. DistinctIds(all)
  BY <1>7 DEF DistinctIds
<1>. QED
  BY <1>8, <1>9 DEF all

\* So are the records of its detections.
LEMMA DetectionsAreSturdy ==
  ASSUME NEW found \in SUBSET Sightings, NEW accepted, NEW cal \in Tables,
         NEW kept \in SUBSET DefectRecords(found, accepted, cal)
  PROVE  Sturdy(kept)
<1>. DEFINE passing == {d \in found : Passes(d, accepted, cal)}
            of == [d \in passing |-> DefectRecord(d, cal)]
            all == DefectRecords(found, accepted, cal)
<1>1. IsFiniteSet(passing)
  BY PhysicalAssumption, FS_Subset
<1>2. all = {of[d] : d \in passing}
  BY DEF DefectRecords
<1>3. ASSUME NEW r \in kept
      PROVE  r.reliability \in 0..100 /\ r.raw.class \in DEFECT_CLASS_IDS /\ r.raw.area \in Nat
  <2>1. PICK d \in passing : r = DefectRecord(d, cal)
    BY DEF DefectRecords
  <2>2. d.class \in DEFECT_CLASS_IDS /\ d.area \in Nat
    BY PhysicalAssumption DEF Passes
  <2>3. r.reliability = reliabilityFor(d.class, cal) /\ r.raw.class = d.class /\ r.raw.area = d.area
    BY <2>1 DEF DefectRecord, Evidence
  <2>. QED
    BY <2>2, <2>3, ReliabilityIsShare
<1>. HIDE DEF passing, of, all
<1>4. IsFiniteSet(all)
  BY <1>1, <1>2, ImageIsFinite
<1>5. IsFiniteSet(kept)
  BY <1>4, FS_Subset DEF all
<1>. QED
  BY <1>3, <1>5 DEF Sturdy

\* The parts of a ledger have ids of their own: the key tells them apart.
LEMMA CollectedIsSturdy ==
  ASSUME Typed, NEW failed \in SUBSET images, NEW found \in SUBSET Sightings,
         NEW kept \in SUBSET DefectRecords(found, AcceptedImages(images), table), DistinctIds(kept)
  PROVE  LET known == CaptureRecords(images, AcceptedImages(images)) \cup DetectorFailures(failed) \cup kept
         IN  Sturdy(known) /\ DistinctIds(known)
<1>. DEFINE taken == CaptureRecords(images, AcceptedImages(images))
            runs == DetectorFailures(failed)
            known == taken \cup runs \cup kept
<1>1. Sturdy(taken) /\ DistinctIds(taken)
  BY CapturesAreSturdy DEF Typed
<1>2. Sturdy(runs) /\ DistinctIds(runs)
  BY FailedRunsAreSturdy DEF Typed
<1>3. Sturdy(kept)
  BY DetectionsAreSturdy DEF Typed
<1>4. \A r \in taken : r.key[1] = "ViewCaptured"
  BY CaptureFields DEF CaptureRecords, IsCapture
<1>5. ASSUME NEW r \in runs PROVE r.key[1] = "DetectionRun"
  <2>1. PICK i, s : /\ i \in failed /\ s \in viewSpec[Pictures[i].view].surfaces
                    /\ r = Evidence("COLLECTION_FAILURE", SURFACE_SUBJECT[s], <<"DetectionRun", i>>,
                                    <<"UNKNOWN", "">>, "vision", 100, NoRaw)
    BY DEF DetectorFailures
  <2>2. r.key = <<"DetectionRun", i>>
    BY <2>1 DEF Evidence
  <2>. QED
    BY <2>2
<1>6. ASSUME NEW r \in kept PROVE r.key[1] = "Defect"
  <2>1. PICK d \in found : r = DefectRecord(d, table)
    BY DEF DefectRecords
  <2>2. r.key = <<"Defect", d.class>>
    BY <2>1 DEF DefectRecord, Evidence
  <2>. QED
    BY <2>2
<1>. HIDE DEF taken, runs
<1>7. Sturdy(known)
  BY <1>1, <1>2, <1>3, FS_Union DEF Sturdy
<1>8. ASSUME NEW x \in known, NEW y \in known, evidenceId(x) = evidenceId(y) PROVE x = y
  <2>1. x.key = y.key
    BY <1>8 DEF evidenceId
  <2>2. \/ x \in taken /\ y \in taken
        \/ x \in runs /\ y \in runs
        \/ x \in kept /\ y \in kept
    BY <1>4, <1>5, <1>6, <2>1
  <2>. QED
    BY <1>1, <1>2, <1>8, <2>2 DEF DistinctIds
<1>9. DistinctIds(known)
  BY <1>8 DEF DistinctIds
<1>. QED
  BY <1>7, <1>9 DEF taken, runs

LEMMA InitTyped == Init => Typed
<1>. SUFFICES ASSUME Init PROVE Typed
  OBVIOUS
<1>1. Sturdy(ledger) /\ DistinctIds(ledger)
  BY FS_EmptySet DEF Init, Sturdy, DistinctIds
<1>. QED
  BY <1>1, PlaceholderIsATable DEF Init, Typed, Evaluated

\* Every step keeps the types.
LEMMA NextTyped == Typed /\ [Next]_vars => Typed'
<1>. SUFFICES ASSUME Typed, [Next]_vars PROVE Typed'
  OBVIOUS
<1>1. CASE StartInspection
  BY <1>1 DEF StartInspection, Typed, Evaluated
<1>2. CASE Detected
  <2>. DEFINE usable == AcceptedImages(images)
  <2>1. PICK failed \in SUBSET usable :
          \E found \in SUBSET {d \in Sightings : d.image \in usable \ failed} :
            /\ offered' = found
            /\ \E kept \in SUBSET DefectRecords(found, usable, table) :
                 /\ Deduplicated(DefectRecords(found, usable, table), kept)
                 /\ ledger' = CaptureRecords(images, usable) \cup DetectorFailures(failed) \cup kept
    BY <1>2 DEF Detected
  <2>2. PICK found \in SUBSET {d \in Sightings : d.image \in usable \ failed} :
          /\ offered' = found
          /\ \E kept \in SUBSET DefectRecords(found, usable, table) :
               /\ Deduplicated(DefectRecords(found, usable, table), kept)
               /\ ledger' = CaptureRecords(images, usable) \cup DetectorFailures(failed) \cup kept
    BY <2>1
  <2>3. PICK kept \in SUBSET DefectRecords(found, usable, table) :
               /\ Deduplicated(DefectRecords(found, usable, table), kept)
               /\ ledger' = CaptureRecords(images, usable) \cup DetectorFailures(failed) \cup kept
    BY <2>2
  <2>4. DistinctIds(kept)
    BY <2>3 DEF Deduplicated, DistinctIds
  <2>5. usable \in SUBSET images /\ found \in SUBSET Sightings
    BY DEF AcceptedImages
  <2>6. Sturdy(ledger') /\ DistinctIds(ledger')
    BY <2>3, <2>4, <2>5, CollectedIsSturdy
  <2>7. /\ report' = {evaluatePhysical(ledger', table)} /\ phase' = "reported"
        /\ images' = images /\ table' = table
    BY <1>2 DEF Detected
  <2>8. Evaluated(ledger)'
    BY <2>7 DEF Evaluated, Typed
  <2>. QED
    BY <2>2, <2>5, <2>6, <2>7, <2>8 DEF Typed
<1>3. CASE DetectorUnavailable
  BY <1>3 DEF DetectorUnavailable, Typed, Evaluated
<1>4. CASE Reevaluate
  <2>1. /\ report' = {evaluatePhysical(ledger, table)} /\ phase' = "replayed"
        /\ UNCHANGED <<images, offered, table, ledger>>
    BY <1>4 DEF Reevaluate
  <2>2. Evaluated(ledger)'
    BY <2>1 DEF Evaluated, Typed
  <2>. QED
    BY <2>1, <2>2 DEF Typed
<1>5. CASE loadCalibration
  <2>1. UNCHANGED <<phase, images, offered, ledger, report>>
    BY <1>5 DEF loadCalibration
  <2>2. table' \in Tables
    <3>1. PICK b \in Benchmarks :
            table' = [c \in DEFECT_CLASS_IDS |-> IF c \in DOMAIN b THEN b[c] ELSE table[c]]
      BY <1>5 DEF loadCalibration
    <3>2. \A c \in DEFECT_CLASS_IDS : (IF c \in DOMAIN b THEN b[c] ELSE table[c]) \in Calibrations
      BY PhysicalAssumption DEF Typed, Tables
    <3>. QED
      BY <3>1, <3>2 DEF Tables
  <2>. QED
    BY <2>1, <2>2 DEF Typed, Evaluated
<1>6. CASE resetCalibration
  BY <1>6, PlaceholderIsATable DEF resetCalibration, Typed, Evaluated
<1>7. CASE UNCHANGED vars
  BY <1>7 DEF vars, Typed, Evaluated
<1>. QED
  BY <1>1, <1>2, <1>3, <1>4, <1>5, <1>6, <1>7 DEF Next

\* The invariant that types the ledger and the tables holds in every reachable state.
THEOREM TypeInvariance == Spec => []Typed
<1>1. Init => Typed
  BY InitTyped
<1>2. Typed /\ [Next]_vars => Typed'
  BY NextTyped
<1>. QED
  BY <1>1, <1>2, PTL DEF Spec

-----------------------------------------------------------------------------
(***************************************************************************)
(* The audit, the score and the grade                                      *)
(***************************************************************************)

\* The assessments of a ledger are what the pillars can be drawn from.
LEMMA AssessmentsAreJudgeable ==
  ASSUME NEW known, Sturdy(known), NEW cal \in Tables
  PROVE  Judgeable(Assessments(known, cal))
<1>. SUFFICES ASSUME NEW s \in Surface
              PROVE  LET a == Assessments(known, cal)[s]
                     IN  /\ a.confidence \in 0..One /\ a.score \in Nat
                         /\ Measurable(a.defects) /\ Measurable(a.wear)
  BY DEF Judgeable
<1>1. Assessment(known, Assessments(known, cal)[s])
  BY SurfacesAreAssessed
<1>. DEFINE a == Assessments(known, cal)[s]
<1>. HIDE DEF a
<1>2. a.score \in Nat
  BY <1>1 DEF Assessment, a
<1>. QED
  BY <1>1, <1>2 DEF Assessment, a

\* No inference without evidence, no verdict without its inferences, no finding
\* without its basis.
LEMMA AuditFindsNothing ==
  ASSUME NEW known, NEW surfaces, \A s \in Surface : Assessment(known, surfaces[s]), NEW detectorCalibrated
  PROVE  audit(known, {runPhysicalModule(surfaces)}, PhysicalFindings(surfaces, detectorCalibrated)) = {}
<1>. DEFINE module == runPhysicalModule(surfaces)
            modules == {module}
            findings == PhysicalFindings(surfaces, detectorCalibrated)
            inferences == UNION {m.inferences : m \in modules}
            verdicts == UNION {m.verdicts : m \in modules}
<1>1. /\ inferences = UNION {surfaces[s].inferences : s \in Surface}
      /\ verdicts = {surfaces[s].verdict : s \in Surface}
  <2>1. /\ module.inferences = UNION {surfaces[s].inferences : s \in Surface}
        /\ module.verdicts = {surfaces[s].verdict : s \in Surface}
    BY DEF runPhysicalModule
  <2>. HIDE DEF module
  <2>. QED
    BY <2>1
<1>2. ASSUME NEW i \in inferences PROVE Cited(known, i)
  BY <1>1 DEF Assessment
<1>3. ASSUME NEW v \in verdicts
      PROVE  /\ v.confidence \in 0..One
             /\ v.determined => v.inferences # {} /\ v.confidence # 0
             /\ v.inferences \subseteq inferences
             /\ v.evidence = UNION {i.evidence : i \in v.inferences}
  <2>1. PICK s \in Surface : v = surfaces[s].verdict
    BY <1>1
  <2>2. Assessment(known, surfaces[s])
    OBVIOUS
  <2>3. surfaces[s].inferences \subseteq inferences
    BY <1>1
  <2>. HIDE DEF inferences
  <2>. QED
    BY <2>1, <2>2, <2>3 DEF Assessment
<1>4. ASSUME NEW f \in findings
      PROVE  /\ f.evidence \subseteq known
             /\ f.basis = "EVIDENCE" => f.evidence # {}
             /\ f.basis = "ABSENCE" => f.evidence = {} /\ f.inferences = {}
  <2>1. CASE \E r \in ChargedDefects(surfaces) : f = Finding(r.raw.class, {r}, {})
    <3>1. PICK r \in ChargedDefects(surfaces) : f = Finding(r.raw.class, {r}, {})
      BY <2>1
    <3>2. r \in known
      BY DEF ChargedDefects, Assessment
    <3>3. f.evidence = {r} /\ f.basis = "EVIDENCE"
      BY <3>1 DEF Finding
    <3>. QED
      BY <3>2, <3>3
  <2>2. CASE \E code : f = Gap(code)
    BY <2>2 DEF Gap
  <2>3. f \in {Finding(r.raw.class, {r}, {}) : r \in ChargedDefects(surfaces)} \/ \E code : f = Gap(code)
    BY DEF PhysicalFindings
  <2>. QED
    BY <2>1, <2>2, <2>3
<1>. HIDE DEF inferences, verdicts, findings
<1>5. ~\E i \in inferences : i.evidence = {} \/ ~(i.evidence \subseteq known)
  BY <1>2 DEF Cited
<1>6. ~\E x \in inferences \cup verdicts : ~InRange(x.confidence)
  BY <1>2, <1>3 DEF Cited, InRange
<1>7. ~\E v \in verdicts : \/ v.determined /\ v.inferences = {}
                           \/ ~(v.inferences \subseteq inferences)
                           \/ v.evidence # UNION {i.evidence : i \in v.inferences}
  BY <1>3
<1>8. ~\E v \in verdicts : v.determined /\ v.confidence = 0
  BY <1>3
<1>9. ~\E f \in findings : \/ f.basis = "EVIDENCE" /\ ~(f.evidence # {} \/ f.inferences # {})
                           \/ ~(f.evidence \subseteq known)
  BY <1>4
<1>10. ~\E f \in findings : f.basis = "ABSENCE" /\ (f.evidence # {} \/ f.inferences # {})
  BY <1>4
<1>. DEFINE Broken(code, is) == IF is THEN {code} ELSE {}
<1>11. audit(known, modules, findings) =
         Broken("INFERENCE_WITHOUT_EVIDENCE", \E i \in inferences : i.evidence = {})
         \cup Broken("INFERENCE_CITES_MISSING_EVIDENCE", \E i \in inferences : ~(i.evidence \subseteq known))
         \cup Broken("CONFIDENCE_OUT_OF_RANGE", \E x \in inferences \cup verdicts : ~InRange(x.confidence))
         \cup Broken("VERDICT_WITHOUT_INFERENCE", \E v \in verdicts : v.determined /\ v.inferences = {})
         \cup Broken("DETERMINED_WITHOUT_CONFIDENCE", \E v \in verdicts : v.determined /\ v.confidence = 0)
         \cup Broken("VERDICT_CITES_MISSING_INFERENCE", \E v \in verdicts : ~(v.inferences \subseteq inferences))
         \cup Broken("VERDICT_EVIDENCE_MISMATCH",
                     \E v \in verdicts : v.evidence # UNION {i.evidence : i \in v.inferences})
         \cup Broken("FINDING_WITHOUT_SUPPORT",
                     \E f \in findings : \/ f.basis = "EVIDENCE" /\ ~(f.evidence # {} \/ f.inferences # {})
                                         \/ ~(f.evidence \subseteq known))
         \cup Broken("FINDING_BASIS_MISMATCH",
                     \E f \in findings : f.basis = "ABSENCE" /\ (f.evidence # {} \/ f.inferences # {}))
  BY DEF audit, inferences, verdicts
<1>12. \A code, is : ~is => Broken(code, is) = {}
  OBVIOUS
<1>. HIDE DEF Broken
<1>13. audit(known, modules, findings) = {}
  BY <1>5, <1>6, <1>7, <1>8, <1>9, <1>10, <1>11, <1>12
<1>. QED
  BY <1>13 DEF findings

\* A report by its parts.
LEMMA ReportParts ==
  ASSUME NEW known, NEW cal
  PROVE  LET r == evaluatePhysical(known, cal)
             surfaces == Assessments(known, cal)
             detectorCalibrated == calibrationIsMeasured(cal)
         IN  /\ r.surfaces = surfaces
             /\ r.notAssessed = unassessed(surfaces)
             /\ r.explained = explainDefects(known)
             /\ r.score = computePhysicalScore(surfaces, detectorCalibrated)
             /\ r.violations = audit(known, {runPhysicalModule(surfaces)},
                                     PhysicalFindings(surfaces, detectorCalibrated))
BY DEF evaluatePhysical, reportOn, PhysicalReport

\* What holds of every evaluation of a ledger that can be scored.
Graded(r, surfaces, detectorCalibrated) ==
  /\ r.score.score \in 0..100 /\ r.score.rawScore \in 0..100
  /\ r.score.confidence \in 0..One /\ r.score.coverage \in 0..One
  /\ r.violations = {}
  /\ \A s \in Surface : surfaces[s].assessable =>
       /\ surfaces[s].score < 20 => r.score.score <= 40
       /\ surfaces[s].score < 40 => r.score.score <= 55
  /\ r.score.grade \in {"PRISTINE", "EXCELLENT"} => detectorCalibrated
  /\ r.score.grade = "PRISTINE" => \E s \in {"FRONT_CAMERA", "CHARGE_PORT"} : unassessed(surfaces) \subseteq {s}

\* Every evaluation of a ledger is graded as the code grades.
LEMMA EvaluationIsGraded ==
  ASSUME NEW known, Sturdy(known), NEW cal \in Tables
  PROVE  Graded(evaluatePhysical(known, cal), Assessments(known, cal), calibrationIsMeasured(cal))
<1>. DEFINE r == evaluatePhysical(known, cal)
            surfaces == Assessments(known, cal)
            detectorCalibrated == calibrationIsMeasured(cal)
            coverageOf == [p \in PhysicalPillar |-> Pillars(surfaces)[p].coverage]
            q == computePhysicalScore(surfaces, detectorCalibrated)
<1>1. /\ r.score = q
      /\ r.violations = audit(known, {runPhysicalModule(surfaces)}, PhysicalFindings(surfaces, detectorCalibrated))
  BY ReportParts
<1>2. \A s \in Surface : Assessment(known, surfaces[s])
  BY SurfacesAreAssessed
<1>3. Judgeable(surfaces)
  BY AssessmentsAreJudgeable
<1>. HIDE DEF r, surfaces, detectorCalibrated
<1>4. r.violations = {}
  BY <1>1, <1>2, AuditFindsNothing
<1>5. /\ q.score \in 0..100 /\ q.rawScore \in 0..100
      /\ q.confidence \in 0..One /\ q.coverage \in 0..One
      /\ \A s \in Surface : surfaces[s].assessable =>
           /\ surfaces[s].score < 20 => q.score <= 40
           /\ surfaces[s].score < 40 => q.score <= 55
      /\ q.grade \in {"PRISTINE", "EXCELLENT"} => detectorCalibrated
      /\ q.grade = "PRISTINE" => Whole(coverageOf) >= Ample
  BY <1>3, ScoreFigures
<1>6. q.grade = "PRISTINE" => \E s \in {"FRONT_CAMERA", "CHARGE_PORT"} : unassessed(surfaces) \subseteq {s}
  BY <1>3, <1>5, LargeSurfacesAreNeeded
<1>. HIDE DEF q
<1>. QED
  BY <1>1, <1>4, <1>5, <1>6 DEF Graded, r, surfaces, detectorCalibrated

\* Every figure is within its scale and every report passes its audit, for any
\* pictures, sightings and benchmarks.
THEOREM TypeCorrectness == Spec => []TypeOK
<1>1. Typed => TypeOK
  <2>. SUFFICES ASSUME Typed PROVE TypeOK
    OBVIOUS
  <2>1. Cardinality(report) <= 1
    <3>1. report = {} \/ \E x : report = {x}
      BY DEF Typed, Evaluated
    <3>2. CASE report = {}
      <4>1. Cardinality(report) = 0
        BY <3>2, FS_EmptySet
      <4>. QED
        BY <4>1
    <3>3. CASE \E x : report = {x}
      <4>1. PICK x : report = {x}
        BY <3>3
      <4>2. Cardinality({x}) = 1
        BY FS_Singleton, Zenon
      <4>3. Cardinality(report) = 1
        BY <4>1, <4>2
      <4>. QED
        BY <4>3
    <3>. QED
      BY <3>1, <3>2, <3>3
  <2>2. ASSUME NEW r \in report
        PROVE  /\ r.score.score \in 0..100 /\ r.score.rawScore \in 0..100
               /\ r.score.confidence \in 0..One /\ r.score.coverage \in 0..One
               /\ r.violations = {}
    <3>1. PICK cal \in Tables : r = evaluatePhysical(ledger, cal)
      BY DEF Typed, Evaluated
    <3>2. Graded(r, Assessments(ledger, cal), calibrationIsMeasured(cal))
      BY <3>1, EvaluationIsGraded DEF Typed
    <3>. QED
      BY <3>2 DEF Graded
  <2>. QED
    BY <2>1, <2>2 DEF TypeOK, Typed, Tables, DistinctIds
<1>. QED
  BY <1>1, TypeInvariance, PTL

\* Wear is told from damage by the class alone.
LEMMA DamageIsNotWear ==
  ASSUME NEW known, NEW cal, NEW s \in Surface, NEW e, ~isWearClass(e.raw.class)
  PROVE  e \notin Assessments(known, cal)[s].wear
BY DEF Assessments, AssessSurface, NotAssessed, Unjudged, Judged, Assessed

\* One destroyed surface decides the score, whatever the others look like: the
\* gates at 20 and 40 points are fired by the one defect that leaves so little.
THEOREM DestructionDecides == Spec => []DestroyedSurfaceDecides
<1>1. IInv /\ Typed => DestroyedSurfaceDecides
  <2>. SUFFICES ASSUME IInv, Typed, NEW r \in report, NEW e \in r.explained, ~isWearClass(e.raw.class)
                PROVE  /\ LeftBy(e) < 20 => r.score.score <= 40
                       /\ LeftBy(e) < 40 => r.score.score <= 55
    BY DEF DestroyedSurfaceDecides
  <2>1. PICK cal \in Tables : r = evaluatePhysical(ledger, cal)
    BY DEF Typed, Evaluated
  <2>2. LedgerInv /\ Sturdy(ledger)
    BY DEF IInv, Typed
  <2>3. e \in explainDefects(ledger)
    BY <2>1, ReportParts
  <2>. DEFINE s == e.raw.surface
              a == Assessments(ledger, cal)[s]
  <2>4. s \in Surface
    BY <2>2, <2>3, AttributedOnHandset DEF explainDefects, LedgerInv
  <2>5. e \in a.defects
    BY <2>2, <2>3, <2>4, DetectionsArePriced, DamageIsNotWear
  <2>6. a.assessable
    BY <2>4, <2>5, AssessmentFields
  <2>7. Assessment(ledger, a)
    BY <2>2, <2>4, SurfacesAreAssessed
  <2>. HIDE DEF a, s
  <2>8. a.score \in 0..100 /\ LeftBy(e) \in Nat /\ a.score <= LeftBy(e)
    BY <2>5, <2>6, <2>7, SurfaceScoreBounds DEF Assessment
  <2>9. Graded(r, Assessments(ledger, cal), calibrationIsMeasured(cal))
    BY <2>1, <2>2, EvaluationIsGraded
  <2>10. (a.score < 20 => r.score.score <= 40) /\ (a.score < 40 => r.score.score <= 55)
    BY <2>4, <2>6, <2>9 DEF Graded, a
  <2>. QED
    BY <2>8, <2>10
<1>. QED
  BY <1>1, Invariance, TypeInvariance, PTL

\* A top grade is given under a table of measurements, and the best one to a
\* handset seen all round but for one small surface.
THEOREM TopGradesAreMeasured == Spec => TopGradeNeedsMeasurement
<1>1. Typed' /\ [Next]_vars =>
        \A r \in report' \ report :
          /\ r.score.grade \in {"PRISTINE", "EXCELLENT"} => \A c \in DEFECT_CLASS_IDS : table[c].sampleSize >= 50
          /\ r.score.grade = "PRISTINE" =>
               \E s \in {"FRONT_CAMERA", "CHARGE_PORT"} : r.notAssessed \subseteq {s}
  <2>. SUFFICES ASSUME Typed', [Next]_vars, NEW r \in report' \ report
                PROVE  /\ r.score.grade \in {"PRISTINE", "EXCELLENT"} =>
                            \A c \in DEFECT_CLASS_IDS : table[c].sampleSize >= 50
                       /\ r.score.grade = "PRISTINE" =>
                            \E s \in {"FRONT_CAMERA", "CHARGE_PORT"} : r.notAssessed \subseteq {s}
    OBVIOUS
  <2>1. Detected \/ Reevaluate
    BY DEF Next, StartInspection, DetectorUnavailable, loadCalibration, resetCalibration, vars
  <2>2. r = evaluatePhysical(ledger', table) /\ table' = table
    BY <2>1 DEF Detected, Reevaluate
  <2>3. Sturdy(ledger') /\ table \in Tables
    BY <2>2 DEF Typed
  <2>4. Graded(r, Assessments(ledger', table), calibrationIsMeasured(table))
    BY <2>2, <2>3, EvaluationIsGraded
  <2>5. r.notAssessed = unassessed(Assessments(ledger', table))
    BY <2>2, ReportParts
  <2>6. calibrationIsMeasured(table) => \A c \in DEFECT_CLASS_IDS : table[c].sampleSize >= 50
    BY DEF calibrationIsMeasured, isMeasured
  <2>. QED
    BY <2>4, <2>5, <2>6 DEF Graded
<1>. QED
  BY <1>1, TypeInvariance, PTL DEF Spec, TopGradeNeedsMeasurement

=============================================================================
