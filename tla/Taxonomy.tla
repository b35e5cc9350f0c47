------------------------------ MODULE Taxonomy ------------------------------
(***************************************************************************)
(* The defect taxonomy and the guided capture plan: what a detector may    *)
(* report, on which surface of the handset, and which view shows it.       *)
(* Severities are percentages.  Wording, geometry and annotation rules     *)
(* are left out, and of a finding's severity only whether it is reported.  *)
(***************************************************************************)
EXTENDS Naturals

Surface ==
  {"FRONT_GLASS", "DISPLAY_ACTIVE_AREA", "REAR_GLASS", "FRAME", "REAR_CAMERA", "FRONT_CAMERA",
   "CHARGE_PORT"}

\* Front glass and active area are two surfaces of one part.
SURFACE_SUBJECT ==
  [s \in Surface |-> CASE s \in {"FRONT_GLASS", "DISPLAY_ACTIVE_AREA"} -> "DISPLAY"
                       [] s = "REAR_GLASS" -> "REAR_HOUSING"
                       [] OTHER -> s]

Glass   == {"FRONT_GLASS", "REAR_GLASS"}
Rear    == {"REAR_GLASS", "FRAME"}
Body    == {"FRONT_GLASS", "REAR_GLASS", "FRAME"}
Frame   == {"FRAME"}
Lenses  == {"REAR_CAMERA", "FRONT_CAMERA"}
RearLens == {"REAR_CAMERA"}
Panel   == {"DISPLAY_ACTIVE_AREA"}
Bosses  == {"CHARGE_PORT", "FRAME"}

\* A damage class, one that is reported as a finding, one that tells of a repair.
Minor(severity, surfaces) ==
  [severity |-> severity, surfaces |-> surfaces, reported |-> FALSE, trustRelevant |-> FALSE,
   wear |-> FALSE]
Damage(severity, surfaces) == [Minor(severity, surfaces) EXCEPT !.reported = TRUE]
Opened(severity, surfaces) == [Damage(severity, surfaces) EXCEPT !.trustRelevant = TRUE]

SurfaceDamage ==
  [SCRATCH_LIGHT |-> Minor(6, Body), SCRATCH_DEEP |-> Damage(18, Body), SCUFF |-> Minor(8, Rear),
   CRACK_HAIRLINE |-> Damage(55, Glass), CRACK_STRUCTURAL |-> Damage(80, Glass),
   SHATTERED_GLASS |-> Damage(95, Glass), CHIP |-> Damage(35, Body), GOUGE |-> Damage(30, Rear)]

FrameDamage ==
  [DENT |-> Damage(32, Frame), BENT_FRAME |-> Damage(75, Frame), PAINT_WEAR |-> Minor(10, Frame),
   ANODISING_LOSS |-> Damage(12, Frame), EDGE_SEPARATION |-> Opened(60, Frame)]

CameraDamage ==
  [LENS_SCRATCH |-> Damage(40, Lenses), LENS_CRACK |-> Damage(70, Lenses),
   LENS_SHATTERED |-> Damage(90, Lenses), CAMERA_MODULE_MISALIGNMENT |-> Opened(45, RearLens),
   CAMERA_INTERNAL_DEBRIS |-> Opened(50, Lenses), LENS_COATING_DAMAGE |-> Damage(25, RearLens)]

DisplayDefect ==
  [DISPLAY_DEAD_PIXELS |-> Damage(40, Panel), DISPLAY_LINE_DEFECT |-> Damage(70, Panel),
   DISPLAY_BURN_IN |-> Damage(45, Panel), DISPLAY_BACKLIGHT_BLEED |-> Damage(30, Panel),
   DISPLAY_DISCOLOURATION |-> Damage(35, Panel), DISPLAY_PRESSURE_MARK |-> Damage(40, Panel),
   DISPLAY_DELAMINATION |-> Opened(55, {"DISPLAY_ACTIVE_AREA", "FRONT_GLASS"})]

Worn(class) == [class EXCEPT !.wear = TRUE]
Wear ==
  [MICRO_ABRASION_FIELD |-> Worn(Minor(12, Body)), HEAVY_WEAR_FIELD |-> Worn(Damage(30, Body)),
   BODY_DISCOLOURATION |-> Worn(Damage(20, Rear))]

MissingComponent ==
  [MISSING_SCREW |-> Opened(35, Bosses), MISSING_SIM_TRAY |-> Damage(30, Frame),
   MISSING_LENS_RING |-> Opened(40, RearLens), MISSING_BUTTON |-> Damage(50, Frame)]

RepairIndicator ==
  [NON_OEM_SCREW |-> Opened(15, Bosses), ADHESIVE_RESIDUE |-> Opened(15, Body),
   PRY_MARK |-> Opened(20, Frame), PANEL_GAP |-> Opened(25, Frame),
   FINISH_MISMATCH |-> Opened(25, Rear \cup RearLens), AFTERMARKET_MARKING |-> Opened(20, Rear)]

Contamination ==
  [CORROSION |-> Opened(60, Bosses), PORT_DEBRIS |-> Minor(10, {"CHARGE_PORT"}),
   LIQUID_INDICATOR_TRIGGERED |-> Opened(50, Frame)]

Anomaly == [UNCLASSIFIED_ANOMALY |-> Damage(20, Surface)]

\* The groups of the table.
Families ==
  {SurfaceDamage, FrameDamage, CameraDamage, DisplayDefect, Wear, MissingComponent,
   RepairIndicator, Contamination, Anomaly}

\* A class belongs to one family.
DEFECT_CLASSES ==
  LET family(c) == CHOOSE f \in Families : c \in DOMAIN f
  IN  [c \in UNION {DOMAIN f : f \in Families} |-> family(c)[c]]

DEFECT_CLASS_IDS == DOMAIN DEFECT_CLASSES

classesForSurface ==
  [s \in Surface |-> {c \in DEFECT_CLASS_IDS : s \in DEFECT_CLASSES[c].surfaces}]

isWearClass(class) == DEFECT_CLASSES[class].wear

-----------------------------------------------------------------------------
(* The capture plan. *)

View(surfaces, required, minLongEdgePx, minSharpness) ==
  [surfaces |-> surfaces, required |-> required, minLongEdgePx |-> minLongEdgePx,
   minSharpness |-> minSharpness]

viewSpec ==
  [FRONT |-> View({"FRONT_GLASS", "FRAME", "FRONT_CAMERA"}, TRUE, 1600, 120),
   BACK |-> View({"REAR_GLASS", "FRAME", "REAR_CAMERA"}, TRUE, 1600, 120),
   LEFT_EDGE |-> View(Frame, TRUE, 1200, 100), RIGHT_EDGE |-> View(Frame, TRUE, 1200, 100),
   TOP_EDGE |-> View(Frame, FALSE, 1200, 100), BOTTOM_EDGE |-> View(Bosses, TRUE, 1400, 140),
   CAMERA_MODULE |-> View(RearLens, TRUE, 1400, 160), DISPLAY_ON |-> View(Panel, TRUE, 1600, 110),
   DISPLAY_OFF |-> View({"FRONT_GLASS"}, TRUE, 1600, 120), CLOSE_UP |-> View(Surface, FALSE, 1400, 150)]

CaptureView == DOMAIN viewSpec
REQUIRED_VIEWS == {v \in CaptureView : viewSpec[v].required}
VIEWS_FOR_SURFACE == [s \in Surface |-> {v \in CaptureView : s \in viewSpec[v].surfaces}]

-----------------------------------------------------------------------------
(* The image quality gate.  Ratios are percentages. *)

\* Why a picture with the measurements m is refused as view v.
rejections(v, m) ==
  LET directional == m.sharpnessIsotropy < 45
      dark        == m.brightness < 45
      Fails(reason, is) == IF is THEN {reason} ELSE {}
  IN  Fails("TOO_SMALL", m.longEdgePx < viewSpec[v].minLongEdgePx)
      \cup Fails("MOTION_BLUR", directional)
      \cup Fails("OUT_OF_FOCUS", ~directional /\ (m.sharpness < viewSpec[v].minSharpness \/ m.sharpness < 40))
      \cup Fails("UNDEREXPOSED", dark \/ m.clippedShadowRatio > 20)
      \cup Fails("OVEREXPOSED", ~dark /\ m.brightness > 225)
      \cup Fails("LOW_CONTRAST", m.contrast < 18)
      \cup Fails("EXCESSIVE_GLARE", m.clippedHighlightRatio > 6)
      \cup Fails("SUBJECT_TOO_SMALL", m.subjectFillRatio < 12)
      \cup Fails("SUBJECT_CLIPPED", m.subjectTouchesBorder /\ v # "CLOSE_UP" /\ m.subjectFillRatio > 80)

Accepted(v, m) == rejections(v, m) = {}
=============================================================================
