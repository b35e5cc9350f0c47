----------------------------- MODULE MCPhysical -----------------------------
(* Five photographs, one of them spoilt by glare, and eight sightings. *)
EXTENDS Physical

Sharp ==
  [longEdgePx |-> 2000, sharpness |-> 180, sharpnessIsotropy |-> 90, brightness |-> 130, contrast |-> 40,
   clippedHighlightRatio |-> 1, clippedShadowRatio |-> 1, subjectFillRatio |-> 60,
   subjectTouchesBorder |-> FALSE]
Glared  == [Sharp EXCEPT !.clippedHighlightRatio = 9]
Close   == [Sharp EXCEPT !.subjectTouchesBorder = TRUE, !.subjectFillRatio = 95]

Photograph(view, metrics) == [view |-> view, metrics |-> metrics]

MCPictures ==
  [front |-> Photograph("FRONT", Sharp), back |-> Photograph("BACK", Sharp),
   on |-> Photograph("DISPLAY_ON", Sharp), close |-> Photograph("CLOSE_UP", Close),
   off |-> Photograph("DISPLAY_OFF", Glared)]

Sighting(image, class, surface, box, area, modelScore) ==
  [image |-> image, class |-> class, surface |-> surface, box |-> box, area |-> area,
   modelScore |-> modelScore]

\* One of an unknown class, one on a surface its picture does not show, one that
\* is too faint for the placeholder table, and one peeling layer told twice.
MCSightings ==
  {Sighting("front", "SHATTERED_GLASS", "FRONT_GLASS", "A", 600, 90),
   Sighting("back", "LENS_CRACK", "REAR_CAMERA", "A", 600, 95),
   Sighting("back", "HEAVY_WEAR_FIELD", "REAR_GLASS", "B", 3000, 90),
   Sighting("back", "CRACK_STRUCTURAL", "FRONT_GLASS", "C", 600, 95),
   Sighting("on", "DISPLAY_BURN_IN", "DISPLAY_ACTIVE_AREA", "A", 300, 70),
   Sighting("close", "DISPLAY_DELAMINATION", "FRONT_GLASS", "A", 60, 90),
   Sighting("close", "DISPLAY_DELAMINATION", "DISPLAY_ACTIVE_AREA", "A", 60, 90),
   Sighting("close", "STICKER", "REAR_GLASS", "B", 60, 99)}

Measured(precision, recall) ==
  [operatingThreshold |-> 60, precision |-> precision, recall |-> recall, sampleSize |-> 80,
   benchmarkVersion |-> "held-out-1"]

\* All classes measured, and a later job for two of them on too few samples.
MCBenchmarks ==
  {[c \in DEFECT_CLASS_IDS |-> Measured(90, 80)],
   [c \in {"DISPLAY_BURN_IN", "LENS_CRACK"} |-> [Measured(99, 99) EXCEPT !.sampleSize = 5]]}
=============================================================================
