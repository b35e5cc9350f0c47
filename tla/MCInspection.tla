---------------------------- MODULE MCInspection ----------------------------
(* Captures of a catalogued handset with Face ID, each collector with a few outcomes. *)
EXTENDS Inspection

Said(subject, key, value, channel) == Observation("READING", subject, key, value, 0, channel)
Measured(key, value, number, channel) ==
  Observation("READING", "BATTERY", key, value, number, channel)
Stated(subject, key, value, channel) ==
  Observation("SERVICE_RECORD_STATEMENT", subject, key, value, 0, channel)
Event(subject, key) == Observation("DIAGNOSTIC_EVENT", subject, key, "true", 0, "analytics")

Device(key, value) == Said("DEVICE", key, value, "lockdown")
Core(board) ==
  {Device("ProductType", "iPhone15"), Device("HardwareModel", board),
   Device("SerialNumber", "fitsDated"), Device("UniqueDeviceID", "fits"),
   Device("ModelNumber", "suffixed"), Device("RegionInfo", "agrees"), Device("DeviceClass", "iPhone"),
   Device("CPUArchitecture", "expected"), Device("TotalDiskCapacity", "expected"),
   Said("SYSTEM_SOFTWARE", "ProductVersion", "expected", "lockdown"),
   Said("SECURITY_STATE", "ActivationState", "Activated", "lockdown"),
   Said("SECURITY_STATE", "PasswordProtected", "false", "lockdown")}

Lock(value) == Said("SECURITY_STATE", "IsAssociated", value, "domain")
DevMode == Said("SECURITY_STATE", "DeveloperModeStatus", "true", "lockdown")
Panel(value) == Said("DISPLAY", "DisplaySupportsTrueTone", value, "domain")

Cell(health, cycles, channel) ==
  {Measured("DesignCapacity", "expected", 100, channel),
   Measured("NominalChargeCapacity", "", health, channel), Measured("CycleCount", "", cycles, channel)}

MCBatches ==
  [lockdown |-> {{}, Core("expected"), Core("expected") \cup {Device("IMEI", "badCheckDigit")},
                 Core("expected") \cup {Device("IMEI", "valid")}, Core("foreign"),
                 {Device("ProductType", "iPhone17"), DevMode}},
   domains  |-> {{}, {Lock("false")}, {Lock("true"), Panel("true")},
                 {Lock("false"), Panel("true")}, {Panel("false")},
                 {Lock("false"), Said("SECURITY_STATE", "ConfigurationURL", "set", "domain")}},
   registry |-> {{}, Cell(96, 120, "registry"), Cell(74, 1100, "registry")},
   analytics |-> {{}, Cell(100, 60, "analytics"), {Event("FACE_ID", "FaceIDPairingFailure")},
                  {Event("LOGIC_BOARD", "ServiceHistoryRecord")},
                  {Event("REAR_CAMERA", "CameraPairingFailure")}},
   inventory |-> {{}, {Said("SECURITY_STATE", "JailbreakBundlePresent", "Cydia", "applications")}},
   services  |-> {{}, {Said("SECURITY_STATE", "UnsandboxedServiceAdvertised", "afc2", "probe")}},
   attestation |-> {{}, {Stated("DEVICE", "ServiceHistorySectionAbsent", "true", "technician")},
                    {Stated("DISPLAY", "ServiceHistoryLabel", "unknownPart", "ocr")},
                    {Stated("DISPLAY", "ServiceHistoryLabel", "unknownPart", "ocr"),
                     Stated("DISPLAY", "ServiceHistoryLabel", "genuineApplePart", "ocr")},
                    {Stated("BATTERY", "ServiceHistoryLabel", "genuineApplePart", "technician")}}]

MCFailing == {<<"battery.ioregistry", "ACCESS_DENIED">>}

MCCatalogue ==
  [iPhone15 |-> [recognised |-> TRUE, biometrics |-> "FACE_ID", hasLidar |-> FALSE,
                 shippedTrueTone |-> TRUE, ratedCycleLife |-> 1000]]

\* A handset read while locked: no Find My domain, developer mode on or off.
LockedBatches ==
  [lockdown |-> {{}, Core("expected"), Core("expected") \cup {DevMode}, {DevMode}},
   domains  |-> {{}, {Lock("false")}, {Lock("true")}},
   registry |-> {{}, Cell(96, 120, "registry")},
   analytics |-> {{}}, inventory |-> {{}}, services |-> {{}},
   attestation |-> {{}, {Stated("DEVICE", "ServiceHistorySectionAbsent", "true", "technician")}}]
=============================================================================
