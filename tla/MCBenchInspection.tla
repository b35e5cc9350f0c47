------------------------- MODULE MCBenchInspection -------------------------
\* Instances of BenchInspection for TLC.
EXTENDS BenchInspection

OneDomain == <<"disk_usage">>
=============================================================================
