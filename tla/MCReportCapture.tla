--------------------------- MODULE MCReportCapture ---------------------------
(* Two of the six pictures: the tab with the dots, and a map.                *)
EXTENDS ReportCapture

MCTabs == <<"faultlog", "hvmon">>
=============================================================================
