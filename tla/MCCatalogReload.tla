--------------------------- MODULE MCCatalogReload ---------------------------
(* Instances of the catalog reload for TLC.                                 *)
EXTENDS CatalogReload

CONSTANTS app1, app2, t1, c1, c2, c3, c4

OneApplication == <<app1>>
TwoApplications == <<app1, app2>>
=============================================================================
