------------------------------- MODULE MCCatalog -------------------------------
(* CatalogClients for TLC: one name of each kind, two sensitivities.       *)
EXTENDS CatalogClients

CONSTANTS s1, p1, t1, c1, o1, m1, none, empty, mixed

MCSources == {s1}
MCProjects == {p1}
MCTargets == {t1}
MCProviders == {c1}
MCOverlays == {o1}
MCMappings == {m1}
MCLevels == {0, 1}
MCActors == {Studio, Thread, Process}
=============================================================================
