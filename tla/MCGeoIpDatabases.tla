-------------------------- MODULE MCGeoIpDatabases --------------------------
(* GeoIpDatabases with two readers, so that a reload meets a lookup in each *)
(* of its states while another thread reads metadata.                       *)
EXTENDS GeoIpDatabases, TLC

Symmetry == Permutations(Reader)

=============================================================================
