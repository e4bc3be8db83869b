---------------------------- MODULE MCGeoipMirror ----------------------------
(* GeoipMirror with enough versions for a publication to overtake a         *)
(* download in progress, and enough faults for one installation to be       *)
(* interrupted and the next one too.                                        *)
EXTENDS GeoipMirror

=============================================================================
