---------------------------- MODULE MCMetricsFile ----------------------------
(* MetricsFile with an interval that is not a whole number of milliseconds, *)
(* three renderings and one crash: a text in place, one that is lost        *)
(* halfway and one that replaces both.                                      *)
EXTENDS MetricsFile

=============================================================================
