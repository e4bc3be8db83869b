---------------------------- MODULE MCSocketPath ----------------------------
(* SocketPath with three processes: one that crashes and leaves a stale     *)
(* socket, one that recovers from it, and one that meets a live one.        *)
EXTENDS SocketPath

=============================================================================
