--------------------------- MODULE MCRealtimeLoop ---------------------------
(***************************************************************************)
(* A small instance of RealtimeLoop: the stages fail in every way but the  *)
(* ones FilesAreHonest and FillsAreReported leave out, or in every way.    *)
(***************************************************************************)
EXTENDS RealtimeLoop

MCFailures == {Calls \ {"sweep", "on_order", "on_stop", "disk"}, Calls}

=============================================================================
