--------------------------- MODULE MCSlidingWindow ---------------------------
(* The instance of SlidingWindow that TLC checks. *)
EXTENDS SlidingWindow

=============================================================================
