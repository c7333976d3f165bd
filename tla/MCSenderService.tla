-------------------------- MODULE MCSenderService ---------------------------
(***************************************************************************)
(* A small instance of SenderService for TLC.                              *)
(***************************************************************************)
EXTENDS SenderService

\* Frames of one or two bytes; one is too large.
MCStart == <<0, 3, 6, 10>>
=============================================================================
