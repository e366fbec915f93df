---------------------------- MODULE MCLiveClient ----------------------------
(* Small instances of LiveClient for TLC. *)
EXTENDS LiveClient

=============================================================================
