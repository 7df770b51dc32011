---------------------------- MODULE MCLiveStream ----------------------------
(***************************************************************************)
(* Two live streams, whose platform may ask for 0 fps or for a keyframe     *)
(* interval of 0.                                                           *)
(***************************************************************************)
EXTENDS LiveStream

=============================================================================
