---------------------------- MODULE MCMediaSetup ----------------------------
(* A microphone and a camera of one participant, for TLC. *)
EXTENDS MediaSetup, TLC
CONSTANTS p1, p2, ann
MCProducers == {p1, p2}
MCVoices    == {p1}
MCOwnerOf   == (p1 :> ann) @@ (p2 :> ann)
=============================================================================
