----------------------------- MODULE MCSfuMedia -----------------------------
(* Small instances of SfuMedia: a produces, b listens and may be the host. *)
EXTENDS SfuMedia, TLC

CONSTANTS a, b

By(tracks) == a :> tracks @@ b :> {}

(* a screen shared and watched, one set-up failing; a microphone listened to *)
(* and muted by its owner; one beside a share's audio, which a host mutes    *)
MCCasts == {
  [kinds |-> By({"screen"}), hears |-> {b}, hosts |-> {}, restarts |-> 1, queued |-> 0],
  [kinds |-> By({"mic"}), hears |-> {b}, hosts |-> {}, restarts |-> 0, queued |-> 1],
  [kinds |-> By({"mic", "screenAudio"}), hears |-> {}, hosts |-> {b}, restarts |-> 0, queued |-> 2]}
=============================================================================
