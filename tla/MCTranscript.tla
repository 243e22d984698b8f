---------------------------- MODULE MCTranscript ----------------------------
(* Small instances of Transcript. *)
EXTENDS Transcript, TLC

CONSTANTS a, s1, s2

(* a's page may reconnect once *)
Reconnecting == s1 :> a @@ s2 :> a
=============================================================================
