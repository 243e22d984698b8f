----------------------------- MODULE MCSfuRooms -----------------------------
(* Small instances of SfuRooms. *)
EXTENDS SfuRooms, TLC

CONSTANTS s1, s2, s3, q1, q2, q3, q4, r1, r2

(* s1 and s2 meet in r1, s2 asking twice; s3 is alone in r2 *)
TwoRoomsSocket == q1 :> s1 @@ q2 :> s2 @@ q3 :> s2 @@ q4 :> s3
TwoRoomsRoom   == q1 :> r1 @@ q2 :> r1 @@ q3 :> r1 @@ q4 :> r2
=============================================================================
