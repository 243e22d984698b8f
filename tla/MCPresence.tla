----------------------------- MODULE MCPresence -----------------------------
(* People ann and bob; ann may have two tabs. *)
EXTENDS Presence, TLC

CONSTANTS ann, bob, a1, a2, b1, s1, s2, s3

Owners == a1 :> ann @@ a2 :> ann @@ b1 :> bob
TabUsers == [t \in Tabs |-> Owners[t]]

(* ann's tab reconnects once, bob's never does *)
OneTab  == s1 :> a1 @@ s2 :> a1 @@ s3 :> b1
(* each of ann's tabs connects once *)
TwoTabs == s1 :> a1 @@ s2 :> a2 @@ s3 :> b1
=============================================================================
