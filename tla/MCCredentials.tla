---------------------------- MODULE MCCredentials ----------------------------
(* The credential manager with two venues and two rotations, for TLC. *)
EXTENDS Credentials

CONSTANTS v1, v2, s1, s2, s3, d1, q1, r1, r2, p0, p1, p2

MCVenue == [q \in Requests |-> IF q = s3 THEN v2 ELSE v1]
MCOld == [r \in Rotations |-> p0]
MCNew == [r \in Rotations |-> IF r = r1 THEN p1 ELSE p2]
=============================================================================
