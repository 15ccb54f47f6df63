---------------------------- MODULE MCModeration ----------------------------
(* A small instance of Moderation for TLC: two reviewers, one of them the  *)
(* author of an event, and a pupil.                                        *)
EXTENDS Moderation

CONSTANTS e1, e2, r1, r2, a1

MCEvents == {e1, e2}
MCStaff  == {r1, r2}
MCAuthor == [e \in MCEvents |-> IF e = e2 THEN r1 ELSE a1]
=============================================================================
