-------------------------- MODULE MCReviewRotation --------------------------
(* Tasks of one repository for two batches, and one task of another.        *)
EXTENDS ReviewRotation

MCRepository == <<1, 1, 2, 1>>
MCRepository3 == <<1, 1, 2>>
=============================================================================
