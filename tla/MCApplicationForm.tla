------------------------- MODULE MCApplicationForm -------------------------
(* ApplicationForm for TLC: amounts on both sides of the least fees, with   *)
(* fractions, and from the limit of an integer on.                          *)
EXTENDS ApplicationForm

AroundTheLimits == {1950, 2000, 2050, 19999, 20000, 102400, 102500}
=============================================================================
