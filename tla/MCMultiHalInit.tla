---------------------------- MODULE MCMultiHalInit ----------------------------
\* Configuration files of three lines for MultiHalInit.
EXTENDS MultiHalInit

\* The last sub-HAL offers no sensor; local handles overlap.
LastIsEmpty == << <<5, 6>>, <<5>>, <<>> >>

\* The first sub-HAL offers no sensor.
FirstIsEmpty == << <<>>, <<5>>, <<6>> >>
===============================================================================
