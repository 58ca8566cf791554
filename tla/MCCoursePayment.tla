-------------------------- MODULE MCCoursePayment --------------------------
(***************************************************************************)
(* CoursePayment on small instances.                                       *)
(***************************************************************************)
EXTENDS CoursePayment, TLC

\* Devices, and the presses of a device, are interchangeable.
Symmetry == Permutations(Devices) \cup Permutations(Taps)
=============================================================================
