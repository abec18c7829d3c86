------------------------------- MODULE MCInfo -------------------------------
(***************************************************************************)
(* Small instances of Info for TLC.                                        *)
(***************************************************************************)
EXTENDS Info

\* 0, from which the search for the extremes starts, and one below.
Signed == { -1, 0 }

\* smoothAverage of more samples than a run keeps, and of larger values.
ASSUME SmoothAverageIsAMean ==
  \A n \in 3 .. 5 : \A arr \in [1 .. n -> -2 .. 3] :
    Within(smoothAverage(arr), Range(arr))
=============================================================================
