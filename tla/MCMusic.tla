------------------------------ MODULE MCMusic ------------------------------
(* One server, one track waiting at most.  In MCMusic.cfg the first process *)
(* starts one track and restarts; the second changes its queue four times,  *)
(* enough for a late report to meet another play.                           *)
EXTENDS Music

OneThenFour == <<1, 4>>
Five == <<5>>
TwoVolumes == {40, 100}
OneVolume == {100}
=============================================================================
