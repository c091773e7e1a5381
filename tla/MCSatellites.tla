---------------------------- MODULE MCSatellites ----------------------------
(***************************************************************************)
(* Satellites for TLC: skies of up to three satellites, one to a sentence.   *)
(* The same satellite may be in another place of the next group's list, and  *)
(* its signal may be stronger or weaker.                                     *)
(***************************************************************************)
EXTENDS Satellites

const_Skies ==
    { << <<1, 30>> >>,
      << <<1, 30>>, <<2, 40>> >>,
      << <<2, 40>>, <<1, 35>> >>,
      << <<1, 30>>, <<2, 40>>, <<3, 20>> >> }

const_InUseSets == {{}, {1, 2}}
=============================================================================
