----------------------------- MODULE MCVehicleData -----------------------------
(* A station for each kind of camera, with times that meet all the gaps of  *)
(* the kind and both days.                                                  *)
EXTENDS VehicleData
MCStations ==
    {[kinds |-> {"Frontage"}, times |-> {50, 65, 96}],
     [kinds |-> {"Entrance"}, times |-> {50, 54, 61, 115}],
     [kinds |-> {"Wash"},     times |-> {50, 65, 115}],
     [kinds |-> {"Island"},   times |-> {55, 62, 71}],
     [kinds |-> {"Alarm"},    times |-> {55, 65}]}
=============================================================================
