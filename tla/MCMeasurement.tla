---------------------------- MODULE MCMeasurement ----------------------------
\* Two vehicles that enter and leave the zone, one RSU, one alert.
EXTENDS Measurement

CONSTANTS v1, v2, r1, a1

TwoVehicles == {v1, v2}
OneRsu == {r1}
OneAlert == {a1}
=============================================================================
