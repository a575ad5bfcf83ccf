----------------------------- MODULE MCISensorServer -----------------------------
\* Two clients, two names, two values of an int; two built-in sensors, one that comes and goes.
EXTENDS ISensorServer

CONSTANTS accelerometer, light, ring

TwoSensors == <<accelerometer, light>>
Rings == {<<>>, <<ring>>, <<ring, light>>}
==================================================================================
