------------------------- MODULE MCSensorManagerShim -------------------------
\* Two threads and a service that may die several times.
EXTENDS SensorManagerShim
===============================================================================
