----------------------------- MODULE MCHwcOverlay -----------------------------
\* Two layers, videos or not, for HwcOverlay.
EXTENDS HwcOverlay

ThreeTypes == {"CLIENT", "DEVICE", "SOLID_COLOR"}
===============================================================================
