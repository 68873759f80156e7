---------------------------- MODULE MCAppCapture ----------------------------
EXTENDS AppCapture
==============================================================================
