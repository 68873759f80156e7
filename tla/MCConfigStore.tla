---------------------------- MODULE MCConfigStore ----------------------------
EXTENDS ConfigStore
==============================================================================
