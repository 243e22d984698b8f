----------------------------- MODULE MCDevices -----------------------------
EXTENDS Devices, TLC
=============================================================================
