------------------------------ MODULE MCFoxDen ------------------------------
EXTENDS FoxDen
MCDevicePin == [d \in Devices |-> d - 1]
=============================================================================
