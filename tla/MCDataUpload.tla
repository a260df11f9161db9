---------------------------- MODULE MCDataUpload ----------------------------
EXTENDS DataUpload
MCDevicePin == [d \in Devices |-> d - 1]
=============================================================================
