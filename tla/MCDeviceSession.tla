--------------------------- MODULE MCDeviceSession ---------------------------
EXTENDS DeviceSession, TLC

CONSTANTS d1, d2, t1, t2

MCTenant == d1 :> t1 @@ d2 :> t2
=============================================================================
