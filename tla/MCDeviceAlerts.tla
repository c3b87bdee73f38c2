--------------------------- MODULE MCDeviceAlerts ---------------------------
(* DeviceAlerts for TLC: threads are model values, alert rows are numbered    *)
EXTENDS DeviceAlerts

=============================================================================
