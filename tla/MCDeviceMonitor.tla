--------------------------- MODULE MCDeviceMonitor ---------------------------
EXTENDS DeviceMonitor
=============================================================================
