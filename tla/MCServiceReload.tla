--------------------------- MODULE MCServiceReload ---------------------------
(* Instances of ServiceReload for TLC: iotd, which looks after two services.  *)
EXTENDS ServiceReload

CONSTANTS Xively, TcpClient

InitScripts == {{Xively, TcpClient}}
=============================================================================
