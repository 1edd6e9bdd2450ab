------------------------ MODULE MCBandwidthCollector ------------------------
(* Instances of BandwidthCollector for TLC; everything is set in the .cfg.  *)
EXTENDS BandwidthCollector
=============================================================================
