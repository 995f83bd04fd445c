---------------------------- MODULE MCAssetStream ----------------------------
(* Instances of AssetStream: in MCAssetStream.cfg each document comes in     *)
(* calls of HandleData() of its own, in MCAssetStreamCoalesced.cfg it may    *)
(* share one with the next.                                                  *)
EXTENDS AssetStream
=============================================================================
