---------------------------- MODULE MCFeatureCache ----------------------------
(* No targeting commands: what they change, the prerequisites, is in no      *)
(* listing.                                                                  *)
EXTENDS FeatureCache
=============================================================================
