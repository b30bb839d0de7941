---------------------------- MODULE MCScalerTick ----------------------------
(* An app that scales on full replicas, an app with thresholds and both    *)
(* lifetimes, and an API.                                                  *)
EXTENDS ScalerTick

MCConfigs ==
    {[api |-> FALSE, min |-> 1, max |-> 2, up |-> 0, down |-> 0, hard |-> NoCap, soft |-> NoCap],
     [api |-> FALSE, min |-> 0, max |-> 2, up |-> 40, down |-> 50, hard |-> 3, soft |-> 2],
     [api |-> TRUE, min |-> 0, max |-> 2, up |-> 0, down |-> 0, hard |-> NoCap, soft |-> NoCap]}
=============================================================================
