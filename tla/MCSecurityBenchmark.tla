------------------------ MODULE MCSecurityBenchmark ------------------------
(***************************************************************************)
(* SecurityBenchmark with the roles, weights and thresholds of             *)
(* configs/astb_oracle.yaml and configs/astb_predictor.yaml, a threat of   *)
(* each kind of playbook list in configs/threat_context.yaml, and a        *)
(* similarity on each side of every threshold.                             *)
(***************************************************************************)
EXTENDS SecurityBenchmark

MCLowRisk  == {"observe", "create_ticket"}
MCHighRisk == {"rate_limit", "block_source", "isolate_segment"}

MCPlaybooks ==
  [Normal        |-> {"observe"},
   DDoS_UDP      |-> {"rate_limit", "block_source"},
   Ransomware    |-> {"isolate_segment", "block_source"},
   SQL_injection |-> {"block_source", "create_ticket"}]
MCThreats == DOMAIN MCPlaybooks

MCRoles ==
  [readonly          |-> {"observe"},
   soc_analyst       |-> {"observe", "create_ticket"},
   security_operator |-> {"observe", "create_ticket", "rate_limit", "block_source"},
   admin             |-> {"observe", "create_ticket", "rate_limit", "block_source",
                          "isolate_segment"}]

MCWeights == [semantic |-> 40, context |-> 30, behavior |-> 30]

ASSUME ShippedConfiguration == GeneratorNamed /\ PredictorStops /\ PredictorAgrees
=============================================================================
