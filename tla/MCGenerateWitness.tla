------------------------- MODULE MCGenerateWitness -------------------------
(***************************************************************************)
(* The script with the instance and the inputs of MCJsCalculator.          *)
(***************************************************************************)
EXTENDS GenerateWitness, MCJsCalculator

MCCalls == {"calculateWitness", "calculateWTNSBin"}
=============================================================================
