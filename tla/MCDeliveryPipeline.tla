------------------------- MODULE MCDeliveryPipeline -------------------------
(***************************************************************************)
(* Model-checking module of DeliveryPipeline: the delivery settings of the *)
(* runs.  The partitions are interchangeable: nothing depends on their     *)
(* order.                                                                  *)
(***************************************************************************)
EXTENDS DeliveryPipeline, TLC

\* Every strategy with every policy, changed at any restart.
AllConfigs == [blocking : BOOLEAN, policy : Policies]

\* The settings that stop the pipeline at a failure.
StoppingConfigs == [blocking : BOOLEAN, policy : {"FailBatch"}]

\* Acknowledged in order, stop at a failure: what the L2 store is safe with.
OrderedConfigs == [blocking : {TRUE}, policy : {"FailBatch"}]

\* Acknowledged in order, a failed output goes to the dead-letter queue.
SkippingConfigs == [blocking : {TRUE}, policy : {"SkipToDlq"}]

Symmetry == Permutations(Parts)

=============================================================================
