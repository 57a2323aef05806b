-------------------------- MODULE MCReloadPipeline --------------------------
(* One client of each kind, two of the kinds that meet in a shared cell or *)
(* queue; they and the operator share a budget of MaxVersion writes.       *)
EXTENDS ReloadPipeline

CONSTANTS u1, u2, api, dev, j1, j2
MCIpcClients == {u1, u2}
MCApiClients == {api}
MCMutClients == {dev}
MCTwoJobs    == {j1, j2}
=============================================================================
