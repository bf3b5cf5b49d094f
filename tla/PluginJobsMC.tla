----------------------------- MODULE PluginJobsMC -----------------------------
(* PluginJobs for TLC, and what docs say that the code does not keep. *)
EXTENDS PluginJobs

\* A late result must not overwrite that of the runner that has the job now
\* (handlePluginJobComplete); numbers start over with each session, so one of
\* an earlier session may carry the job and the claim of another job of this.
ResultIsOfThisSession ==
  \A s \in Slots : jobs[s].state = "finished" => jobs[s].result.session = session

\* A completion with a stale claim is told so (docs/webserver-endpoints.md); one
\* that comes after the job was finished by another claim is told "ok".
StaleIsToldSo ==
  [][\A r \in Runners :
       conn[r].ask = "complete" /\ conn'[r] = Told("ok")
       => \A s \in Slots : jobs[s].id = conn[r].hand.id => jobs[s].claim = conn[r].hand.claim]_vars
=============================================================================
