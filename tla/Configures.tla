----------------------------- MODULE Configures -----------------------------
(***************************************************************************)
(* The configuration of the u-blox receiver, for any profile, beside a     *)
(* module that has an `at`, an `owed` or a `plan` of its own.              *)
(***************************************************************************)
CONSTANTS Core, Signals, Features, ChunkSize, CfgPlans  \* of ReceiverConfig

VARIABLES
  cfgPlan, fw, ram, cfgOwed, cfgAt, i, attempt, naks, rb, todo, rejected, unsupported,
  seen, once, result, left, round, pending

cfgVars == <<cfgPlan, fw, ram, cfgOwed, cfgAt, i, attempt, naks, rb, todo, rejected,
             unsupported, seen, once, result, left, round, pending>>

Cfg == INSTANCE ReceiverConfig WITH Plans <- CfgPlans, plan <- cfgPlan, owed <- cfgOwed, at <- cfgAt

\* The profile is one.
ASSUME ConfigAssumption == Cfg!WellFormed

-----------------------------------------------------------------------------

\* ReceiverConfig: what a configure reports is what the receiver holds, and silence is
\* not reported as a refusal.
ConfigureHonest == Cfg!ConfigureHonest

\* ReceiverConfig: a feature the firmware has is not given up for silence: a write drops
\* it for another request's refusal, a probe for two refusals that were not its own
\* or, if it did not find the feature before, after PROBE_ATTEMPTS faults of the link.
FeatureKept == Cfg!FeatureKept

=============================================================================
