-------------------------- MODULE MCCmsOperations --------------------------
(* Instances of CmsOperations for TLC.                                     *)
EXTENDS CmsOperations

CONSTANTS poller, watch

TwoRequests == 1..2

\* docs/operator/operations-runbook.md: "Two supported setups".
EitherSetup == {{poller}, {watch}}

=============================================================================
