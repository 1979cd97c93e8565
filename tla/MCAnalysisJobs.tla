---------------------------- MODULE MCAnalysisJobs ----------------------------
(* Small instances of AnalysisJobs for TLC.                                *)
EXTENDS AnalysisJobs, TLC

CONSTANTS h1, h2, j1, j2

===============================================================================
