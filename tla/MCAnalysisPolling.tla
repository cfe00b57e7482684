-------------------------- MODULE MCAnalysisPolling --------------------------
(* Two Analyses for the TLC runs of AnalysisPolling; identifiers are equal   *)
(* only to themselves, so one Analysis in place of another is noticed.       *)
EXTENDS AnalysisPolling, TLC

CONSTANTS a1, a2

TwoAnalyses == {a1, a2}
OneAnalysis == {a1}
=============================================================================
