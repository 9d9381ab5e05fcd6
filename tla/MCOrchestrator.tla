---------------------------- MODULE MCOrchestrator ----------------------------
EXTENDS Orchestrator
===============================================================================
