----------------------------- MODULE MCAdvisor -----------------------------
EXTENDS Advisor
=============================================================================
