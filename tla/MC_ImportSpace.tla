---------------------------- MODULE MC_ImportSpace ----------------------------
EXTENDS ImportSpace

\* Both files come from one job, whose item id the client may use again.
MC_JobOf == [f \in Files |-> CHOOSE j \in Jobs : TRUE]
=============================================================================
