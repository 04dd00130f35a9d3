-------------------------------- MODULE Jobs --------------------------------
(***************************************************************************)
(* regsync and regbot: the jobs of JobServer, with what one of the two     *)
(* programs does in them.                                                  *)
(***************************************************************************)
EXTENDS RegSync, RegBot

jobVars == <<serverVars, syncVars, botVars>>

Init == ServerInit /\ SyncInit /\ BotInit

Next ==
    \/ ServerNext /\ UNCHANGED <<syncVars, botVars>>
    \/ /\ setup.program = "regsync" /\ UNCHANGED botVars
       /\ (\E j \in Job : SyncJob(j)) \/ (\E t \in Tags : Publish(t))
    \/ /\ setup.program = "regbot" /\ UNCHANGED syncVars
       /\ \E j \in Job : BotJob(j) \/ Timeout(j)

Spec == Init /\ [][Next]_jobVars

\* The goroutines run, servers answer, and cron keeps starting its entries.
FairSpec ==
    /\ Spec
    /\ WF_jobVars(MainStep /\ UNCHANGED <<syncVars, botVars>>)
    /\ \A s \in Steps : WF_jobVars(Fire(s) /\ UNCHANGED <<syncVars, botVars>>)
    /\ \A j \in Job :
         /\ WF_jobVars(JobStep(j) /\ UNCHANGED <<syncVars, botVars>>)
         /\ SF_jobVars(setup.program = "regsync" /\ SyncJob(j) /\ UNCHANGED botVars)
=============================================================================
