----------------------------- MODULE JobServer -----------------------------
(***************************************************************************)
(* How regsync and regbot run the steps of their configuration: once, or   *)
(* as a server with a cron scheduler, in parallel goroutines counted by a  *)
(* WaitGroup, with a throttle (see PQueue) around the work.  What a job    *)
(* does between "body" and "end" is RegSync and RegBot.                    *)
(***************************************************************************)
EXTENDS Integers, Sequences, FiniteSets, Functions

CONSTANTS
    Steps,          \* the steps
    NoSchedule,     \* steps with neither a schedule nor an interval
    BadSchedule,    \* steps whose schedule cron does not accept
    Concurrent,     \* slots of rootOpts.throttle
    Setups          \* the ways to run the program; "steps" is its configuration

ASSUME JobServerAssumption ==
    /\ IsFiniteSet(Steps)
    /\ NoSchedule \subseteq Steps /\ BadSchedule \subseteq Steps
    /\ Concurrent \in Nat \ {0}
    /\ Setups \subseteq [program : {"regsync", "regbot"}, steps : Seq(Steps),
                         mode : {"once", "missing", "check", "server"}, parallel : BOOLEAN]
    /\ \A x \in Setups : IsInjective(x.steps)

VARIABLES
    setup,
    main,       \* the goroutine of runOnce, runServer or runCheck
    job,        \* the goroutines that process a step
    mainErr,    \* mainErr # nil
    failed,     \* some call of process returned an error
    held,       \* held[j]: slots of the throttle that j has not released
    canceled    \* the context is done: the program was interrupted

serverVars == <<setup, main, job, mainErr, failed, held, canceled>>

\* The run at the start of a step and the run of its cron entry.
Job == Steps \X {"first", "cron"}

(* "off"     : not running                                                 *)
(* "spawned" : started by cron, before wg.Add                              *)
(* "body"    : in process                                                  *)
(* "end"     : process has returned                                        *)
(* "write"   : saw mainErr = nil and is about to assign it                 *)
(* "over"    : a first run that is done                                    *)
NewJob == [pc |-> "off", err |-> FALSE]

ServerInit ==
    /\ setup \in Setups
    /\ main = [pc |-> "loop", i |-> 1]
    /\ job = [j \in Job |-> NewJob]
    /\ mainErr = FALSE /\ failed = FALSE /\ canceled = FALSE
    /\ held = [j \in Job |-> 0]

At(j, pc) == job[j].pc = pc
-----------------------------------------------------------------------------
(* The throttle.                                                           *)

\* The slots that are out.
Taken == UNION {{j} \X (1 .. held[j]) : j \in Job}

InUse == Cardinality(Taken)

Acquire(j) ==
    /\ InUse < Concurrent
    /\ held' = [held EXCEPT ![j] = @ + 1]

Release(j) == held' = [held EXCEPT ![j] = @ - 1]
-----------------------------------------------------------------------------
(* The main goroutine.                                                     *)

HasFirst == setup.mode # "server" \/ setup.program = "regsync"

\* One turn of the loop over the steps.  A cron entry that is refused leaves no
\* trace in mainErr unless there is an error already; its first run takes place.
LoopStep ==
    /\ main.pc = "loop" /\ main.i <= Len(setup.steps)
    /\ LET s == setup.steps[main.i]
           skip == setup.mode = "server" /\ s \in NoSchedule
       IN  IF skip \/ ~HasFirst
           THEN /\ main' = [main EXCEPT !.i = @ + 1]
                /\ UNCHANGED job
           ELSE /\ job' = [job EXCEPT ![<<s, "first">>].pc = "body"]
                /\ main' = IF setup.parallel THEN [main EXCEPT !.i = @ + 1]
                           ELSE [main EXCEPT !.pc = "inline"]
    /\ UNCHANGED <<setup, mainErr, failed, held, canceled>>

\* Without parallelism main itself processes the step.
InlineDone ==
    /\ main.pc = "inline" /\ At(<<setup.steps[main.i], "first">>, "over")
    /\ main' = [pc |-> "loop", i |-> main.i + 1]
    /\ UNCHANGED <<setup, job, mainErr, failed, held, canceled>>

\* Jobs counted by the WaitGroup: after wg.Add, before wg.Done.
Counted == {j \in Job : job[j].pc \in {"body", "end", "write"}}

\* wg.Wait after the loop; then the program returns or starts cron.
WaitDone ==
    /\ main.pc = "loop" /\ main.i > Len(setup.steps) /\ Counted = {}
    /\ main' = [main EXCEPT !.pc = IF setup.mode = "server" THEN "serve" ELSE "returned"]
    /\ UNCHANGED <<setup, job, mainErr, failed, held, canceled>>

\* (external) the interrupt.
Signal ==
    /\ ~canceled /\ main.pc # "returned" /\ canceled' = TRUE
    /\ UNCHANGED <<setup, main, job, mainErr, failed, held>>

\* c.Stop: no new runs; those that have begun go on.
Stop ==
    /\ main.pc = "serve" /\ canceled
    /\ main' = [main EXCEPT !.pc = "stop"]
    /\ UNCHANGED <<setup, job, mainErr, failed, held, canceled>>

Return ==
    /\ main.pc = "stop" /\ Counted = {}
    /\ main' = [main EXCEPT !.pc = "returned"]
    /\ UNCHANGED <<setup, job, mainErr, failed, held, canceled>>
-----------------------------------------------------------------------------
(* The goroutines of the jobs.                                             *)

\* (external) cron starts an entry; SkipIfStillRunning: not while it still runs.
Fire(s) ==
    /\ main.pc = "serve" /\ s \in Range(setup.steps) \ (NoSchedule \cup BadSchedule)
    /\ At(<<s, "cron">>, "off")
    /\ job' = [job EXCEPT ![<<s, "cron">>].pc = "spawned"]
    /\ UNCHANGED <<setup, main, mainErr, failed, held, canceled>>

AddToGroup(j) ==
    /\ At(j, "spawned")
    /\ job' = [job EXCEPT ![j].pc = "body"]
    /\ UNCHANGED <<setup, main, mainErr, failed, held, canceled>>

\* process returns.
Ended(j, err) ==
    /\ job' = [job EXCEPT ![j] = [pc |-> "end", err |-> err]]
    /\ failed' = (failed \/ err)

Idle(j) == [NewJob EXCEPT !.pc = IF j[2] = "first" THEN "over" ELSE "off"]
\* Mutant: a run without an error assigns mainErr too.
ReadErrAlways(j) ==
    /\ At(j, "end")
    /\ job' = [job EXCEPT ![j] = IF ~mainErr THEN [@ EXCEPT !.pc = "write"] ELSE Idle(j)]
    /\ UNCHANGED <<setup, main, mainErr, failed, held, canceled>>

\* if mainErr == nil: the read.  A first run looks only when it has an error to
\* report; a cron run also when it has none.
ReadErr(j) ==
    /\ At(j, "end")
    /\ job' = [job EXCEPT ![j] = IF (job[j].err \/ j[2] = "cron") /\ ~mainErr
                                 THEN [@ EXCEPT !.pc = "write"] ELSE Idle(j)]
    /\ UNCHANGED <<setup, main, mainErr, failed, held, canceled>>

\* mainErr = err: the write, unsynchronised with the other goroutines.
WriteErr(j) ==
    /\ At(j, "write")
    /\ mainErr' = job[j].err
    /\ job' = [job EXCEPT ![j] = Idle(j)]
    /\ UNCHANGED <<setup, main, failed, held, canceled>>

MainStep == LoopStep \/ InlineDone \/ WaitDone \/ Stop \/ Return

\* The goroutines end with the program: a run that cron had started but that had
\* not reached wg.Add is not waited for.
JobStep(j) == main.pc # "returned" /\ (AddToGroup(j) \/ ReadErr(j) \/ WriteErr(j))

ServerNext ==
    \/ MainStep \/ Signal
    \/ \E s \in Steps : Fire(s)
    \/ \E j \in Job : JobStep(j)
-----------------------------------------------------------------------------
(* runOnce and runCheck return an error exactly when a step failed,        *)
(* although the goroutines test and set mainErr without a lock.  (Not      *)
(* runServer: a cron run without an error overwrites what another run has  *)
(* written since it looked.)                                               *)
ErrorsReported ==
    main.pc = "returned" /\ setup.mode # "server" => (mainErr <=> failed)

(* Every path of a job gives back each slot it took, once: no more than    *)
(* Concurrent are out, a job that is not in process holds none, and all    *)
(* are back when the program returns.                                      *)
SlotsReturned ==
    /\ InUse <= Concurrent
    /\ \A j \in Job : held[j] \in 0 .. 1 /\ (held[j] = 1 => At(j, "body"))
    /\ main.pc = "returned" => InUse = 0

TypeOK ==
    /\ setup \in Setups
    /\ main.pc \in {"loop", "inline", "serve", "stop", "returned"} /\ main.i \in 1 .. Len(setup.steps) + 1
    /\ job \in [Job -> [pc : {"off", "spawned", "body", "end", "write", "over"}, err : BOOLEAN]]
    /\ held \in [Job -> Nat]
    /\ {mainErr, failed, canceled} \subseteq BOOLEAN

(* The jobs of a server: of their types, with every slot given back and    *)
(* every error reported.                                                   *)
JobsSound == TypeOK /\ ErrorsReported /\ SlotsReturned
=============================================================================
