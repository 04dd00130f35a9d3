------------------------------- MODULE RegBot -------------------------------
(***************************************************************************)
(* regbot: a job of JobServer runs a Lua script in a sandbox.  A script is *)
(* any sequence of calls of the sandbox; an error that a call raises ends  *)
(* the script (RunScript recovers from panics), and the deferred done of a *)
(* call gives back its slot.                                               *)
(***************************************************************************)
EXTENDS JobServer

CONSTANTS
    MaxCalls,       \* bound on the calls of a script
    MaxErrors,      \* bound on the calls whose requests fail
    DryRuns         \* values of --dry-run

VARIABLES
    script,     \* script[j]: the call that job j is in
    dryRun,     \* --dry-run was given
    errors

botVars == <<script, dryRun, errors>>

(* What a function of the sandbox does, as far as this model tells:        *)
(* "ctx"     : it first looks at the context, and raises an error if done  *)
(* "slot"    : it acquires a slot, and releases it when it returns or raises *)
(* "dry"     : in a dry run it leaves its work out                         *)
(* "lookup"  : it sends a request before that                              *)
(* "wait"    : it waits for the rate limit                                 *)
ConfigGet     == {"ctx", "slot"}
ImageCopy     == {"ctx", "slot", "dry"}
ImageExport   == {"ctx", "slot"}
ImageImport   == {"ctx", "slot"}
RateLimit     == {"ctx"}
RateLimitWait == {"wait"}
ManifestDelete == {"ctx", "lookup", "dry"}
ManifestGet   == {"ctx"}
ManifestHead  == {"ctx"}
ManifestPut   == {}
BlobGet       == {"ctx"}
BlobHead      == {"ctx"}
BlobPut       == {"ctx"}
TagDelete     == {"ctx", "dry"}
TagLs         == {"ctx"}
RepoLs        == {}
CloseReference == {"ctx"}

Function == {ConfigGet, ImageCopy, ImageExport, ImageImport, RateLimit, RateLimitWait,
             ManifestDelete, ManifestGet, ManifestHead, ManifestPut,
             BlobGet, BlobHead, BlobPut, TagDelete, TagLs, RepoLs, CloseReference}

(* "lua"    : between calls                                                *)
(* "queue"  : at the throttle                                              *)
(* "run"    : in a call, with its slot if it needs one                     *)
(* "wait"   : in the select of image.ratelimitWait                         *)
NewScript == [pc |-> "lua", fn |-> {}, calls |-> 0, late |-> FALSE]

BotInit ==
    /\ script = [j \in Job |-> NewScript]
    /\ dryRun \in DryRuns /\ (setup.program = "regsync" => ~dryRun)
    /\ errors = 0

Running(j, pc) == At(j, "body") /\ main.pc # "returned" /\ script[j].pc = pc

\* The context of the script is done.
Over(j) == canceled \/ script[j].late

RestSame == UNCHANGED <<setup, main, mainErr, canceled>>

\* The script ends, by itself or by an error; process returns ErrScriptFailed then.
ScriptEnds(j, err) ==
    /\ Ended(j, err)
    /\ script' = [script EXCEPT ![j] = NewScript]

\* (external) Lua calls a function.
Call(j, fn) ==
    /\ Running(j, "lua") /\ script[j].calls < MaxCalls
    /\ \/ /\ Over(j) /\ "ctx" \in fn
          /\ ScriptEnds(j, TRUE)
       \/ /\ ~(Over(j) /\ "ctx" \in fn)
          /\ script' = [script EXCEPT ![j].fn = fn, ![j].calls = @ + 1,
                                      ![j].pc = IF "slot" \in fn THEN "queue" ELSE "run"]
          /\ UNCHANGED <<job, failed>>
    /\ RestSame /\ UNCHANGED <<held, dryRun, errors>>

LuaDone(j) ==
    /\ Running(j, "lua")
    /\ ScriptEnds(j, FALSE)
    /\ RestSame /\ UNCHANGED <<held, dryRun, errors>>

QueueForSlot(j) ==
    /\ Running(j, "queue")
    /\ \/ /\ Acquire(j)
          /\ script' = [script EXCEPT ![j].pc = "run"]
          /\ UNCHANGED <<job, failed>>
       \/ Over(j) /\ ScriptEnds(j, TRUE) /\ UNCHANGED held
    /\ RestSame /\ UNCHANGED <<dryRun, errors>>

LeaveSlot(j) == IF "slot" \in script[j].fn THEN Release(j) ELSE UNCHANGED held

BackToLua(j) ==
    /\ script' = [script EXCEPT ![j].pc = "lua", ![j].fn = {}]
    /\ UNCHANGED <<job, failed>>

LeftOut(j) == dryRun /\ "dry" \in script[j].fn

\* The call does its work, or in a dry run nothing, and returns.
CallReturns(j) ==
    /\ Running(j, "run") /\ "wait" \notin script[j].fn
    /\ LeaveSlot(j) /\ BackToLua(j)
    /\ RestSame /\ UNCHANGED <<dryRun, errors>>

\* A request of the call fails and the call raises an error.
CallRaises(j) ==
    /\ Running(j, "run") /\ (LeftOut(j) => "lookup" \in script[j].fn)
    /\ errors < MaxErrors \/ Over(j)
    /\ errors' = IF Over(j) THEN errors ELSE errors + 1
    /\ LeaveSlot(j) /\ ScriptEnds(j, TRUE)
    /\ RestSame /\ UNCHANGED dryRun

\* image.ratelimitWait: HEADs until enough is left; "wait" is its select.
RateWait(j) ==
    /\ \/ Running(j, "run") /\ "wait" \in script[j].fn
          /\ \/ BackToLua(j)
             \/ script' = [script EXCEPT ![j].pc = "wait"] /\ UNCHANGED <<job, failed>>
       \/ Running(j, "wait")
          /\ \/ ~Over(j) /\ script' = [script EXCEPT ![j].pc = "run"] /\ UNCHANGED <<job, failed>>
             \/ BackToLua(j)    \* its own timeout, or that of the script
    /\ RestSame /\ UNCHANGED <<held, dryRun, errors>>

\* The timeout of the script's context.
Timeout(j) ==
    /\ At(j, "body") /\ main.pc # "returned"
    /\ ~script[j].late /\ script' = [script EXCEPT ![j].late = TRUE]
    /\ RestSame /\ UNCHANGED <<job, failed, held, dryRun, errors>>

BotJob(j) ==
    \/ \E fn \in Function : Call(j, fn)
    \/ LuaDone(j) \/ QueueForSlot(j) \/ CallReturns(j) \/ CallRaises(j) \/ RateWait(j)
=============================================================================
