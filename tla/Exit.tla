-------------------------------- MODULE Exit --------------------------------
(***************************************************************************)
(* atexit and exit (src/src/c/stdlib).  A handler may register others and  *)
(* may call exit itself: the inner exit runs what is left, flushes and     *)
(* ends the process, and the outer never goes on.                          *)
(***************************************************************************)
EXTENDS Integers, Sequences, SequencesExt

CONSTANTS
    AtexitMax,          \* ATEXIT_MAX, 32
    MaxCalls            \* bounds the registrations of a run

VARIABLES
    table,      \* _atexit_handlers, as many as _atexit_handler_count
    inside,     \* the handlers that have been called and not returned
    stage,      \* "running", "exiting", "flushed" or "ended"
    accepted,   \* how many registrations have returned 0
    ran         \* the registrations called, in order, and how many there were

exitVars == <<table, inside, stage, accepted, ran>>

ExitInit == /\ table = <<>> /\ inside = <<>> /\ stage = "running"
            /\ accepted = 0 /\ ran = <<>>

(* A registration is known by its number; a full table refuses it. *)
Atexit ==
    /\ stage = "running" \/ inside # <<>>
    /\ stage \notin {"flushed", "ended"}
    /\ accepted < MaxCalls
    /\ Len(table) < AtexitMax
    /\ accepted' = accepted + 1
    /\ table' = Append(table, accepted')
    /\ UNCHANGED <<inside, stage, ran>>

(* exit by the program, or by the handler that is running. *)
Exit == /\ stage = "running" \/ inside # <<>>
        /\ stage \notin {"flushed", "ended"}
        /\ stage' = "exiting"
        /\ inside' = <<>>
        /\ UNCHANGED <<table, accepted, ran>>

\* Bug: the count does not go down before the handler is called.
Call_before == /\ stage = "exiting" /\ inside = <<>> /\ table # <<>>
               /\ inside' = <<Last(table)>>
               /\ ran' = Append(ran, [id |-> Last(table), known |-> accepted])
               /\ UNCHANGED <<table, stage, accepted>>

(* The count goes down before the handler is called. *)
Call == /\ stage = "exiting" /\ inside = <<>> /\ table # <<>>
        /\ table' = Front(table)
        /\ inside' = <<Last(table)>>
        /\ ran' = Append(ran, [id |-> Last(table), known |-> accepted])
        /\ UNCHANGED <<stage, accepted>>

Return1 == /\ inside # <<>>
           /\ inside' = <<>>
           /\ UNCHANGED <<table, stage, accepted, ran>>

(* fflush(NULL), then _exit. *)
Flush == /\ stage = "exiting" /\ inside = <<>> /\ table = <<>>
         /\ stage' = "flushed"
         /\ UNCHANGED <<table, inside, accepted, ran>>

End == /\ stage = "flushed"
       /\ stage' = "ended"
       /\ UNCHANGED <<table, inside, accepted, ran>>

ExitNext == Atexit \/ Exit \/ Call \/ Return1 \/ Flush \/ End

ExitSpec == ExitInit /\ [][ExitNext]_exitVars

-----------------------------------------------------------------------------
(* Before the streams are flushed every handler that atexit accepted has    *)
(* run, once; and of two handlers the later registered runs first, unless   *)
(* it was registered after the other had been called - also when handlers   *)
(* register others or call exit: atexit.c, exit.c.                          *)
HandlersRunOnce ==
    /\ \A i, j \in DOMAIN ran : i < j =>
          /\ ran[i].id # ran[j].id
          /\ ran[i].id > ran[j].id \/ ran[j].id > ran[i].known
    /\ \A i \in DOMAIN ran : ran[i].id \notin ToSet(table)
    /\ stage \in {"flushed", "ended"} => {ran[i].id : i \in DOMAIN ran} = 1..accepted
=============================================================================
