------------------------------- MODULE River -------------------------------
(***************************************************************************)
(* A job of the River queue, as far as the workers of this system rely on  *)
(* it: its state and the attempts it used.  Every worker uses a job kind   *)
(* of its own, with its own limit on the attempts (InsertOpts).            *)
(***************************************************************************)
EXTENDS Naturals

NoJob == [state |-> "none", tries |-> 0]
Queued == [state |-> "available", tries |-> 0]
JobRow(max) == [state: {"none", "available", "running", "completed", "discarded"},
                tries: 0..max]

(* Handed to a worker, which counts as an attempt. *)
Fetched(b) == [state |-> "running", tries |-> b.tries + 1]

(* An attempt that failed is retried while attempts are left. *)
Retried(b, max) ==
    [b EXCEPT !.state = IF b.tries >= max THEN "discarded" ELSE "available"]

(* What a job becomes when its worker answers that it is done ("nil"),     *)
(* that it failed ("error"), or that it should be tried later at no cost   *)
(* ("snooze"); the answer counts only while the job is running.            *)
Settled(b, answer, max) ==
    IF b.state # "running" THEN b
    ELSE CASE answer = "nil" -> [b EXCEPT !.state = "completed"]
           [] answer = "snooze" -> [state |-> "available", tries |-> b.tries - 1]
           [] answer = "error" -> Retried(b, max)
=============================================================================
