----------------------------- MODULE CommandRpc -----------------------------
(***************************************************************************)
(* What OWNCommandSession.send() promises to its callers, with no session, *)
(* lock, socket or retry in sight.  A call is one invocation of send(); it *)
(* has an outcome, and the gateway carries its frame out some number of    *)
(* times.  A command (anything that is not an idempotent query) is carried *)
(* out at most once; an acknowledged call has been carried out; a command  *)
(* reported as rejected or as not sent has not been and never will be; and *)
(* "unknown" is the only outcome that leaves the caller in doubt.          *)
(***************************************************************************)
EXTENDS Naturals

CONSTANTS Calls,     \* invocations of send()
          Queries    \* those asking an idempotent status or dimension question

VARIABLES outcome,   \* what send() returned to its caller, "pending" until then
          runs       \* how often the gateway carried the call's frame out

vars == <<outcome, runs>>

Outcomes == {"pending", "ok", "nack", "unsent", "refused", "unknown"}

Init == /\ outcome = [s \in Calls |-> "pending"]
        /\ runs = [s \in Calls |-> 0]

(* The gateway carries out the frame of call s, perhaps after the caller    *)
(* has been told that the fate of its frame is unknown.                     *)
Execute(s) == /\ outcome[s] # "refused"
              /\ s \in Queries \/ (outcome[s] \in {"pending", "unknown"} /\ runs[s] = 0)
              /\ runs' = [runs EXCEPT ![s] = @ + 1]
              /\ UNCHANGED outcome

(* send() returns.  *)
Return(s, o) == /\ outcome[s] = "pending"
                /\ o = "ok" => runs[s] > 0
                /\ o = "refused" => runs[s] = 0
                /\ o \in {"nack", "unsent"} => s \in Queries \/ runs[s] = 0
                /\ outcome' = [outcome EXCEPT ![s] = o]
                /\ UNCHANGED runs

Next == \E s \in Calls :
           \/ Execute(s)
           \/ \E o \in Outcomes \ {"pending"} : Return(s, o)

Spec == Init /\ [][Next]_vars
=============================================================================
