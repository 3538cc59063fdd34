--------------------------- MODULE GatherDelivery ---------------------------
(***************************************************************************)
(* What a gather Job promises about its upload, without containers, files  *)
(* or the wait of one container for the other: a number of attempts, each  *)
(* of which sends at most one file, never one that was to be obfuscated    *)
(* and is not, and a success that stands for a file that has arrived.      *)
(***************************************************************************)
EXTENDS Naturals

CONSTANT BackoffLimit   \* attempts after the first

VARIABLES
    request,   \* must the file be clean, does success mean that it arrived
    attempt,   \* attempts that have failed
    sent,      \* the files that arrived, by attempt, in whole or in part
    outcome    \* of the Job

vars == <<request, attempt, sent, outcome>>

Init ==
    /\ request \in [clean : BOOLEAN, deliver : BOOLEAN]
    /\ attempt = 0 /\ sent = {} /\ outcome = "running"

\* The attempt sends its only file.
Deliver ==
    /\ outcome = "running"
    /\ \A f \in sent : f.attempt # attempt
    /\ \E f \in [attempt : {attempt}, clean : BOOLEAN, genuine : BOOLEAN] :
          /\ request.clean => f.clean
          /\ sent' = sent \cup {f}
    /\ UNCHANGED <<request, attempt, outcome>>

Retry ==
    /\ outcome = "running" /\ attempt < BackoffLimit
    /\ attempt' = attempt + 1
    /\ UNCHANGED <<request, sent, outcome>>

Succeed ==
    /\ outcome = "running"
    /\ request.deliver => \E f \in sent : f.attempt = attempt /\ f.genuine
    /\ outcome' = "Completed"
    /\ UNCHANGED <<request, attempt, sent>>

GiveUp ==
    /\ outcome = "running" /\ attempt = BackoffLimit
    /\ attempt' = attempt + 1 /\ outcome' = "Failed"
    /\ UNCHANGED <<request, sent>>

Next == Deliver \/ Retry \/ Succeed \/ GiveUp

Spec == Init /\ [][Next]_vars
=============================================================================
