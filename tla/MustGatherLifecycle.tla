------------------------- MODULE MustGatherLifecycle -------------------------
(***************************************************************************)
(* What the operator promises about the life of the MustGathers of one     *)
(* name and their gather Jobs, without caches, work queue, requests or     *)
(* retries: a gather runs only for a MustGather under protection of the    *)
(* finalizer, and a MustGather under protection goes only when the gather  *)
(* known to the operator has been stopped, unless its resources are to be  *)
(* retained.  A gather is not known before the operator's cache shows it:  *)
(* until then a deletion overlooks it.                                     *)
(***************************************************************************)
EXTENDS Naturals

VARIABLES
    uid,        \* the MustGather, 0 when there is none
    protected,  \* it carries the finalizer
    deleting,   \* its user has deleted it
    retain,     \* spec.retainResourcesOnCompletion
    last,       \* MustGathers created so far
    gather      \* the Job of the present MustGather

vars == <<uid, protected, deleting, retain, last, gather>>

Init ==
    /\ uid = 0 /\ protected = FALSE /\ deleting = FALSE /\ retain = FALSE
    /\ last = 0 /\ gather = "none"

Create ==
    /\ uid = 0
    /\ last' = last + 1 /\ uid' = last + 1
    /\ retain' \in BOOLEAN
    /\ UNCHANGED <<protected, deleting, gather>>

Protect ==
    /\ uid # 0 /\ ~protected /\ ~deleting
    /\ protected' = TRUE
    /\ UNCHANGED <<uid, deleting, retain, last, gather>>

\* The MustGather and everything known of it are gone.
Vanish ==
    /\ uid' = 0 /\ protected' = FALSE /\ deleting' = FALSE /\ retain' = FALSE
    /\ gather' = "none"
    /\ UNCHANGED last

\* The user deletes what is not yet protected, and nothing has been started.
Withdraw == uid # 0 /\ ~protected /\ gather = "none" /\ Vanish

Delete ==
    /\ protected /\ ~deleting
    /\ deleting' = TRUE
    /\ UNCHANGED <<uid, protected, retain, last, gather>>

Start ==
    /\ protected /\ gather = "none"
    /\ gather' = "started"
    /\ UNCHANGED <<uid, protected, deleting, retain, last>>

\* The operator gets to know of the gather.
Notice ==
    /\ gather = "started"
    /\ gather' = "known"
    /\ UNCHANGED <<uid, protected, deleting, retain, last>>

Stop ==
    /\ gather \in {"started", "known"} /\ ~retain
    /\ gather' = "stopping"
    /\ UNCHANGED <<uid, protected, deleting, retain, last>>

Stopped ==
    /\ gather = "stopping"
    /\ gather' = "none"
    /\ UNCHANGED <<uid, protected, deleting, retain, last>>

Release ==
    /\ protected /\ deleting
    /\ gather = "known" => retain
    /\ Vanish

Next ==
    \/ Create \/ Protect \/ Withdraw \/ Delete
    \/ Start \/ Notice \/ Stop \/ Stopped \/ Release

Spec == Init /\ [][Next]_vars
=============================================================================
