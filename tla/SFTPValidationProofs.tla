------------------------ MODULE SFTPValidationProofs ------------------------
(***************************************************************************)
(* The safety of validateSFTPWithRetry, for every number of retries.       *)
(***************************************************************************)
EXTENDS SFTPValidation, TLAPS

\* What is inductive: the types, the connections and the count of timeouts.
Inv == TypeOK /\ ConnectionsClosed /\ RetryInv

\* The first dial starts with nothing open and nothing counted.
LEMMA InitInv == Init => Inv
<1> SUFFICES ASSUME Init PROVE Inv
  OBVIOUS
<1>1. TypeOK
  <2>1. 1 \in 1 .. MaxRetries /\ 0 \in 0 .. MaxRetries
    BY RetriesAssumption
  <2> QED
    BY <2>1 DEF Init, TypeOK, Stages, Waiting, Errors
<1>2. ConnectionsClosed
  BY DEF Init, ConnectionsClosed, Waiting
<1>3. RetryInv
  BY DEF Init, RetryInv, Waiting
<1> QED
  BY <1>1, <1>2, <1>3 DEF Inv

\* Ends counts a timeout within the attempt it ends.
LEMMA EndsInv ==
    ASSUME Inv, stage \in Waiting \cup {"dial"}, NEW e \in Errors, Ends(e),
           e = "canceled" => canceled,
           open' = 0,
           UNCHANGED <<host, proxy, attempt, mute, canceled, verdict>>
    PROVE  Inv'
<1>1. TypeOK'
  BY RetriesAssumption DEF Inv, TypeOK, RetryInv, Ends, Stages, Waiting, Errors
<1>2. ConnectionsClosed'
  BY DEF Ends, ConnectionsClosed, Waiting
<1>3. RetryInv'
  BY RetriesAssumption
     DEF Inv, TypeOK, RetryInv, Ends, Stages, Waiting, Errors, IsTransientError
<1> QED
  BY <1>1, <1>2, <1>3 DEF Inv

\* Every step of the validation and of its environment preserves Inv.
LEMMA NextInv == Inv /\ [Next]_vars => Inv'
<1> SUFFICES ASSUME Inv, [Next]_vars PROVE Inv'
  OBVIOUS
<1> USE DEF Stages, Waiting, Errors, IsTransientError
<1>open. /\ stage \in Waiting => open = 1
         /\ stage = "dial" => open = 0
  BY DEF Inv, TypeOK, ConnectionsClosed
<1>1. CASE Dial
  <2>1. CASE stage' \in {"connect", "handshake"} /\ open' = open + 1
    BY <1>open, <1>1, <2>1, RetriesAssumption
       DEF Dial, Passes, Ends, Inv, TypeOK, ConnectionsClosed, RetryInv
  <2>2. CASE open' = open
    <3>1. PICK e \in Errors : Ends(e) /\ (e = "canceled" => canceled)
      BY <1>open, <1>1, <2>2 DEF Dial
    <3> QED
      BY <1>open, <1>1, <2>2, <3>1, EndsInv DEF Dial
  <2> QED
    BY <1>1, <2>1, <2>2 DEF Dial, Passes
<1>2. ASSUME NEW at \in Waiting, NEW next \in Waiting, Answered(at, next)
      PROVE  Inv'
  <2>1. CASE Passes(next) /\ UNCHANGED open
    BY <1>open, <1>2, <2>1, RetriesAssumption
       DEF Answered, Passes, Inv, TypeOK, ConnectionsClosed, RetryInv
  <2>2. CASE /\ \E e \in {"timeout", "permanent"} : Ends(e)
             /\ open' = open - 1
    <3>1. PICK e \in {"timeout", "permanent"} : Ends(e)
      BY <2>2
    <3>2. stage \in Waiting
      BY <1>2 DEF Answered
    <3>4. open = 1 /\ open' = open - 1
      BY <1>open, <2>2, <3>2
    <3>5. open' = 0
      BY <3>4
    <3>3. UNCHANGED <<host, proxy, attempt, mute, canceled, verdict>>
      BY <1>2 DEF Answered
    <3> QED
      BY <3>1, <3>2, <3>3, <3>5, EndsInv
  <2> QED
    BY <1>2, <2>1, <2>2 DEF Answered
<1>3. CASE Connect
  BY <1>2, <1>3 DEF Connect
<1>4. CASE Handshake
  BY <1>2, <1>4 DEF Handshake
<1>5. CASE Subsystem
  <2>1. PICK e \in {"none", "timeout", "permanent"} : Ends(e)
    BY <1>5 DEF Subsystem
  <2>2. stage \in Waiting
    BY <1>5 DEF Subsystem
  <2>4. open = 1 /\ open' = open - 1
    BY <1>open, <1>5, <2>2 DEF Subsystem
  <2>5. open' = 0
    BY <2>4
  <2>3. UNCHANGED <<host, proxy, attempt, mute, canceled, verdict>>
    BY <1>5 DEF Subsystem
  <2> QED
    BY <2>1, <2>2, <2>3, <2>5, EndsInv
<1>6. CASE NextAttempt
  BY <1>6, RetriesAssumption
     DEF NextAttempt, Inv, TypeOK, ConnectionsClosed, RetryInv
<1>7. CASE Report
  BY <1>7, RetriesAssumption DEF Report, Inv, TypeOK, ConnectionsClosed, RetryInv
<1>8. CASE Cancel
  BY <1>8, RetriesAssumption DEF Cancel, Inv, TypeOK, ConnectionsClosed, RetryInv
<1>9. CASE PeerHangs
  BY <1>9, RetriesAssumption DEF PeerHangs, Inv, TypeOK, ConnectionsClosed, RetryInv
<1>10. CASE UNCHANGED vars
  BY <1>10 DEF vars, Inv, TypeOK, ConnectionsClosed, RetryInv
<1> QED
  BY <1>1, <1>3, <1>4, <1>5, <1>6, <1>7, <1>8, <1>9, <1>10 DEF Next, Step

\* The inductive invariant holds in every state.
LEMMA SpecInv == Spec => []Inv
  BY InitInv, NextInv, PTL DEF Spec

\* checkSFTPConnection never makes more than MaxSFTPValidationRetries attempts
\* and holds at most one connection.
THEOREM TypeCorrect == Spec => []TypeOK
<1>1. Inv => TypeOK
  BY DEF Inv
<1> QED
  BY SpecInv, <1>1, PTL

\* Every error path of checkSFTPConnection and proxyDialContext closes the
\* connection it opened.
THEOREM NoConnectionLeaks == Spec => []ConnectionsClosed
<1>1. Inv => ConnectionsClosed
  BY DEF Inv
<1> QED
  BY SpecInv, <1>1, PTL

\* Between the attempts of validateSFTPWithRetry the count of timeouts is exact.
THEOREM RetriesCounted == Spec => []RetryInv
<1>1. Inv => RetryInv
  BY DEF Inv
<1> QED
  BY SpecInv, <1>1, PTL

\* setValidationFailureStatus reports a failed login only when the server
\* refused it or timed out in every attempt, not when the operator was stopped.
THEOREM ShutdownIsNoVerdict == Spec => []FailedIsServersDoing
<1>1. Inv => FailedIsServersDoing
  BY RetriesAssumption
     DEF Inv, TypeOK, RetryInv, FailedIsServersDoing, IsTransientError, Errors,
         Stages, Waiting
<1> QED
  BY SpecInv, <1>1, PTL

\* What has got past the dial, or past CONNECT, is a host that is not empty.
ReachInv ==
    /\ host \in Hosts
    /\ stage \in {"handshake", "subsystem"} => Reachable
    /\ stage \in {"attemptOver", "returned"} /\ lastErr = "none" => Reachable
    /\ verdict = "validated" => Reachable

\* Every step preserves it.
LEMMA NextReach == TypeOK /\ ReachInv /\ [Next]_vars => ReachInv'
<1> SUFFICES ASSUME TypeOK, ReachInv, [Next]_vars PROVE ReachInv'
  OBVIOUS
<1> USE DEF ReachInv, Reachable, Passes, Ends, Waiting
<1>1. CASE Dial
  BY <1>1 DEF Dial, TypeOK, ProxySettings
<1>2. CASE Connect
  BY <1>2 DEF Connect, Answered
<1>3. CASE Handshake
  BY <1>3 DEF Handshake, Answered
<1>4. CASE Subsystem
  BY <1>4 DEF Subsystem
<1>5. CASE NextAttempt
  BY <1>5 DEF NextAttempt, IsTransientError
<1>6. CASE Report
  <2>1. CASE lastErr = "none"
    BY <1>6, <2>1 DEF Report
  <2>2. CASE lastErr # "none"
    <3>1. verdict' \in {"Failed", "unreported"}
      BY <1>6, <2>2 DEF Report, TypeOK
    <3> QED
      BY <1>6, <2>2, <3>1 DEF Report
  <2> QED
    BY <2>1, <2>2
<1>7. CASE Cancel \/ PeerHangs \/ UNCHANGED vars
  BY <1>7 DEF Cancel, PeerHangs, vars
<1> QED
  BY <1>1, <1>2, <1>3, <1>4, <1>5, <1>6, <1>7 DEF Next, Step

\* A validation that succeeded has logged in where build/bin/upload will connect
\* to, for every host without a port.
THEOREM ValidatedTarget == Spec => []UploadsWhereValidated
<1>1. Init => ReachInv
  BY DEF Init, ReachInv
<1>2. ReachInv => UploadsWhereValidated
  BY DEF ReachInv, Reachable, UploadsWhereValidated, UploadAddress,
         NormalizeHostAddress, ContainsPort
<1> QED
  BY <1>1, <1>2, NextReach, TypeCorrect, PTL DEF Spec
(***************************************************************************)
(* How much work is left.  ValidationReturns is a liveness property; this  *)
(* is its safety half: no step of the validation is taken in vain.         *)
(***************************************************************************)

\* How many steps an attempt that has come to a stage takes at most, together
\* with returning and reporting the result.
StageLeft ==
    [dial |-> 6, connect |-> 5, handshake |-> 4, subsystem |-> 3,
     attemptOver |-> 2, returned |-> 1, reported |-> 0]

\* An upper bound on the steps the worker still takes: five for every attempt
\* that may follow, and the rest of this one.
StepsLeft ==
    IF stage \in {"returned", "reported"}
    THEN StageLeft[stage]
    ELSE StageLeft[stage] + 5 * (MaxRetries - attempt)

\* Every step of the worker uses up some of what is left; a shutdown and a peer
\* that falls silent add nothing to it.
StepsRunOut ==
    [][ /\ Step => StepsLeft' < StepsLeft
        /\ Cancel \/ PeerHangs => StepsLeft' = StepsLeft ]_vars

\* StepsLeft is a natural number, at most 6 at the first dial and 5 more for
\* every retry.
LEMMA StepsBounded == TypeOK => StepsLeft \in 0 .. (5 * MaxRetries + 1)
<1> SUFFICES ASSUME TypeOK PROVE StepsLeft \in 0 .. (5 * MaxRetries + 1)
  OBVIOUS
<1>1. attempt \in Nat /\ 1 <= attempt /\ attempt <= MaxRetries
  BY RetriesAssumption DEF TypeOK
<1>2. StageLeft[stage] \in 0 .. 6
  BY DEF TypeOK, Stages, Waiting, StageLeft
<1>3. stage \in {"returned", "reported"} => StageLeft[stage] \in 0 .. 1
  BY DEF StageLeft
<1> QED
  BY <1>1, <1>2, <1>3, RetriesAssumption DEF StepsLeft

\* What a step does to the place in the loop is enough to bound it.
LEMMA StepAdvances ==
    ASSUME TypeOK, Step
    PROVE  StepsLeft' < StepsLeft
<1>t. attempt \in Nat /\ 1 <= attempt /\ attempt <= MaxRetries /\ MaxRetries \in Nat
  BY RetriesAssumption DEF TypeOK
<1>1. CASE /\ attempt' = attempt
           /\ stage \in Waiting \cup {"dial"}
           /\ stage' \in Waiting \cup {"attemptOver"}
           /\ StageLeft[stage'] < StageLeft[stage]
  <2>1. StageLeft[stage] \in Nat /\ StageLeft[stage'] \in Nat
    BY <1>1 DEF Waiting, StageLeft
  <2>2. /\ StepsLeft = StageLeft[stage] + 5 * (MaxRetries - attempt)
        /\ StepsLeft' = StageLeft[stage'] + 5 * (MaxRetries - attempt)
    BY <1>1 DEF StepsLeft, Waiting
  <2> QED
    BY <1>1, <1>t, <2>1, <2>2
<1>2. CASE Dial
  BY <1>1, <1>2 DEF Dial, Passes, Ends, Waiting, StageLeft
<1>3. CASE Connect
  BY <1>1, <1>3 DEF Connect, Answered, Passes, Ends, Waiting, StageLeft
<1>4. CASE Handshake
  BY <1>1, <1>4 DEF Handshake, Answered, Passes, Ends, Waiting, StageLeft
<1>5. CASE Subsystem
  BY <1>1, <1>5 DEF Subsystem, Ends, Waiting, StageLeft
<1>6. CASE NextAttempt
  <2>1. StepsLeft = 2 + 5 * (MaxRetries - attempt)
    BY <1>6 DEF NextAttempt, StepsLeft, StageLeft
  <2>2. CASE stage' = "dial" /\ attempt' = attempt + 1
    <3>1. StepsLeft' = 6 + 5 * (MaxRetries - (attempt + 1))
      BY <2>2 DEF StepsLeft, StageLeft
    <3> QED
      BY <1>t, <2>1, <3>1
  <2>3. CASE stage' = "returned"
    <3>1. StepsLeft' = 1
      BY <2>3 DEF StepsLeft, StageLeft
    <3> QED
      BY <1>t, <2>1, <3>1
  <2> QED
    BY <1>6, <2>2, <2>3 DEF NextAttempt
<1>7. CASE Report
  <2>1. StepsLeft = 1 /\ StepsLeft' = 0
    BY <1>7 DEF Report, StepsLeft, StageLeft
  <2> QED
    BY <2>1
<1> QED
  BY <1>2, <1>3, <1>4, <1>5, <1>6, <1>7 DEF Step

\* However the server, the proxy and the network behave, and whenever the
\* operator is stopped, validateSFTPWithRetry takes at most 5 steps per attempt
\* and one to report: it cannot keep the only worker busy, it can only be kept
\* waiting by a peer that is silent.
THEOREM ValidationRunsOut ==
    Spec => /\ [](StepsLeft \in 0 .. (5 * MaxRetries + 1))
            /\ StepsRunOut
<1>1. ASSUME TypeOK, [Next]_vars
      PROVE  [ /\ Step => StepsLeft' < StepsLeft
               /\ Cancel \/ PeerHangs => StepsLeft' = StepsLeft ]_vars
  <2>1. Cancel \/ PeerHangs => StepsLeft' = StepsLeft
    BY DEF Cancel, PeerHangs, StepsLeft
  <2> QED
    BY <1>1, <2>1, StepAdvances
<1> QED
  BY <1>1, StepsBounded, TypeCorrect, PTL DEF Spec, StepsRunOut
=============================================================================
