--------------------------- MODULE SFTPValidation ---------------------------
(***************************************************************************)
(* validateSFTPWithRetry (controllers/mustgather/validation.go): the login *)
(* that Reconcile tries, on its worker, before it creates a Job with an    *)
(* SFTP upload.  An attempt dials the server or the proxy, sends CONNECT   *)
(* to the proxy, performs the SSH handshake and opens the sftp subsystem.  *)
(*                                                                         *)
(* Only the dial has a timeout and observes the context.  The context of   *)
(* Reconcile has no deadline; it is cancelled when the operator stops.     *)
(***************************************************************************)
EXTENDS Naturals

CONSTANT MaxRetries   \* MaxSFTPValidationRetries (3)

ASSUME RetriesAssumption == MaxRetries \in Nat \ {0}

VARIABLES
    host,       \* spec.uploadTarget.sftp.host
    proxy,      \* what the environment says about a proxy for the host
    attempt,    \* the attempt under way
    stage,      \* what it is waiting for
    open,       \* TCP connections the operator holds open
    lastErr,    \* the error of the last attempt
    mute,       \* the connected peer has stopped answering
    canceled,   \* the context is cancelled
    timeouts,   \* history: attempts that ended with a network timeout
    verdict     \* what Reconcile did with the result

vars == <<host, proxy, attempt, stage, open, lastErr, mute, canceled, timeouts,
          verdict>>

Waiting == {"connect", "handshake", "subsystem"}
Stages  == Waiting \cup {"dial", "attemptOver", "returned", "reported"}

\* What an attempt fails with, as far as the retry loop tells errors apart; all
\* that classifySFTPError finds wording for is one of these.
Errors == {"none", "timeout", "canceled", "permanent"}

\* What the environment's proxy variables say about the host: no proxy, a proxy
\* to ask with CONNECT, or a value that does not parse.
ProxySettings == {"none", "http", "malformed"}

(***************************************************************************)
(* The host, which both the operator and the upload script turn into an    *)
(* address.  A port is only told from an IPv6 literal behind brackets.     *)
(***************************************************************************)
Hosts ==
    {h \in [name : {"", "name", "ipv6"}, brackets : BOOLEAN, port : {"", "2222"}] :
        /\ h.brackets => h.name = "ipv6"
        /\ h.port # "" => h.name = "name" \/ h.brackets}

Bracketed(name) == name = "ipv6"

ContainsPort(h) == h.port # ""

\* An empty host, or one with a port, is the address as it is; otherwise
\* JoinHostPort puts an IPv6 literal in brackets, whether it came in brackets or
\* not.
NormalizeHostAddress(h) ==
    IF h.name = "" \/ ContainsPort(h) THEN h
    ELSE [name |-> h.name, brackets |-> Bracketed(h.name), port |-> "22"]

\* Mutant: a bare IPv6 literal is handed to sftp as it is.
UploadAddressBare(h) == [name |-> h.name, brackets |-> h.brackets, port |-> "22"]

\* FTP_HOST of the upload script, as sftp reads it: what follows a colon is the
\* name of a remote file, so the port is always its own.
UploadAddress(h) ==
    [name |-> IF h.name = "" THEN "sftp.access.redhat.com" ELSE h.name,
     brackets |-> Bracketed(h.name), port |-> "22"]

\* An empty host cannot be dialled, nor does a proxy connect to it.
Reachable == host.name # ""

Init ==
    /\ host \in Hosts
    /\ proxy \in ProxySettings
    /\ attempt = 1 /\ stage = "dial" /\ open = 0 /\ lastErr = "none"
    /\ mute = FALSE /\ canceled = FALSE /\ timeouts = 0 /\ verdict = "pending"

\* IsTransientError: a cancelled or expired context, or a network timeout.
\* The handshake's error is wrapped, so a timeout in it is recognised too.
IsTransientError(e) == e \in {"timeout", "canceled"}

(***************************************************************************)
(* The stages of checkSFTPConnection.                                      *)
(***************************************************************************)
Passes(next) ==
    /\ stage' = next
    /\ UNCHANGED <<lastErr, timeouts>>

Ends(e) ==
    /\ stage' = "attemptOver"
    /\ lastErr' = e
    /\ timeouts' = IF e = "timeout" THEN timeouts + 1 ELSE timeouts

\* netDialFunc up to the connection: proxy variables that do not parse fail at
\* once, a cancelled context fails the dial, and so does a timeout of 5 s.
Dial ==
    /\ stage = "dial"
    /\ \/ /\ proxy # "malformed" /\ ~canceled
          /\ proxy = "none" => Reachable
          /\ Passes(IF proxy = "http" THEN "connect" ELSE "handshake")
          /\ open' = open + 1
       \/ /\ proxy # "malformed"
          /\ \E e \in IF canceled THEN {"canceled"} ELSE {"timeout", "permanent"} :
                Ends(e)
          /\ UNCHANGED open
       \/ /\ proxy = "malformed"
          /\ Ends("permanent")
          /\ UNCHANGED open
    /\ UNCHANGED <<host, proxy, attempt, mute, canceled, verdict>>

\* What a peer that is not mute does: it answers, unless it is a proxy asked for
\* an empty host, the connection breaks or times out, or it refuses.
Answered(at, next) ==
    /\ stage = at /\ ~mute
    /\ \/ Reachable /\ Passes(next) /\ UNCHANGED open
       \/ /\ \E e \in {"timeout", "permanent"} : Ends(e)
          /\ open' = open - 1
    /\ UNCHANGED <<host, proxy, attempt, mute, canceled, verdict>>

\* proxyDialContext: write CONNECT, read the response, require 200.
Connect == Answered("connect", "handshake")

\* Mutant: the error path of the handshake forgets to close the connection.
HandshakeLeaks ==
    /\ stage = "handshake" /\ ~mute
    /\ Passes("subsystem") \/ \E e \in {"timeout", "permanent"} : Ends(e)
    /\ UNCHANGED <<host, proxy, attempt, open, mute, canceled, verdict>>

Handshake == Answered("handshake", "subsystem")

\* verifySFTPSubsystem; the deferred Close closes the connection either way.
Subsystem ==
    /\ stage = "subsystem" /\ ~mute
    /\ \E e \in {"none", "timeout", "permanent"} : Ends(e)
    /\ open' = open - 1
    /\ UNCHANGED <<host, proxy, attempt, mute, canceled, verdict>>

(***************************************************************************)
(* validateSFTPWithRetry and its caller.                                   *)
(***************************************************************************)

\* Mutant: one attempt too many.
NextAttemptOffByOne ==
    /\ stage = "attemptOver"
    /\ IF IsTransientError(lastErr) /\ attempt <= MaxRetries
       THEN stage' = "dial" /\ attempt' = attempt + 1
       ELSE stage' = "returned" /\ UNCHANGED attempt
    /\ UNCHANGED <<host, proxy, open, lastErr, mute, canceled, timeouts, verdict>>

\* Mutant: the last attempt is not made.
NextAttemptGivesUpEarly ==
    /\ stage = "attemptOver"
    /\ IF IsTransientError(lastErr) /\ attempt + 1 < MaxRetries
       THEN stage' = "dial" /\ attempt' = attempt + 1
       ELSE stage' = "returned" /\ UNCHANGED attempt
    /\ UNCHANGED <<host, proxy, open, lastErr, mute, canceled, timeouts, verdict>>

\* Mutant: a cancelled attempt is repeated without being counted.
NextAttemptForCanceled ==
    /\ stage = "attemptOver"
    /\ IF IsTransientError(lastErr) /\ attempt < MaxRetries
       THEN /\ stage' = "dial"
            /\ attempt' = IF lastErr = "canceled" THEN attempt ELSE attempt + 1
       ELSE stage' = "returned" /\ UNCHANGED attempt
    /\ UNCHANGED <<host, proxy, open, lastErr, mute, canceled, timeouts, verdict>>

\* The loop: a transient error is retried while attempts are left.
NextAttempt ==
    /\ stage = "attemptOver"
    /\ \/ /\ IsTransientError(lastErr) /\ attempt < MaxRetries
          /\ stage' = "dial" /\ attempt' = attempt + 1
       \/ /\ ~IsTransientError(lastErr) \/ attempt = MaxRetries
          /\ stage' = "returned" /\ UNCHANGED attempt
    /\ UNCHANGED <<host, proxy, open, lastErr, mute, canceled, timeouts, verdict>>

\* Mutant: the verdict is written under a context of its own.
ReportAnyway ==
    /\ stage = "returned"
    /\ stage' = "reported"
    /\ verdict' = IF lastErr = "none" THEN "validated" ELSE "Failed"
    /\ UNCHANGED <<host, proxy, attempt, open, lastErr, mute, canceled, timeouts>>

\* Reconcile goes on to create the Job, or setValidationFailureStatus writes
\* the status under the same context: cancelled, nothing is written and the
\* name is reconciled again by the next operator process.
Report ==
    /\ stage = "returned"
    /\ stage' = "reported"
    /\ verdict' = CASE lastErr = "none"               -> "validated"
                    [] lastErr # "none" /\ ~canceled  -> "Failed"
                    [] lastErr # "none" /\ canceled   -> "unreported"
    /\ UNCHANGED <<host, proxy, attempt, open, lastErr, mute, canceled, timeouts>>

(***************************************************************************)
(* The environment.                                                        *)
(***************************************************************************)

\* The connected peer stops answering and keeps the connection alive.
PeerHangs ==
    /\ ~mute
    /\ stage \in Waiting
    /\ mute' = TRUE
    /\ UNCHANGED <<host, proxy, attempt, stage, open, lastErr, canceled, timeouts,
                   verdict>>

\* The operator is told to stop.
Cancel ==
    /\ ~canceled
    /\ stage # "reported"
    /\ canceled' = TRUE
    /\ UNCHANGED <<host, proxy, attempt, stage, open, lastErr, mute, timeouts,
                   verdict>>

Step == Dial \/ Connect \/ Handshake \/ Subsystem \/ NextAttempt \/ Report

Next == Step \/ Cancel \/ PeerHangs

Spec == Init /\ [][Next]_vars

\* The worker runs, the dial's timer fires, and a peer that is not mute answers.
FairSpec == Spec /\ WF_vars(Step)

(***************************************************************************)
(* Properties.                                                             *)
(***************************************************************************)

\* Every variable keeps its type: the attempts stay within MaxRetries and at
\* most one connection is held.
TypeOK ==
    /\ host \in Hosts /\ proxy \in ProxySettings
    /\ attempt \in 1 .. MaxRetries /\ stage \in Stages /\ open \in {0, 1}
    /\ lastErr \in Errors /\ mute \in BOOLEAN /\ canceled \in BOOLEAN
    /\ timeouts \in 0 .. MaxRetries
    /\ verdict \in {"pending", "validated", "Failed", "unreported"}

\* A connection is held exactly while an attempt waits for the peer: every
\* error path of the dial, the CONNECT, the handshake and the subsystem closes
\* what it opened, so retries do not pile up connections.
ConnectionsClosed == (open = 1) <=> (stage \in Waiting)

\* A MustGather is set to Failed for its upload target only because the server
\* refused or because every attempt timed out, never because the operator was
\* stopped in the middle of the validation (a cancelled dial looks transient,
\* and after the last attempt it comes back as a validation error).
FailedIsServersDoing ==
    verdict = "Failed" => lastErr = "permanent" \/ timeouts = MaxRetries

\* What was validated is where the upload goes, for names and IPv6 literals with
\* and without brackets: Go and the shell spell the address alike.  Not so for
\* a host with a port, which sftp does not take from the host.
UploadsWhereValidated ==
    verdict = "validated" /\ ~ContainsPort(host)
        => UploadAddress(host) = NormalizeHostAddress(host)

\* The validation comes to an end and frees the worker, which no other
\* MustGather can use meanwhile, unless a connected peer stops answering: dial
\* timeouts, broken connections and a shutdown do not keep it going.
ValidationReturns == <>(stage = "reported") \/ <>mute

\* The SSH handshake is bounded in time by the operator.
HandshakeBounded == [](stage = "handshake" => <>(stage # "handshake"))

\* Why FailedIsServersDoing holds: until the context is cancelled every attempt
\* but the current one has timed out.
RetryInv ==
    /\ lastErr = "canceled" => canceled
    /\ ~canceled =>
          timeouts = IF stage \in Waiting \cup {"dial"} \/ lastErr # "timeout"
                     THEN attempt - 1 ELSE attempt
    /\ stage \in {"returned", "reported"} =>
          ~IsTransientError(lastErr) \/ attempt = MaxRetries
    /\ timeouts <= attempt
    /\ stage \in Waiting \cup {"dial"} => timeouts < attempt
    /\ verdict = "Failed" => ~canceled /\ stage = "reported" /\ lastErr # "none"
=============================================================================
