---------------------------- MODULE Acquisition ----------------------------
(***************************************************************************)
(* AcquisitionSession (core/acquisition/sessions.py) over an               *)
(* AcquisitionTarget (targets.py) that sessions may share, and             *)
(* LocalTransport (transport.py).                                          *)
(***************************************************************************)
EXTENDS Integers, Sequences, FiniteSets, SequencesExt

CONSTANTS
    Sessions,       \* of one target
    Chunks,         \* what is sent; "" is an empty chunk
    MaxAcquired     \* bound on the operations

ASSUME AcquisitionAssumption == MaxAcquired \in Nat /\ "" \in Chunks

VARIABLES
    acq_log,        \* the operations so far
    session_status, \* session -> _status
    opened,         \* AcquisitionTarget._opened
    connected, buffer,  \* LocalTransport
    received        \* what receive_chunk gave last

acqVars == <<acq_log, session_status, opened, connected, buffer, received>>

AcquisitionIdle ==
    /\ session_status = [s \in Sessions |-> "PENDING"] /\ opened = FALSE
    /\ connected = FALSE /\ buffer = <<>> /\ received = ""
AcquisitionInit == acq_log = <<>> /\ AcquisitionIdle
AcquisitionOff == acq_log = [i \in 1..MaxAcquired |-> [op |-> "off", by |-> ""]] /\ AcquisitionIdle

Logs(op, by) == Len(acq_log) < MaxAcquired /\ acq_log' = Append(acq_log, [op |-> op, by |-> by])

-----------------------------------------------------------------------------
(* Sessions: no operation asks for the status *)

Turns(s, op, to) ==
    /\ Logs(op, s)
    /\ session_status' = [session_status EXCEPT ![s] = to]
    /\ UNCHANGED <<connected, buffer, received>>

StartSession(s) == Turns(s, "start", "ACTIVE") /\ opened' = TRUE
PauseSession(s) == Turns(s, "pause", "PAUSED") /\ UNCHANGED opened
ResumeSession(s) == Turns(s, "resume", "ACTIVE") /\ UNCHANGED opened
CompleteSession(s) == Turns(s, "end", "COMPLETED") /\ opened' = FALSE

FailSession(s) == Turns(s, "end", "FAILED") /\ opened' = FALSE
CancelSession(s) == Turns(s, "end", "CANCELLED") /\ opened' = FALSE

-----------------------------------------------------------------------------
(* LocalTransport *)

Connect ==
    /\ Logs("connect", "")
    /\ connected' = TRUE
    /\ UNCHANGED <<session_status, opened, buffer, received>>

Disconnect ==
    /\ Logs("disconnect", "")
    /\ connected' = FALSE /\ buffer' = <<>>
    /\ UNCHANGED <<session_status, opened, received>>

\* What is sent without a connection is an error, and is not kept.
SendChunk(c) ==
    /\ Logs(IF connected THEN "send" ELSE "error", c)
    /\ buffer' = IF connected THEN Append(buffer, c) ELSE buffer
    /\ UNCHANGED <<session_status, opened, connected, received>>

\* Mutant: the chunk sent last comes first.
ReceiveLatest ==
    LET next == IF connected /\ buffer # <<>> THEN Last(buffer) ELSE ""
    IN  /\ Logs(IF connected THEN "receive" ELSE "error", next)
        /\ buffer' = IF connected /\ buffer # <<>> THEN Front(buffer) ELSE buffer
        /\ received' = next
        /\ UNCHANGED <<session_status, opened, connected>>

\* With nothing to receive an empty chunk is: nobody can tell it from one sent.
ReceiveChunk ==
    LET next == IF connected /\ buffer # <<>> THEN Head(buffer) ELSE ""
    IN  /\ Logs(IF connected THEN "receive" ELSE "error", next)
        /\ buffer' = IF connected /\ buffer # <<>> THEN Tail(buffer) ELSE buffer
        /\ received' = next
        /\ UNCHANGED <<session_status, opened, connected>>

AcquisitionNext ==
    \/ \E s \in Sessions :
        \/ StartSession(s) \/ PauseSession(s) \/ ResumeSession(s)
        \/ CompleteSession(s) \/ FailSession(s) \/ CancelSession(s)
    \/ Connect \/ Disconnect \/ ReceiveChunk
    \/ \E c \in Chunks : SendChunk(c)

AcquisitionSpec == AcquisitionInit /\ [][AcquisitionNext]_acqVars

-----------------------------------------------------------------------------
(* Properties *)

\* Types.
AcquisitionTypeOK ==
    /\ \A s \in Sessions :
        session_status[s] \in {"PENDING", "ACTIVE", "PAUSED", "COMPLETED", "FAILED", "CANCELLED"}
    /\ opened \in BOOLEAN /\ connected \in BOOLEAN /\ ToSet(buffer) \subseteq Chunks

Places(op) == {i \in DOMAIN acq_log : acq_log[i].op = op}
LastOf(places) == Max({0} \union places)

LastBy(op, s) == LastOf({i \in Places(op) : acq_log[i].by = s})

\* A target that several sessions share is open if the last start of any of them
\* is behind the last end of any; no pause and no resume opens or closes it.
OpenFromStart == opened <=> LastOf(Places("start")) > LastOf(Places("end"))

\* A session is active if and only if its own last start or resume is behind its
\* own last pause and its own last end, whatever other sessions do.
ActiveSinceOwnStart ==
    \A s \in Sessions :
        session_status[s] = "ACTIVE" <=>
            Max({LastBy("start", s), LastBy("resume", s)}) > Max({LastBy("pause", s), LastBy("end", s)})

\* What is received is what was sent over this connection or an earlier one that
\* was not closed, in order and each chunk once; with it come empty chunks.
Since(op, log) ==
    FoldLeft(LAMBDA list, e : IF e.op = "disconnect" THEN <<>>
                              ELSE IF e.op = op /\ e.by # "" THEN Append(list, e.by) ELSE list,
             <<>>, log)
NonEmpty(chunks) == FoldLeft(LAMBDA list, c : IF c # "" THEN Append(list, c) ELSE list, <<>>, chunks)
TransportKeepsOrder == Since("send", acq_log) = Since("receive", acq_log) \o NonEmpty(buffer)

\* What sessions, their target and the transport are is told by the calls, in any
\* order.  It does not say that an active session has an open target, nor that a
\* session that ended stays so: resume() asks for neither.
AcquisitionRight == OpenFromStart /\ ActiveSinceOwnStart /\ TransportKeepsOrder
=============================================================================
