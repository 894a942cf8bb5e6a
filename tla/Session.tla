------------------------------- MODULE Session ------------------------------
(***************************************************************************)
(* The conversation with one meter, datagram by datagram: the meter (the   *)
(* mock device of the repository) registers at the backdoor and then waits *)
(* for sessions; run_wake_up makes up to MAX_RETRIES attempts, each a      *)
(* run_session on a socket of its own.  Every datagram is the bytes that   *)
(* DeviceWire encodes, and can be lost or duplicated.                      *)
(*                                                                         *)
(* A tick is two seconds.  A datagram arrives or is lost within its tick;  *)
(* it waits in the socket of a meter that pauses.                          *)
(***************************************************************************)
EXTENDS DeviceWire, Bags

CONSTANTS MaxRetries, RetryDelay, ResponseTimeout,        \* ticks, of run_wake_up
          SessionRecvTimeout, RegisterTimeout, ConfirmTimeout, ErrorPause,  \* of the meter
          DeviceId,
          MaxFaults,     \* bound on lost and duplicated datagrams
          MaxWakeUps     \* bound on wake-ups

OBIS_WATER_VOLUME == <<49, 46, 48, 46, 49>>
OBIS_BATTERY == <<67, 46, 54, 46, 49>>
OBIS_CLOCK == <<48, 46, 57, 46, 52>>
OBIS_NEXT_WAKE == <<48, 46, 48, 46, 49>>

\* Sockets: the backdoor's, the meter's, and one for each attempt, numbered from 1.
Backdoor == 0
Meter == 255

VARIABLES
  hes,        \* run_wake_up and run_session
  meter,      \* the mock device
  confirmed,  \* the backdoor has registered the meter
  net,        \* bag of datagrams under way
  faults,     \* history: lost and duplicated datagrams
  failed,     \* history: failed attempts of this wake-up
  wakeups     \* history: number of wake-ups

vars == <<hes, meter, confirmed, net, faults, failed, wakeups>>

Seq4(n) == <<0, 0, 0, n>>
Digits8(n) == Padded(<<n>>, 8)
Datagrams(from, to, msg) ==
  {[from |-> from, to |-> to, bytes |-> MessageCodec_encode(m)] : m \in {msg}}
Sending(from, to, msg) == \E sent \in Datagrams(from, to, msg) : net' = net (+) SetToBag({sent})
Answering(d, from, to, msg) ==
  \E left \in {net (-) SetToBag({d})}, sent \in Datagrams(from, to, msg) :
    net' = left (+) SetToBag({sent})
Taking(d) == net' = net (-) SetToBag({d})
Waiting(to) == {d \in BagToSet(net) : d.to = to}

\* recv_msg, recv_from: the message, or none when it cannot be decoded.
Undecodable == [payload |-> [variant |-> "None"]]
Decoded(d) == CHOOSE m \in {IF r.st = "ok" THEN r.val ELSE Undecodable :
                              r \in {MessageCodec_decode(d.bytes)}} : TRUE
Got(m, variant) == m.payload.variant = variant

Init ==
  /\ hes = [pc |-> "idle", attempt |-> 0, port |-> 0, timer |-> 0, battery |-> FALSE,
            asked |-> <<>>, values |-> <<>>, ended |-> 0]
  /\ meter = [pc |-> "response", timer |-> RegisterTimeout, peer |-> 0, seq |-> 0,
              told |-> 0, closed |-> 0]
  /\ confirmed = FALSE
  /\ net = SetToBag(Datagrams(Meter, Backdoor, new_register_request_message(<<48>>, <<58, 58>>)))
  /\ faults = [lost |-> 0, doubled |-> 0]
  /\ failed = 0
  /\ wakeups = 0

-----------------------------------------------------------------------------
(* The backdoor, as the meter sees it; module Registration has its own.    *)

BackdoorRecv(d, m) ==
  /\ d \in Waiting(Backdoor)
  /\ \/ /\ Got(m, "RegistryRequest")
        /\ Answering(d, Backdoor, Meter,
                     new_register_response_message(DeviceId, Seq4(1), 0, Digits8(1)))
        /\ UNCHANGED confirmed
     \/ /\ Got(m, "Ack")
        /\ Answering(d, Backdoor, Meter, new_ack_message(DeviceId, Seq4(3)))
        /\ confirmed' = TRUE
  /\ UNCHANGED <<hes, meter, faults, failed, wakeups>>

-----------------------------------------------------------------------------
(* run_wake_up and run_session.                                            *)

\* A new socket, and HANDSHAKE with a nonce of 32 zeros.
StartAttempt(attempt, battery) ==
  /\ hes' = [hes EXCEPT !.pc = "handshake", !.attempt = attempt, !.port = @ + 1,
                        !.timer = ResponseTimeout, !.battery = battery,
                        !.asked = <<>>, !.values = <<>>]
  /\ Sending(hes.port + 1, Meter, new_handshake_message(DeviceId, Seq4(0), Zeros(32)))

\* The job fires, a day or more after the one before: what was waiting has timed out.
WakeUp ==
  /\ hes.pc \in {"idle", "done", "lost"} /\ confirmed
  /\ net = EmptyBag /\ meter.pc \in {"session", "pause", "exited"}
  /\ wakeups < MaxWakeUps
  /\ \E battery \in BOOLEAN : StartAttempt(1, battery)
  /\ failed' = 0
  /\ wakeups' = wakeups + 1
  /\ UNCHANGED <<meter, confirmed, faults>>

\* Slip: retry without the delay.
AttemptFailsAtOnce ==
  /\ hes' = IF hes.attempt < MaxRetries THEN [hes EXCEPT !.pc = "sleep", !.timer = 0]
            ELSE [hes EXCEPT !.pc = "lost", !.timer = 0]
  /\ failed' = failed + 1

\* An error of run_session: sleep, or give the meter up for lost.
AttemptFails ==
  /\ hes' = IF hes.attempt < MaxRetries THEN [hes EXCEPT !.pc = "sleep", !.timer = RetryDelay]
            ELSE [hes EXCEPT !.pc = "lost", !.timer = 0]
  /\ failed' = failed + 1

Retry ==
  /\ hes.pc = "sleep" /\ hes.timer = 0
  /\ \E battery \in BOOLEAN : StartAttempt(hes.attempt + 1, battery)
  /\ UNCHANGED <<meter, confirmed, faults, failed, wakeups>>

\* A slip: only the answer to the HANDSHAKE is waited for with a timeout.
HandshakeTimesOut ==
  /\ hes.pc = "handshake" /\ hes.timer = 0
  /\ AttemptFails
  /\ UNCHANGED <<meter, confirmed, net, faults, wakeups>>

ResponseTimesOut ==
  /\ hes.pc \in {"handshake", "read", "write"} /\ hes.timer = 0
  /\ AttemptFails
  /\ UNCHANGED <<meter, confirmed, net, faults, wakeups>>

\* A slip: the session is closed on any second READ_RESPONSE.
ExpectedReadTwice ==
  [handshake |-> "HandshakeResponse", read |-> "ReadResponse", write |-> "ReadResponse"]

Expected == [handshake |-> "HandshakeResponse", read |-> "ReadResponse", write |-> "WriteResponse"]

\* READ_REQUEST, with the battery when it is due.
SendRead(d) ==
  LET codes == <<OBIS_WATER_VOLUME, OBIS_CLOCK>> \o (IF hes.battery THEN <<OBIS_BATTERY>> ELSE <<>>)
  IN /\ Answering(d, hes.port, Meter, new_read_request_message(DeviceId, Seq4(1), codes))
     /\ hes' = [hes EXCEPT !.pc = "read", !.timer = ResponseTimeout, !.asked = codes]

\* WRITE_REQUEST: the next wake-up; told apart by the attempt that computes it.
SendWrite(d, m) ==
  /\ Answering(d, hes.port, Meter, new_write_request_message(DeviceId, Seq4(2),
                    <<[code |-> OBIS_NEXT_WAKE, value |-> Digits8(hes.port)]>>))
  /\ hes' = [hes EXCEPT !.pc = "write", !.timer = ResponseTimeout, !.values = m.payload.body.values]

\* ACK, then last_battery_read; a database error there is only logged.
SendAck(d) ==
  /\ Answering(d, hes.port, Meter, new_ack_message(DeviceId, Seq4(3)))
  /\ hes' = [hes EXCEPT !.pc = "done", !.timer = 0, !.ended = @ + 1]

HesRecv(d, m) ==
  /\ hes.pc \in DOMAIN Expected /\ d \in Waiting(hes.port)
  /\ IF Got(m, Expected[hes.pc])
     THEN /\ \/ hes.pc = "handshake" /\ SendRead(d)
             \/ hes.pc = "read" /\ SendWrite(d, m)
             \/ hes.pc = "write" /\ SendAck(d)
          /\ UNCHANGED failed
     ELSE AttemptFails /\ Taking(d)
  /\ UNCHANGED <<meter, confirmed, faults, wakeups>>

-----------------------------------------------------------------------------
(* The meter: register, then one handle_session after another.             *)

\* register takes the first datagram for the response, whatever its type.
RegisterResponded(d, m) ==
  /\ m # Undecodable
  /\ Answering(d, Meter, Backdoor, new_ack_message(m.device_id, Seq4(m.seq[4] + 1)))
  /\ meter' = [meter EXCEPT !.pc = "confirmation", !.timer = ConfirmTimeout]

\* and the next for the confirmation; then main waits for a session.
RegisterConfirmed(d) ==
  /\ Taking(d)
  /\ meter' = [meter EXCEPT !.pc = "session", !.timer = SessionRecvTimeout, !.seq = 0]

RecvHandshake(d) ==
  /\ Answering(d, Meter, d.from, new_handshake_response_message(DeviceId, Seq4(meter.seq), 0))
  /\ meter' = [meter EXCEPT !.pc = "read", !.timer = SessionRecvTimeout, !.seq = @ + 1,
                            !.peer = d.from]

\* The values of the codes asked for: volume and clock in 8 bytes, battery in 1.
RecvRead(d, m) ==
  LET Value(code) == IF code = OBIS_BATTERY THEN <<85>>
                     ELSE IF code = OBIS_WATER_VOLUME THEN Digits8(meter.closed)
                     ELSE IF code = OBIS_CLOCK THEN NowSecs ELSE <<>>
      codes == m.payload.body.obis_codes
  IN /\ Answering(d, Meter, meter.peer, new_read_response_message(DeviceId, Seq4(meter.seq),
            [i \in 1..Len(codes) |-> [code |-> codes[i], value |-> Value(codes[i])]]))
     /\ meter' = [meter EXCEPT !.pc = "write", !.timer = SessionRecvTimeout, !.seq = @ + 1]

\* The codes written are confirmed; the value is kept as what the meter was told.
RecvWrite(d, m) ==
  LET ps == m.payload.body.parameters IN
     /\ Answering(d, Meter, meter.peer,
           new_write_response_message(DeviceId, Seq4(meter.seq), TRUE,
                                      [i \in 1..Len(ps) |-> ps[i].code]))
     /\ meter' = [meter EXCEPT !.pc = "ack", !.timer = SessionRecvTimeout, !.told = ps[1].value[8]]

RecvAck(d) ==
  /\ Taking(d)
  /\ meter' = [meter EXCEPT !.pc = "session", !.timer = SessionRecvTimeout, !.seq = 0,
                            !.closed = @ + 1]

\* A slip: main counts a session that failed.
SessionErrorCounts ==
  meter' = [meter EXCEPT !.pc = "pause", !.timer = ErrorPause, !.seq = 0, !.closed = @ + 1]

\* handle_session returns an error: a pause, then the next session.
SessionError == meter' = [meter EXCEPT !.pc = "pause", !.timer = ErrorPause, !.seq = 0]

InSession == [session |-> "Handshake", read |-> "ReadRequest", write |-> "WriteRequest",
              ack |-> "Ack"]

MeterRecv(d, m) ==
  /\ d \in Waiting(Meter)
  /\ \/ meter.pc = "response" /\ RegisterResponded(d, m)
     \/ meter.pc = "confirmation" /\ RegisterConfirmed(d)
     \/ /\ meter.pc \in DOMAIN InSession /\ Got(m, InSession[meter.pc])
        /\ \/ meter.pc = "session" /\ RecvHandshake(d)
           \/ meter.pc = "read" /\ RecvRead(d, m)
           \/ meter.pc = "write" /\ RecvWrite(d, m)
           \/ meter.pc = "ack" /\ RecvAck(d)
     \/ /\ meter.pc \in DOMAIN InSession /\ ~Got(m, InSession[meter.pc])
        /\ SessionError /\ Taking(d)
  /\ UNCHANGED <<hes, confirmed, faults, failed, wakeups>>

MeterTimesOut ==
  /\ meter.timer = 0
  /\ \/ meter.pc \in DOMAIN InSession /\ SessionError
     \/ meter.pc = "pause" /\ meter' = [meter EXCEPT !.pc = "session", !.timer = SessionRecvTimeout]
     \/ meter.pc \in {"response", "confirmation"} /\ meter' = [meter EXCEPT !.pc = "exited"]
  /\ UNCHANGED <<hes, confirmed, net, faults, failed, wakeups>>

-----------------------------------------------------------------------------
(* The network and the clock.                                              *)

HesListens == hes.pc \in DOMAIN Expected
Timed == hes.pc \in DOMAIN Expected \cup {"sleep"}

\* A datagram for a socket that is closed: of an attempt that is over, of a dead meter.
Unreachable(d) ==
  /\ d \in BagToSet(net)
  /\ \/ d.to \notin {Backdoor, Meter} /\ ~(HesListens /\ d.to = hes.port)
     \/ d.to = Meter /\ meter.pc = "exited"
  /\ Taking(d)
  /\ UNCHANGED <<hes, meter, confirmed, faults, failed, wakeups>>

\* The host of a dead meter may answer that the port is closed, which recv_msg returns.
Refused(d) ==
  /\ d \in Waiting(Meter) /\ meter.pc = "exited" /\ HesListens /\ d.from = hes.port
  /\ AttemptFails /\ Taking(d)
  /\ UNCHANGED <<meter, confirmed, faults, wakeups>>

Lose(d) ==
  /\ d \in BagToSet(net) /\ faults.lost + faults.doubled < MaxFaults
  /\ Taking(d)
  /\ faults' = [faults EXCEPT !.lost = @ + 1]
  /\ UNCHANGED <<hes, meter, confirmed, failed, wakeups>>

Duplicate(d) ==
  /\ d \in BagToSet(net) /\ faults.lost + faults.doubled < MaxFaults
  /\ net' = net (+) SetToBag({d})
  /\ faults' = [faults EXCEPT !.doubled = @ + 1]
  /\ UNCHANGED <<hes, meter, confirmed, failed, wakeups>>

\* Two seconds pass: what can be received has been, and no timer has run out.
Tick ==
  /\ \A d \in BagToSet(net) : d.to = Meter /\ meter.pc = "pause"
  /\ (Timed => hes.timer > 0) /\ (meter.pc # "exited" => meter.timer > 0)
  /\ hes' = IF Timed THEN [hes EXCEPT !.timer = @ - 1] ELSE hes
  /\ meter' = IF meter.pc # "exited" THEN [meter EXCEPT !.timer = @ - 1] ELSE meter
  /\ UNCHANGED <<confirmed, net, faults, failed, wakeups>>

Receive ==
  \E d \in BagToSet(net) : \E m \in {Decoded(d)} :
    BackdoorRecv(d, m) \/ HesRecv(d, m) \/ MeterRecv(d, m) \/ Unreachable(d) \/ Refused(d)

Timers == Retry \/ ResponseTimesOut \/ MeterTimesOut \/ Tick

Next ==
  \/ Receive
  \/ Timers
  \/ WakeUp
  \/ \E d \in BagToSet(net) : Lose(d) \/ Duplicate(d)

\* ENABLED Receive: every datagram is received or dropped, but by a meter that pauses.
Receivable == \E d \in BagToSet(net) : d.to = Meter => meter.pc # "pause"

\* Tasks, timers and the clock go on; the cron job and the faults are free.  The first
\* conjunct is WF_vars(Receive), with its ENABLED written out.
Fairness == ([]<>~Receivable \/ []<><<Receive>>_vars) /\ WF_vars(Timers)

Spec == Init /\ [][Next]_vars /\ Fairness

-----------------------------------------------------------------------------
(* Properties.                                                             *)

\* When run_session returns Ok, the last WRITE_REQUEST the meter confirmed is the one of
\* this very attempt, and the values that were read are those of the codes this attempt
\* asked for, although no answer is matched by its sequence number.
SuccessMeansTold ==
  hes.pc = "done" =>
    /\ meter.told = hes.port
    /\ [i \in 1..Len(hes.values) |-> hes.values[i].code] = hes.asked

\* A lost datagram costs run_wake_up at most one attempt and a duplicated one at most two:
\* an attempt finds the meter out of the session before, because the retry delay and the
\* response timeout outlast the meter's own timeout and pause.
AttemptsPerFault ==
  meter.pc # "exited" => failed <= faults.lost + 2 * faults.doubled

\* The meter closes a session only with the ACK of an attempt that succeeded, and misses
\* that ACK only when it was lost or when a duplicate had put the meter out of step.
ClosedSessionsSucceeded ==
  /\ meter.closed <= hes.ended
  /\ meter.pc = "session" /\ net = EmptyBag
       => hes.ended <= meter.closed + faults.lost + faults.doubled

\* Every wake-up ends: run_wake_up succeeds or gives the meter up, whatever is lost.
WakeUpEnds == Timed ~> ~Timed
=============================================================================
