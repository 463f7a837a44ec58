---------------------------------- MODULE Imu ----------------------------------
(***************************************************************************)
(* The IMU driver (m3_firmware/src/imu.c) and the sensor it reads: imu_begin *)
(* resets and configures it once, imu_sample reads one burst, while the    *)
(* sensor goes on sampling and may lose its supply at any moment.          *)
(*                                                                         *)
(* A register is told apart only as far as the driver checks it; a sample  *)
(* is its number since power-up.                                           *)
(***************************************************************************)
EXTENDS Integers

CONSTANTS
  Polls,       \* polls of the status for a new sample (100 in the code)
  MaxSamples,  \* bound: samples of the sensor
  MaxResets    \* bound: resets of the sensor, by the driver or the supply

ASSUME ImuAssumption == Polls \in Nat /\ MaxSamples \in Nat /\ MaxResets \in Nat

VARIABLES
  resets,   \* the sensor: its resets so far
  config,   \* its configuration registers: RESET, PARTLY or SET
  sample,   \* the sample in its data registers
  drdy,     \* INT_STATUS: a sample came since the last read of it
  wasReset, \* INT_STATUS: a reset came since the last read of it
  pc,       \* the driver
  polls,    \* polls left
  device,   \* ImuDevice: initialized, init_error; and the resets when it was
  result,   \* BenchIMU: status, error, the two halves of raw
  began     \* history: the sample in the registers when the call began

sensor == <<resets, config, sample, drdy, wasReset>>
vars == <<sensor, pc, polls, device, result, began>>

Errors == {"CLOCK", "SPI_INIT", "TRANSFER", "IDENTITY", "RESET", "IREG_TIMEOUT", "CONFIG",
           "READY_TIMEOUT", "UPDATE_DURING_READ", "READ_TOO_SLOW", "TICK_STALLED"}
Device == [initialized : 0 .. 1, initError : Errors \cup {"OK"}, configured : 0 .. MaxResets]
Samples == (0 .. MaxResets) \X (0 .. MaxSamples)
Result == [status : {"RUNNING", "OK", "FAIL"}, error : Errors \cup {"OK"},
           first : Samples, rest : Samples]
NoData == <<0, 0>>
Data == <<resets, sample>>  \* what the data registers hold, and of which life
Running == [status |-> "RUNNING", error |-> "OK", first |-> NoData, rest |-> NoData]

Init ==
  /\ resets = 0 /\ config = "RESET" /\ sample = 0 /\ drdy = 0 /\ wasReset = 1
  /\ pc = "begin" /\ polls = 0 /\ result = Running /\ began = 0
  /\ device = [initialized |-> 0, initError |-> "OK", configured |-> 0]

-----------------------------------------------------------------------------
(***************************************************************************)
(* The sensor                                                              *)
(***************************************************************************)
\* Without its supply for a moment: registers as after power-up.
SensorResets ==
  /\ resets < MaxResets /\ resets' = resets + 1
  /\ config' = "RESET" /\ drdy' = 0 /\ wasReset' = 1
  /\ UNCHANGED <<sample, pc, polls, device, result, began>>

\* Every 20 ms when it is configured, and nobody waits for the burst to end.
SensorSamples ==
  /\ config # "RESET" /\ sample < MaxSamples
  /\ sample' = sample + 1 /\ drdy' = 1
  /\ UNCHANGED <<resets, config, wasReset, pc, polls, device, result, began>>

ReadStatus == drdy' = 0 /\ wasReset' = 0 /\ UNCHANGED <<resets, config, sample>>

-----------------------------------------------------------------------------
(***************************************************************************)
(* The driver                                                              *)
(***************************************************************************)
\* failure and finish; imu_begin keeps its error for every later sample.
Failed(r, e) == [r EXCEPT !.status = "FAIL", !.error = e]
Finished(r) == [r EXCEPT !.status = "OK"]
EndBegin(e) ==
  /\ pc' = "idle" /\ result' = Failed(result, e)
  /\ device' = [device EXCEPT !.initError = e] /\ UNCHANGED <<polls, began>>
EndSample(e) ==
  /\ pc' = "idle" /\ result' = Failed(result, e)
  /\ UNCHANGED <<polls, device, began>>
Goes(next) == pc' = next /\ UNCHANGED <<polls, device, result, began>>

\* Any transfer, wait or register access on the way may fail; a failed read of
\* the status may have cleared it.
Faults == {"TRANSFER", "IREG_TIMEOUT", "TICK_STALLED"}
BeginFails == \E e \in Faults : EndBegin(e) /\ UNCHANGED sensor
SampleFails == \E e \in Faults : EndSample(e) /\ UNCHANGED sensor

Begin ==
  /\ pc = "begin"
  /\ \/ Goes("reset") \/ \E e \in {"CLOCK", "SPI_INIT", "TRANSFER", "IDENTITY"} : EndBegin(e)
  /\ UNCHANGED sensor

\* The sensor may take the write or not, whatever the transfer reports.
SoftReset ==
  /\ pc = "reset"
  /\ Goes("checkReset") \/ \E e \in Faults : EndBegin(e)
  /\ \/ UNCHANGED sensor
     \/ /\ resets < MaxResets /\ resets' = resets + 1
        /\ config' = "RESET" /\ drdy' = 0 /\ wasReset' = 1 /\ UNCHANGED sample

CheckReset ==
  /\ pc = "checkReset"
  /\ \/ BeginFails
     \/ EndBegin("TRANSFER") /\ ReadStatus
     \/ EndBegin("RESET") /\ UNCHANGED sensor  \* the reset bit is still set
     \/ wasReset = 1 /\ ReadStatus /\ Goes("configure")
     \/ wasReset = 0 /\ ReadStatus /\ EndBegin("RESET")

\* Register after register; some may not take. A sensor that is gone for a
\* moment does not answer with its identity.
Configure ==
  /\ pc = "configure"
  /\ \/ /\ \E e \in Faults \cup {"CONFIG"} : EndBegin(e)
        /\ config' \in {config, "PARTLY"} /\ UNCHANGED <<resets, sample, drdy, wasReset>>
     \/ /\ config' \in {"PARTLY", "SET"} /\ Goes("verify")
        /\ UNCHANGED <<resets, sample, drdy, wasReset>>

Verify ==
  /\ pc = "verify"
  /\ \/ BeginFails
     \/ config # "SET" /\ EndBegin("CONFIG") /\ UNCHANGED sensor
     \/ /\ config = "SET" /\ pc' = "idle" /\ result' = Finished(result)
        /\ device' = [initialized |-> 1, initError |-> device.initError, configured |-> resets]
        /\ UNCHANGED <<sensor, polls, began>>

\* imu_sample: an error of imu_begin stands for good.
Sample ==
  /\ pc = "idle" /\ began' = sample /\ polls' = Polls
  /\ IF device.initialized = 0
     THEN /\ pc' = "idle"
          /\ result' = Failed(Running, device.initError)
     ELSE pc' = "config" /\ result' = Running
  /\ UNCHANGED <<sensor, device>>

CheckConfig ==
  /\ pc = "config"
  /\ \/ SampleFails
     \/ config # "SET" /\ EndSample("CONFIG") /\ UNCHANGED sensor
     \/ config = "SET" /\ Goes("discard") /\ UNCHANGED sensor

\* Fault: a sample that waits since before the call is taken for a new one.
Discard_KeepsReady ==
  /\ pc = "discard"
  /\ \/ SampleFails
     \/ EndSample("TRANSFER") /\ ReadStatus
     \/ wasReset = 1 /\ EndSample("RESET") /\ ReadStatus
     \/ wasReset = 0 /\ Goes("poll") /\ UNCHANGED sensor

\* The status is read once for what it forgets.
Discard ==
  /\ pc = "discard"
  /\ \/ SampleFails
     \/ EndSample("TRANSFER") /\ ReadStatus
     \/ wasReset = 1 /\ EndSample("RESET") /\ ReadStatus
     \/ wasReset = 0 /\ Goes("poll") /\ ReadStatus

\* Fault: one poll too many.
Poll_PastEnd ==
  /\ pc = "poll"
  /\ \/ SampleFails
     \/ EndSample("TRANSFER") /\ ReadStatus
     \/ wasReset = 1 /\ ReadStatus /\ EndSample("RESET")
     \/ wasReset = 0 /\ drdy = 1 /\ ReadStatus /\ Goes("burst")
     \/ /\ wasReset = 0 /\ drdy = 0 /\ polls' = polls - 1
        /\ UNCHANGED <<sensor, pc, device, result, began>>

Poll ==
  /\ pc = "poll"
  /\ \/ SampleFails
     \/ polls = 0 /\ EndSample("READY_TIMEOUT") /\ UNCHANGED sensor
     \/ polls > 0 /\ EndSample("TRANSFER") /\ ReadStatus
     \/ polls > 0 /\ wasReset = 1 /\ ReadStatus /\ EndSample("RESET")
     \/ polls > 0 /\ wasReset = 0 /\ drdy = 1 /\ ReadStatus /\ Goes("burst")
     \/ /\ polls > 0 /\ wasReset = 0 /\ drdy = 0 /\ polls' = polls - 1
        /\ UNCHANGED <<sensor, pc, device, result, began>>

\* Fourteen bytes in one transfer, during which the registers may change.
BurstFirst ==
  /\ pc = "burst" /\ pc' = "rest" /\ result' = [result EXCEPT !.first = Data]
  /\ UNCHANGED <<sensor, polls, device, began>>
BurstRest ==
  /\ pc = "rest"
  /\ \/ SampleFails
     \/ /\ pc' = "final" /\ result' = [result EXCEPT !.rest = Data]
        /\ UNCHANGED <<sensor, polls, device, began>>

\* The status once more: the burst counts when nothing came during it.
Final ==
  /\ pc = "final"
  /\ \/ SampleFails
     \/ EndSample("TRANSFER") /\ ReadStatus
     \/ wasReset = 1 /\ ReadStatus /\ EndSample("RESET")
     \/ wasReset = 0 /\ drdy = 1 /\ ReadStatus /\ EndSample("UPDATE_DURING_READ")
     \/ wasReset = 0 /\ drdy = 0 /\ ReadStatus /\ EndSample("READ_TOO_SLOW")
     \/ /\ wasReset = 0 /\ drdy = 0 /\ ReadStatus
        /\ pc' = "idle" /\ result' = Finished(result)
        /\ UNCHANGED <<polls, device, began>>

Next ==
  \/ SensorResets \/ SensorSamples
  \/ Begin \/ SoftReset \/ CheckReset \/ Configure \/ Verify
  \/ Sample \/ CheckConfig \/ Discard \/ Poll \/ BurstFirst \/ BurstRest \/ Final
Spec == Init /\ [][Next]_vars

-----------------------------------------------------------------------------
(***************************************************************************)
(* Properties                                                              *)
(***************************************************************************)
TypeOK ==
  /\ resets \in 0 .. MaxResets /\ sample \in 0 .. MaxSamples
  /\ config \in {"RESET", "PARTLY", "SET"} /\ drdy \in 0 .. 1 /\ wasReset \in 0 .. 1
  /\ pc \in {"begin", "reset", "checkReset", "configure", "verify", "idle",
             "config", "discard", "poll", "burst", "rest", "final"}
  /\ polls \in 0 .. Polls /\ began \in 0 .. MaxSamples
  /\ device \in Device /\ result \in Result

\* imu_sample: a sample reported as good is one sample of the sensor, not parts
\* of two, came after the call began, and was taken by the sensor as imu_begin
\* configured it: no reset lies between (imu.c:128).
Good == result.status = "OK" /\ result.first # NoData
GoodIsOneNewSample ==
  Good =>
    /\ result.first = result.rest
    /\ result.first[2] > began
    /\ result.first[1] = device.configured
=============================================================================
