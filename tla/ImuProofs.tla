------------------------------- MODULE ImuProofs -------------------------------
(***************************************************************************)
(* For any number of polls, samples and resets of the sensor: what the     *)
(* driver reports as good is one new sample of the sensor it configured.   *)
(***************************************************************************)
EXTENDS Imu, TLAPS

InBegin == {"begin", "reset", "checkReset", "configure", "verify"}
InSample == {"config", "discard", "poll", "burst", "rest", "final"}

\* imu_begin configures the sensor once: a reset after it is never repaired.
ConfiguredOnce ==
  /\ device.initialized = 1 =>
       pc \notin InBegin /\ (resets = device.configured \/ config = "RESET")
  /\ pc \in InSample => device.initialized = 1

\* Past the check of the configuration a reset shows in the status.
ResetShows ==
  pc \in InSample \ {"config"} => resets = device.configured \/ wasReset = 1

\* A sample that counts as ready came after the call began.
ReadyIsNew ==
  /\ pc \in InSample => sample >= began
  /\ pc = "poll" /\ drdy = 1 => sample > began
  /\ pc \in {"burst", "rest", "final"} => sample > began

\* A burst during which nothing shows in the status is what the registers hold.
BurstIsData ==
  pc \in {"rest", "final"} /\ wasReset = 0 /\ drdy = 0 =>
    result.first = Data /\ (pc = "final" => result.rest = Data)

\* While a call runs, its result says so.
ResultRuns ==
  /\ pc \in InBegin => result = Running
  /\ pc \in InSample => result.status = "RUNNING"

IInv == TypeOK /\ ConfiguredOnce /\ ResetShows /\ ReadyIsNew /\ BurstIsData
          /\ ResultRuns /\ GoodIsOneNewSample

USE DEF InBegin, InSample

\* What the ways to end a call do to its result.
LEMMA FailedResult ==
  ASSUME NEW r \in Result, NEW e \in Errors
  PROVE  Failed(r, e) \in Result /\ Failed(r, e).status = "FAIL"
  BY DEF Failed, Result

LEMMA FinishedResult ==
  ASSUME NEW r \in Result
  PROVE  /\ Finished(r) \in Result /\ Finished(r).status = "OK"
         /\ Finished(r).first = r.first /\ Finished(r).rest = r.rest
  BY DEF Finished, Result

LEMMA BurstResult ==
  ASSUME NEW r \in Result, NEW d \in Samples
  PROVE  /\ [r EXCEPT !.first = d] \in Result /\ [r EXCEPT !.first = d].first = d
         /\ [r EXCEPT !.first = d].status = r.status
         /\ [r EXCEPT !.rest = d] \in Result /\ [r EXCEPT !.rest = d].first = r.first
         /\ [r EXCEPT !.rest = d].rest = d /\ [r EXCEPT !.rest = d].status = r.status
  BY DEF Result

LEMMA RunningResult ==
  /\ Running \in Result /\ Running.status = "RUNNING" /\ Running.first = NoData
  BY ImuAssumption DEF Running, Result, Samples, NoData, Errors

LEMMA DeviceFailed ==
  ASSUME NEW d \in Device, NEW e \in Errors
  PROVE  LET failed == [d EXCEPT !.initError = e]
         IN  /\ failed \in Device /\ failed.initialized = d.initialized
             /\ failed.configured = d.configured
  BY DEF Device

LEMMA DeviceDone ==
  ASSUME NEW d \in Device, NEW n \in 0 .. MaxResets
  PROVE  [initialized |-> 1, initError |-> d.initError, configured |-> n] \in Device
  BY DEF Device

LEMMA FailedRunning ==
  ASSUME NEW e \in Errors \cup {"OK"}
  PROVE  Failed(Running, e) \in Result /\ Failed(Running, e).status = "FAIL"
  BY RunningResult DEF Failed, Result

LEMMA InitIInv == Init => IInv
<1> SUFFICES ASSUME Init PROVE IInv  OBVIOUS
<1>1. device \in Device /\ device.initialized = 0
  BY ImuAssumption DEF Init, Device, Errors
<1>2. result \in Result /\ result.status = "RUNNING"  BY RunningResult DEF Init
<1>3. TypeOK  BY <1>1, <1>2, ImuAssumption DEF Init, TypeOK
<1> QED
  BY <1>1, <1>2, <1>3 DEF Init, IInv, ConfiguredOnce, ResetShows, ReadyIsNew, BurstIsData,
     ResultRuns, GoodIsOneNewSample, Good

LEMMA IInvStep == IInv /\ [Next]_vars => IInv'
<1> SUFFICES ASSUME IInv, [Next]_vars PROVE IInv'  OBVIOUS
<1>f. ASSUME NEW e \in Errors
      PROVE  Failed(result, e) \in Result /\ Failed(result, e).status = "FAIL"
  BY FailedResult DEF IInv, TypeOK
<1>g. /\ Finished(result) \in Result /\ Finished(result).status = "OK"
      /\ Finished(result).first = result.first /\ Finished(result).rest = result.rest
  BY FinishedResult DEF IInv, TypeOK
<1>d. Data \in Samples /\ Data[1] = resets /\ Data[2] = sample
  BY DEF Data, Samples, IInv, TypeOK
<1>e. Faults \subseteq Errors  BY DEF Faults, Errors
<1>r. Running \in Result /\ Running.status = "RUNNING" /\ Running.first = NoData  BY RunningResult
<1> USE DEF TypeOK, IInv, ConfiguredOnce, ResetShows, ReadyIsNew, BurstIsData, ResultRuns,
       GoodIsOneNewSample, Good, sensor
<1>0. ASSUME NEW e \in Errors, pc \in InBegin, EndBegin(e),
             resets' \in 0 .. MaxResets, config' \in {"RESET", "PARTLY", "SET"}, sample' = sample,
             drdy' \in 0 .. 1, wasReset' \in 0 .. 1
      PROVE  IInv'
  <2>1. device' \in Device /\ device'.initialized = device.initialized
    BY <1>0, DeviceFailed DEF EndBegin
  <2> QED  BY <1>0, <1>f, <2>1 DEF EndBegin
<1>s. ASSUME NEW e \in Errors, pc \in InSample, EndSample(e),
             UNCHANGED <<resets, config, sample>>, drdy' \in 0 .. 1, wasReset' \in 0 .. 1
      PROVE  IInv'
  BY <1>s, <1>f DEF EndSample
<1>1. CASE SensorResets  BY <1>1, <1>d, ImuAssumption DEF SensorResets, Data
<1>2. CASE SensorSamples  BY <1>2, <1>d, ImuAssumption DEF SensorSamples, Data
<1>3. CASE Begin
  <2>1. CASE Goes("reset") /\ UNCHANGED sensor  BY <1>3, <2>1 DEF Begin, Goes
  <2>2. CASE \E e \in {"CLOCK", "SPI_INIT", "TRANSFER", "IDENTITY"} : EndBegin(e) /\ UNCHANGED sensor
    BY <1>3, <1>0, <2>2 DEF Begin, Errors
  <2> QED  BY <1>3, <2>1, <2>2 DEF Begin
<1>b. ASSUME BeginFails, pc \in InBegin PROVE IInv'
  BY <1>b, <1>0, <1>e DEF BeginFails
<1>c. ASSUME SampleFails, pc \in InSample PROVE IInv'
  BY <1>c, <1>s, <1>e DEF SampleFails
<1>4. CASE SoftReset
  <2>0. /\ resets' \in 0 .. MaxResets /\ config' \in {"RESET", "PARTLY", "SET"}
        /\ sample' = sample /\ drdy' \in 0 .. 1 /\ wasReset' \in 0 .. 1 /\ pc \in InBegin
    BY <1>4, ImuAssumption DEF SoftReset, InBegin
  <2>1. CASE \E e \in Faults : EndBegin(e)  BY <2>0, <2>1, <1>0, <1>e
  <2>2. CASE Goes("checkReset")  BY <1>4, <2>2, ImuAssumption DEF SoftReset, Goes
  <2> QED  BY <1>4, <2>1, <2>2 DEF SoftReset
<1>5. CASE CheckReset
  <2>1. CASE BeginFails  BY <1>5, <2>1, <1>b DEF CheckReset
  <2>2. CASE ReadStatus /\ Goes("configure")  BY <1>5, <2>2 DEF CheckReset, Goes, ReadStatus
  <2>3. CASE ReadStatus /\ \E e \in {"RESET", "TRANSFER"} : EndBegin(e)
    BY <1>5, <2>3, <1>0 DEF CheckReset, ReadStatus, Errors
  <2>4. CASE EndBegin("RESET") /\ UNCHANGED sensor
    BY <1>5, <2>4, <1>0 DEF CheckReset, Errors
  <2> QED  BY <1>5, <2>1, <2>2, <2>3, <2>4 DEF CheckReset
<1>6. CASE Configure
  <2>1. CASE /\ \E e \in Faults \cup {"CONFIG"} : EndBegin(e)
             /\ config' \in {config, "PARTLY"} /\ UNCHANGED <<resets, sample, drdy, wasReset>>
    BY <1>6, <2>1, <1>0 DEF Configure, Errors, Faults
  <2>2. CASE /\ config' \in {"PARTLY", "SET"} /\ Goes("verify")
             /\ UNCHANGED <<resets, sample, drdy, wasReset>>
    BY <1>6, <2>2 DEF Configure, Goes
  <2> QED  BY <1>6, <2>1, <2>2 DEF Configure
<1>7. CASE Verify
  <2>1. CASE BeginFails  BY <1>7, <2>1, <1>b DEF Verify
  <2>2. CASE \E e \in {"IDENTITY", "CONFIG"} : EndBegin(e) /\ UNCHANGED sensor
    BY <1>7, <2>2, <1>0 DEF Verify, Errors
  <2>3. CASE /\ config = "SET" /\ pc' = "idle" /\ result' = Finished(result)
             /\ device' = [initialized |-> 1, initError |-> device.initError,
                            configured |-> resets]
             /\ UNCHANGED <<sensor, polls, began>>
    <3>1. device' \in Device /\ device'.initialized = 1 /\ device'.configured = resets
      <4>1. device \in Device /\ resets \in 0 .. MaxResets  OBVIOUS
      <4> QED  BY ONLY <2>3, <4>1, DeviceDone
    <3> QED  BY <1>7, <2>3, <3>1, <1>g, <1>r DEF Verify
  <2> QED  BY <1>7, <2>1, <2>2, <2>3 DEF Verify
<1>8. CASE Sample
  <2>1. CASE device.initialized = 0
    <3>1. device.initError \in Errors \cup {"OK"}  BY DEF Device
    <3>2. result' \in Result /\ result'.status = "FAIL"
      BY <1>8, <2>1, <3>1, FailedRunning DEF Sample
    <3>3. pc = "idle" /\ pc' = "idle" /\ began' = sample /\ polls' = Polls
          /\ UNCHANGED <<sensor, device>>
      BY <1>8, <2>1 DEF Sample
    <3> QED  BY <3>2, <3>3, ImuAssumption
  <2>2. CASE device.initialized # 0
    <3>1. device.initialized = 1  BY <2>2 DEF Device
    <3>2. result' \in Result /\ result'.status = "RUNNING"
      BY <1>8, <2>2, <1>r DEF Sample
    <3>3. pc = "idle" /\ pc' = "config" /\ began' = sample /\ polls' = Polls
          /\ UNCHANGED <<sensor, device>>
      BY <1>8, <2>2 DEF Sample
    <3> QED  BY <3>1, <3>2, <3>3, ImuAssumption
  <2> QED  BY <2>1, <2>2
<1>9. CASE CheckConfig
  <2>1. CASE SampleFails  BY <1>9, <2>1, <1>c DEF CheckConfig
  <2>2. CASE \E e \in {"IDENTITY", "CONFIG"} : EndSample(e) /\ UNCHANGED sensor
    BY <1>9, <2>2, <1>s DEF CheckConfig, Errors
  <2>3. CASE config = "SET" /\ Goes("discard") /\ UNCHANGED sensor
    BY <1>9, <2>3 DEF CheckConfig, Goes
  <2> QED  BY <1>9, <2>1, <2>2, <2>3 DEF CheckConfig
<1>10. CASE Discard
  <2>1. CASE SampleFails  BY <1>10, <2>1, <1>c DEF Discard
  <2>2. CASE (\E e \in {"RESET", "TRANSFER"} : EndSample(e)) /\ ReadStatus
    BY <1>10, <2>2, <1>s DEF Discard, Errors, ReadStatus
  <2>3. CASE wasReset = 0 /\ Goes("poll") /\ ReadStatus
    BY <1>10, <2>3 DEF Discard, Goes, ReadStatus
  <2> QED  BY <1>10, <2>1, <2>2, <2>3 DEF Discard
<1>11. CASE Poll
  <2>1. CASE SampleFails  BY <1>11, <2>1, <1>c DEF Poll
  <2>2. CASE EndSample("READY_TIMEOUT") /\ UNCHANGED sensor
    BY <1>11, <2>2, <1>s DEF Poll, Errors
  <2>3. CASE ReadStatus /\ \E e \in {"RESET", "TRANSFER"} : EndSample(e)
    BY <1>11, <2>3, <1>s DEF Poll, Errors, ReadStatus
  <2>4. CASE wasReset = 0 /\ drdy = 1 /\ ReadStatus /\ Goes("burst")
    BY <1>11, <2>4 DEF Poll, Goes, ReadStatus
  <2>5. CASE /\ polls > 0 /\ wasReset = 0 /\ drdy = 0 /\ polls' = polls - 1
             /\ UNCHANGED <<sensor, pc, device, result, began>>
    BY <1>11, <2>5, ImuAssumption DEF Poll
  <2> QED  BY <1>11, <2>1, <2>2, <2>3, <2>4, <2>5 DEF Poll
<1>12. CASE BurstFirst
  <2>1. result' \in Result /\ result'.first = Data /\ result'.status = result.status
    BY <1>12, <1>d, BurstResult DEF BurstFirst
  <2> QED  BY <1>12, <2>1 DEF BurstFirst, Data
<1>13. CASE BurstRest
  <2>1. CASE SampleFails  BY <1>13, <2>1, <1>c DEF BurstRest
  <2>2. CASE pc' = "final" /\ result' = [result EXCEPT !.rest = Data]
             /\ UNCHANGED <<sensor, polls, device, began>>
    <3>1. /\ result' \in Result /\ result'.first = result.first
          /\ result'.rest = Data /\ result'.status = result.status
      BY <2>2, <1>d, BurstResult
    <3> QED  BY <1>13, <2>2, <3>1 DEF BurstRest, Data
  <2> QED  BY <1>13, <2>1, <2>2 DEF BurstRest
<1>14. CASE Final
  <2>1. CASE SampleFails  BY <1>14, <2>1, <1>c DEF Final
  <2>2. CASE ReadStatus /\ \E e \in {"TRANSFER", "RESET", "UPDATE_DURING_READ", "READ_TOO_SLOW"} :
                               EndSample(e)
    BY <1>14, <2>2, <1>s DEF Final, Errors, ReadStatus
  <2>3. CASE /\ wasReset = 0 /\ drdy = 0 /\ ReadStatus /\ pc' = "idle"
             /\ result' = Finished(result) /\ UNCHANGED <<polls, device, began>>
    BY <1>14, <2>3, <1>g, <1>d DEF Final, ReadStatus
  <2> QED  BY <1>14, <2>1, <2>2, <2>3 DEF Final
<1>15. CASE UNCHANGED vars  BY <1>15 DEF vars, Data
<1> QED  BY <1>1, <1>2, <1>3, <1>4, <1>5, <1>6, <1>7, <1>8, <1>9, <1>10, <1>11, <1>12, <1>13,
            <1>14, <1>15 DEF Next

LEMMA Inductive == Spec => []IInv
  BY InitIInv, IInvStep, PTL DEF Spec

\* The state of the driver and of the sensor has its types.
THEOREM ImuTypes == Spec => []TypeOK
<1>1. IInv => TypeOK  BY DEF IInv
<1> QED  BY <1>1, Inductive, PTL

\* imu_sample: whatever the sensor does meanwhile and wherever a transfer fails,
\* a good sample is one new sample of the sensor as it was configured.
THEOREM GoodSamples == Spec => []GoodIsOneNewSample
<1>1. IInv => GoodIsOneNewSample  BY DEF IInv
<1> QED  BY <1>1, Inductive, PTL
=============================================================================
