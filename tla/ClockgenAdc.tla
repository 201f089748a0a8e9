---------------------------- MODULE ClockgenAdc ----------------------------
(***************************************************************************)
(* The two cores of the clock generator around the audio ADC: core 0 sets  *)
(* the clocks (ClockgenClock), output 2 of the chip clocks the ADC, and    *)
(* core 1 receives what the ADC sends (ClockgenPcm).  A torn divider may   *)
(* give some clock or none.  A restart of the Pico restarts both cores.    *)
(***************************************************************************)
EXTENDS ClockgenClock, ClockgenPcm

vars == <<clockVars, pcmVars>>

Runs == Clocked(AdcOutput)
MayTick == chip.on /\ chip.src[AdcOutput] # "down" /\ chip.ms[AdcOutput] # 0

(* main0 starts core 1 after the clocks are set.                           *)
Started == boot = "ready"

Init == ClockInit /\ PcmInit

Boot == ClockBoot /\ UNCHANGED pcmVars
Request == ClockRequest /\ UNCHANGED pcmVars
Mute == Started /\ SetMode /\ UNCHANGED clockVars
Reboot == ClockReboot /\ PcmReboot
Receive == Started /\ Pio(MayTick) /\ UNCHANGED clockVars
Fill == Started /\ Core1(~Runs) /\ UNCHANGED clockVars

Next == Boot \/ Request \/ Mute \/ Reboot \/ Receive \/ Fill

(* Both cores run; an ADC with a clock sends words.                        *)
Spec == Init /\ [][Next]_vars
FairSpec ==
  /\ Spec
  /\ WF_vars(Boot)
  /\ WF_vars(Runs /\ Receive)
  /\ SF_vars(Fill)

AdcTypeOK == ClockTypeOK /\ PcmTypeOK

(* While the ADC has a clock and audio is asked for, buffers of audio keep *)
(* being filled, whatever was lost and however core 1 got out of step.     *)
BuffersFlow ==
  Started /\ Runs /\ mode = "normal" ~>
    (pc1 = "put" /\ filled = Frames) \/ mode # "normal" \/ ~Runs \/ ~Started

(* Debug output is served even when the ADC's clock has stopped, between   *)
(* the two words of a frame too.                                           *)
DebugServed == Started /\ mode = "debug" ~> pc1 = "put" \/ mode # "debug" \/ ~Started
=============================================================================
