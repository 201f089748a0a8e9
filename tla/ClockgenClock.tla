--------------------------- MODULE ClockgenClock ---------------------------
(***************************************************************************)
(* The clock control of the clock generator's firmware: core 0's start-up  *)
(* (main0.c), the setups it caches for the three outputs (clock_gen.c), the*)
(* driver of the Si5351 chip (libsi5351/si5351.c), and the USB clock       *)
(* controls (usb_audio.c).  Any transfer on the I2C bus may fail, and the  *)
(* Pico may restart while the chip keeps its power and its registers.      *)
(*                                                                         *)
(* Abstractions.  A setup is its PLL and the whole part of its divider,    *)
(* which tell all setups apart; 0 is a divider never programmed, Torn one  *)
(* that is partly written.  R_DIV is 1 in every setup.                     *)
(***************************************************************************)
EXTENDS Integers

CONSTANTS
  CxOutputs,   \* the outputs that clock cards; the code has 0 and 1
  Selections,  \* the values of the selector requests of an instance
  Rates        \* the rates the host asks for

ASSUME ClockAssumption ==
  CxOutputs \subseteq {0, 1} /\ Selections \subseteq 0..255 /\ Rates \subseteq Nat

AdcOutput == 2
Outputs == CxOutputs \cup {AdcOutput}
Plls == {"A", "B"}
Torn == -1

NoSetup == [pll |-> "none", div |-> 0]

(* setup_cxadc_map: 20, 28.6, 40 and 50 MHz.                               *)
CxSetup == [i \in 0..3 |-> IF i = 1 THEN [pll |-> "B", div |-> 30]
                           ELSE [pll |-> "A", div |-> <<30, 0, 15, 12>>[i + 1]]]

(* 12.288 and 12 MHz, for 48000 and 46875 samples per second.              *)
AdcSetup == [r \in {48000, 46875} |->
               IF r = 48000 THEN [pll |-> "B", div |-> 69] ELSE [pll |-> "A", div |-> 50]]

Setups == {CxSetup[i] : i \in 0..3} \cup {AdcSetup[r] : r \in {48000, 46875}}

VARIABLES
  boot,    \* the step core 0 is at; "ready" once it serves USB
  init,    \* init_success
  known,   \* the PLLs si5351.c takes for configured
  cache,   \* ouput0, ouput1, ouput2
  chip,    \* the registers of the Si5351
  luck     \* history: "all" while no transfer has failed since the start,
           \* then whether the latest call met a failure: "none" or "last"

Met(ok) == luck' = IF ~ok THEN "none" ELSE IF luck = "all" THEN "all" ELSE "last"

clockVars == <<boot, init, known, cache, chip, luck>>

(* What the chip puts out at o is the frequency of setup s.                *)
Puts(o, s) ==
  /\ chip.on /\ chip.src[o] = s.pll
  /\ chip.pll[s.pll] = "locked" /\ chip.ms[o] = s.div

(* Some clock comes out at o.                                              *)
Clocked(o) ==
  /\ chip.on /\ chip.src[o] # "down"
  /\ chip.pll[chip.src[o]] = "locked" /\ chip.ms[o] > 0

(***************************************************************************)
(* si5351.c: the outcomes of a call on registers c, one of them without a  *)
(* failure.                                                                *)
(***************************************************************************)
Same(c) == [chip |-> c, ok |-> TRUE]
Failed(c) == [chip |-> c, ok |-> FALSE]

(* Nine writes; the PLL may be left with part of them.                     *)
SetupPll(c, p) ==
  { Same([c EXCEPT !.pll[p] = "locked"]), Failed(c), Failed([c EXCEPT !.pll[p] = "torn"]) }

(* Mutant: the control register is written only when its PLL changes.      *)
SetupMultisynthLazy(c, o, s) ==
  IF s.pll \notin known THEN {Same(c)} ELSE
  LET written == [c EXCEPT !.ms[o] = s.div]
  IN  { Failed(c), Failed([c EXCEPT !.ms[o] = Torn]), Failed(written),
        Same(IF cache[o].pll = s.pll THEN written
                                     ELSE [written EXCEPT !.src[o] = s.pll]) }

(* Refuses a PLL it has not configured.  A burst of eight registers, then  *)
(* the output's control register.                                          *)
SetupMultisynth(c, o, s) ==
  IF s.pll \notin known THEN {Same(c)} ELSE
  LET written == [c EXCEPT !.ms[o] = s.div]
  IN  { Failed(c), Failed([c EXCEPT !.ms[o] = Torn]), Failed(written),
        Same([written EXCEPT !.src[o] = s.pll]) }

(* Reads a register and writes it back with the divider.  The result of the*)
(* read is ignored: when it fails, an uninitialised value is written over  *)
(* the high bits of the multisynth's parameter.                            *)
SetupRdiv(c, o) ==
  { Same(c), Failed(c), Failed([c EXCEPT !.ms[o] = Torn]) }

(***************************************************************************)
(* clock_gen.c.                                                            *)
(***************************************************************************)

(* Mutant: the PLL is left out of the comparison.                          *)
DiffersDiv(old, new) == old.div # new.div

Differs(old, new) == old # new

(* set_multisynth: the new setup is cached whatever became of the writes.  *)
SetMultisynth(o, s) ==
  \E m \in IF Differs(cache[o], s) THEN SetupMultisynth(chip, o, s) ELSE {Same(chip)} :
    \E r \in IF cache[o] = NoSetup THEN SetupRdiv(m.chip, o) ELSE {Same(m.chip)} :
      /\ chip' = r.chip
      /\ Met(m.ok /\ r.ok)
      /\ cache' = [cache EXCEPT ![o] = s]

(* clock_gen_init and si5351_begin: outputs off, drivers down.  A failure  *)
(* ends it, with part of that done; a failed read of the status counts as  *)
(* "ready" and only the next write fails.                                  *)
Begin ==
  /\ boot = "begin"
  /\ \/ /\ chip' = [chip EXCEPT !.on = FALSE, !.src = [o \in Outputs |-> "down"]]
        /\ init' = TRUE /\ boot' = "pllA"
        /\ UNCHANGED luck
     \/ /\ \/ UNCHANGED chip
           \/ \E n \in 0..3 :
                chip' = [chip EXCEPT !.on = FALSE,
                                     !.src = [o \in Outputs |-> IF o < n THEN "down"
                                                                ELSE chip.src[o]]]
        /\ init' = FALSE /\ boot' = "ready"
        /\ Met(FALSE)
  /\ UNCHANGED <<known, cache>>

(* clock_gen_default: the PLLs, the outputs' default setups, and then the  *)
(* outputs are enabled.  No result is looked at.                           *)
DefaultPll(p, next) ==
  /\ \E r \in SetupPll(chip, p) :
       /\ chip' = r.chip
       /\ known' = IF r.ok THEN known \cup {p} ELSE known
       /\ Met(r.ok)
  /\ boot' = next
  /\ UNCHANGED <<init, cache>>

DefaultPllA == boot = "pllA" /\ DefaultPll("A", "pllB")
DefaultPllB == boot = "pllB" /\ DefaultPll("B", "outputs")

DefaultSetup(o) == IF o = AdcOutput THEN AdcSetup[48000] ELSE CxSetup[1]

DefaultOutput ==
  /\ boot = "outputs"
  /\ LET left == {o \in Outputs : cache[o] = NoSetup}
     IN \E o \in left :
          /\ \A p \in left : o <= p
          /\ SetMultisynth(o, DefaultSetup(o))
          /\ boot' = IF left = {o} THEN "enable" ELSE boot
  /\ UNCHANGED <<init, known>>

Enable ==
  /\ boot = "enable"
  /\ \E on \in BOOLEAN : chip' = [chip EXCEPT !.on = on] /\ Met(on)
  /\ boot' = "ready"
  /\ UNCHANGED <<init, known, cache>>

(***************************************************************************)
(* usb_audio.c: the requests of the host, one at a time.                   *)
(***************************************************************************)

(* The ADC's rate; one it does not know is ignored, the request succeeds.  *)
SetRate ==
  /\ boot = "ready" /\ init
  /\ \E r \in Rates \cap DOMAIN AdcSetup : SetMultisynth(AdcOutput, AdcSetup[r])
  /\ UNCHANGED <<boot, init, known>>

(* 1-based on the bus, an 8-bit 0-based index in the code: 0 becomes 255,  *)
(* which is out of range and ignored as any other.                         *)
Option(value) == (value - 1) % 256

SelectClock ==
  /\ boot = "ready" /\ init
  /\ \E o \in CxOutputs, v \in Selections :
       Option(v) \in DOMAIN CxSetup /\ SetMultisynth(o, CxSetup[Option(v)])
  /\ UNCHANGED <<boot, init, known>>

(* The answers to the host: 0 and the first selection before a good start. *)
RateReported ==
  IF init THEN CHOOSE r \in DOMAIN AdcSetup : AdcSetup[r] = cache[AdcOutput] ELSE 0

CurrentOption(o) ==
  IF init THEN CHOOSE i \in DOMAIN CxSetup : CxSetup[i] = cache[o] ELSE 0

SelectionReported(o) == CurrentOption(o) + 1

(* The Pico restarts; the chip keeps its registers.                        *)
ClockReboot ==
  /\ boot' = "begin" /\ init' = FALSE /\ known' = {}
  /\ cache' = [o \in Outputs |-> NoSetup]
  /\ luck' = "all"
  /\ UNCHANGED chip

ClockInit ==
  /\ boot = "begin" /\ init = FALSE /\ known = {}
  /\ cache = [o \in Outputs |-> NoSetup]
  /\ chip = [on |-> FALSE, pll |-> [p \in Plls |-> "off"],
             ms |-> [o \in Outputs |-> 0], src |-> [o \in Outputs |-> "down"]]
  /\ luck = "all"

ClockBoot == Begin \/ DefaultPllA \/ DefaultPllB \/ DefaultOutput \/ Enable
ClockRequest == SetRate \/ SelectClock

(***************************************************************************)
(* Properties.                                                             *)
(***************************************************************************)

ClockTypeOK ==
  /\ boot \in {"begin", "pllA", "pllB", "outputs", "enable", "ready"}
  /\ init \in BOOLEAN /\ luck \in {"all", "last", "none"} /\ known \subseteq Plls
  /\ cache \in [Outputs -> Setups \cup {NoSetup}]
  /\ chip.on \in BOOLEAN
  /\ chip.pll \in [Plls -> {"off", "torn", "locked"}]
  /\ chip.ms \in [Outputs -> {Torn, 0} \cup {s.div : s \in Setups}]
  /\ chip.src \in [Outputs -> Plls \cup {"down"}]

(* What the device answers to the host is what its outputs carry, when no  *)
(* transfer has failed since the start: whatever an earlier start had left *)
(* in the chip, and after any sequence of requests.                        *)
ReportIsOutput ==
  boot = "ready" /\ luck = "all" =>
    /\ Puts(AdcOutput, AdcSetup[RateReported])
    /\ \A o \in CxOutputs : Puts(o, CxSetup[SelectionReported(o) - 1])

(* A request that changes a setup and meets no failure repairs its output, *)
(* whatever failed before, if the PLL and the outputs came up at the start.*)
ChangeRepairs ==
  [][\A o \in Outputs :
       /\ boot = "ready" /\ boot' = "ready"
       /\ cache'[o] # cache[o] /\ luck' # "none"
       /\ chip.on /\ cache'[o].pll \in known
       => Puts(o, cache[o])']_clockVars
=============================================================================
