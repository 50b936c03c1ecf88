-------------------------- MODULE PmodACL2custom --------------------------
(***************************************************************************)
(* The Pmod ACL2 driver of the FreeRTOS programs (PmodACL2custom.c) and    *)
(* the part of the ADXL362 sensor behind it that the driver relies on.     *)
(*                                                                         *)
(* The driver is a set of functions without a state machine of its own:    *)
(* each builds a register write or a register read and pushes it through   *)
(* one polled SPI transfer.  They are operators here: a configuration is   *)
(* the SEQUENCE of register writes it performs, so that the task which     *)
(* runs it (module Experiment) can be interleaved with the sensor between  *)
(* any two of them.                                                        *)
(*                                                                         *)
(* The sensor is external to the repository.  It is a record of the        *)
(* registers the driver writes, the latched status bits, and whether the   *)
(* part is still busy with a soft reset, during which it takes no write.   *)
(***************************************************************************)
EXTENDS Naturals, Sequences

StatusBits == {"DATA_READY", "ACT", "INACT", "AWAKE"}

(* One of the four groups of threshold registers, 0x20 to 0x26.            *)
Thresholds == [act: Nat, actTimer: Nat, inact: Nat, inactTimer: Nat]

-----------------------------------------------------------------------------
(* The sensor (external).                                                  *)

DevRegisters == {"thresh", "ctl", "fifo", "filter", "power"}

DevType == [thresh: Thresholds,
            ctl:    {"off", "absolute", "linked"},
            fifo:   {"off"},
            filter: {2, 4, 8},
            power:  {"standby", "measure"},
            busy:   BOOLEAN,
            status: SUBSET StatusBits]

NoThresholds == [act |-> 0, actTimer |-> 0, inact |-> 0, inactTimer |-> 0]

(* Register file right after power on or a soft reset.                     *)
DevDefault == [thresh |-> NoThresholds, ctl |-> "off", fifo |-> "off",
               filter |-> 2, power |-> "standby", busy |-> FALSE, status |-> {}]

DevAfterReset == [DevDefault EXCEPT !.busy = TRUE]

(* The high byte of a threshold register has three bits.                   *)
Stored(t) == [act   |-> t.act % 2048,   actTimer   |-> t.actTimer,
              inact |-> t.inact % 2048, inactTimer |-> t.inactTimer]

(* A register write is lost while the part is busy with its reset; one to  *)
(* the soft-reset register takes the part back to its defaults.            *)
DevWrite(d, w) ==
    CASE d.busy             -> d
      [] w.reg = "reset"    -> DevAfterReset
      [] w.reg = "thresh"   -> [d EXCEPT !.thresh = Stored(w.val)]
      [] w.reg = "ctl"      -> [d EXCEPT !.ctl = w.val]
      [] w.reg = "fifo"     -> [d EXCEPT !.fifo = w.val]
      [] w.reg = "filter"   -> [d EXCEPT !.filter = w.val]
      [] OTHER              -> [d EXCEPT !.power = w.val]

(* Reading STATUS returns the latched bits and acknowledges the two event  *)
(* bits; reading the data registers clears DATA_READY.                     *)
DevStatusRead(d) == [d EXCEPT !.status = @ \ {"ACT", "INACT"}]
DevDataRead(d)   == [d EXCEPT !.status = @ \ {"DATA_READY"}]

(* What the data registers hold: nothing meaningful while the part is in   *)
(* standby, otherwise a sample taken under the configuration in force.     *)
Samples == {"zero", "standby", "off", "absolute", "linked"}
DevSample(d) == IF d.power = "measure" THEN d.ctl ELSE "standby"

(* What the part does on its own while it measures: a new sample, an       *)
(* activity or an inactivity event when its detection is enabled.          *)
DevEvents(d) ==
    IF d.power # "measure" THEN {}
    ELSE {[d EXCEPT !.status = @ \cup {"DATA_READY"}]}
         \cup (IF d.ctl = "off" THEN {}
               ELSE {[d EXCEPT !.status = @ \cup {"ACT", "AWAKE"}],
                     [d EXCEPT !.status = (@ \cup {"INACT"}) \ {"AWAKE"}]})

-----------------------------------------------------------------------------
(* The driver's own fields.                                                *)

DriverType == [range: {0, 2, 4, 8}, activeThresh: Nat, activeTimer: Nat,
               inactiveThresh: Nat, inactiveTimer: Nat]

(* ACL2c_begin: the object is a zeroed global, the four linked-mode fields *)
(* get defaults; range stays zero until a configuration reads it back.     *)
ACL2c_begin == [range |-> 0, activeThresh |-> 32, activeTimer |-> 100,
                inactiveThresh |-> 26, inactiveTimer |-> 100]

Write(reg, val) == [reg |-> reg, val |-> val]

ACL2c_reset == Write("reset", "R")

(* Mutant: POWER_CTL is the first write.                                   *)
PowerFirst ==
    << Write("power", "measure"),
       Write("thresh", [act |-> 20, actTimer |-> 100, inact |-> 16, inactTimer |-> 100]),
       Write("ctl", "absolute"),
       Write("fifo", "off"),
       Write("filter", 2) >>

(* The register writes of ACL2c_configureMeasureMode, in order.            *)
ACL2c_configureMeasureMode ==
    << Write("thresh", [act |-> 20, actTimer |-> 100, inact |-> 16, inactTimer |-> 100]),
       Write("ctl", "absolute"),
       Write("fifo", "off"),
       Write("filter", 2),
       Write("power", "measure") >>

(* The register writes of ACL2c_configureLinkedMode, in order.             *)
ACL2c_configureLinkedMode(acl2) ==
    << Write("thresh", [act        |-> acl2.activeThresh,
                        actTimer   |-> acl2.activeTimer,
                        inact      |-> acl2.inactiveThresh,
                        inactTimer |-> acl2.inactiveTimer]),
       Write("ctl", "linked"),
       Write("fifo", "off"),
       Write("filter", 2),
       Write("power", "measure") >>

(* ACL2c_getStatus and ACL2c_getSample: the value the register read returns. *)
ACL2c_getStatus(d) == d.status
ACL2c_getSample(d) == DevSample(d)

(* Mutant: the range is not read back.                                     *)
RangeNotRead(acl2, d) == acl2

(* ACL2c_updateRange: the range field follows the FILTER_CTL register.     *)
ACL2c_updateRange(acl2, d) == [acl2 EXCEPT !.range = d.filter]
=============================================================================
