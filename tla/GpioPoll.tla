------------------------------ MODULE GpioPoll ------------------------------
(***************************************************************************)
(* test_cpp/src/GpioSelect.c: show the carrier of eth1, a sysfs attribute, *)
(* at every change.  Test_Gpio_Select() runs GpioSelect_Poll();            *)
(* GpioSelect_Select() has no caller left.                                 *)
(*                                                                         *)
(* The attribute is outside: poll() finds it readable at any time, reading *)
(* gives its value at the start of the file and nothing behind it, and an  *)
(* error while the interface is down.  select() gets 2 as its number of    *)
(* descriptors and so looks at none: it waits for its whole time, which    *)
(* Linux leaves at zero.  GpMaxChanges bounds the changes.                 *)
(***************************************************************************)
EXTENDS Naturals

CONSTANTS
    GpSelectSeconds, \* 1000
    GpMaxChanges

ASSUME GpioAssumption == {GpSelectSeconds, GpMaxChanges} \subseteq Nat

VARIABLES
    gpPc,      \* "off", "first" (before the loop), "seek", "wait" or "read"
    gpCall,    \* "poll" or "select"
    gpOpen,    \* the attribute is open
    gpOffset,  \* where the next read is
    vTv,       \* seconds that select() has left
    gpShown,   \* what was printed last; "" is an empty buffer
    gpCarrier, \* "0", "1", or "down": reading fails
    gpChanges  \* so far

gpioVars == <<gpPc, gpCall, gpOpen, gpOffset, vTv, gpShown, gpCarrier, gpChanges>>
carrierVars == <<gpCarrier, gpChanges>>

GpioInit ==
    /\ gpPc = "off"
    /\ gpCall = "poll"
    /\ gpOpen = FALSE
    /\ gpOffset = 0
    /\ vTv = 0
    /\ gpShown = "none"
    /\ gpCarrier = "down"
    /\ gpChanges = 0

\* open() may fail; only FD_SET(), with a descriptor of -1, would mind.
GpioStarts(call) ==
    /\ gpPc = "off" /\ gpPc' = "first"
    /\ gpCall' = call
    /\ gpOpen' \in IF call = "poll" THEN BOOLEAN ELSE {TRUE}
    /\ vTv' = GpSelectSeconds
    /\ gpCarrier' \in {"0", "1", "down"}
    /\ UNCHANGED <<gpOffset, gpShown, gpChanges>>

GpioSelect_Poll == GpioStarts("poll")
GpioSelect_Select == GpioStarts("select")

\* memset(), read() of one byte, printf().
GpioReads(from) ==
    LET reads == gpOpen /\ gpOffset = 0 /\ gpCarrier # "down"
    IN  /\ gpPc = from /\ gpPc' = "seek"
        /\ gpShown' = IF reads THEN gpCarrier ELSE ""
        /\ gpOffset' = IF reads THEN 1 ELSE gpOffset
        /\ UNCHANGED <<gpCall, gpOpen, vTv, carrierVars>>

\* Mutant: the offset stays.
GpioSeeksNot ==
    /\ gpPc = "seek" /\ gpPc' = "wait"
    /\ UNCHANGED <<gpCall, gpOpen, gpOffset, vTv, gpShown, carrierVars>>

GpioSeeks ==
    /\ gpPc = "seek" /\ gpPc' = "wait"
    /\ gpOffset' = 0
    /\ UNCHANGED <<gpCall, gpOpen, vTv, gpShown, carrierVars>>

\* poll() ignores a descriptor of -1, and then waits for ever.
GpioWaits ==
    /\ gpPc = "wait" /\ gpPc' = "read"
    /\ \/ gpCall = "poll" /\ gpOpen
       \/ gpCall = "select" /\ vTv = 0
    /\ UNCHANGED <<gpCall, gpOpen, gpOffset, vTv, gpShown, carrierVars>>

GpioStep == GpioReads("first") \/ GpioSeeks \/ GpioWaits \/ GpioReads("read")

GpioTick ==
    /\ gpCall = "select" /\ gpPc = "wait" /\ vTv > 0
    /\ vTv' = vTv - 1
    /\ UNCHANGED <<gpPc, gpCall, gpOpen, gpOffset, gpShown, carrierVars>>

GpioChanges ==
    /\ gpPc # "off"
    /\ gpChanges < GpMaxChanges /\ gpChanges' = gpChanges + 1
    /\ gpCarrier' \in {"0", "1", "down"} \ {gpCarrier}
    /\ UNCHANGED <<gpPc, gpCall, gpOpen, gpOffset, vTv, gpShown>>

GpioNext == GpioStep \/ GpioTick \/ GpioChanges

\* The program is scheduled and time passes.
GpioFairness == WF_gpioVars(GpioStep) /\ WF_gpioVars(GpioTick)

-----------------------------------------------------------------------------
(* Properties.                                                              *)

\* The values the variables take.
GpioTypeOK ==
    /\ gpPc \in {"off", "first", "seek", "wait", "read"}
    /\ gpCall \in {"poll", "select"}
    /\ gpOffset \in 0..1
    /\ vTv \in 0..GpSelectSeconds
    /\ gpShown \in {"none", "", "0", "1"}

\* A carrier that stays is shown in the end and from then on, whatever was
\* read before it came: the offset is taken back and no change is waited for
\* (GpioSelect.c 70, 111).
ShowsChange ==
    \A v \in {"0", "1"} :
        (gpOpen /\ gpCarrier = v) ~> (gpShown = v \/ gpCarrier # v)
=============================================================================
