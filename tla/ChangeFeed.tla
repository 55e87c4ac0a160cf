----------------------------- MODULE ChangeFeed -----------------------------
(***************************************************************************)
(* What "nettool evloop" promises to who watches its output: no sockets,   *)
(* no datagrams.  Every notice of a change is shown once, in the order of  *)
(* the changes.  Notices may be dropped; then none that is later than the  *)
(* first dropped one is shown before an error is printed.                  *)
(***************************************************************************)
EXTENDS Naturals

CONSTANTS
    Devices,   \* the network devices
    Flags      \* bits of their flags that are told apart

VARIABLES
    flags,     \* the flags of every device
    time,      \* how many changes there were
    listening, \* whether notices are kept
    pending,   \* notices that are still to be shown
    overrun,   \* notices are being dropped
    unsaid,    \* ... and this is still to be said
    warnings,  \* how often it was said
    view       \* the flags that were last shown of every device

vars == <<flags, time, listening, pending, overrun, unsaid, warnings, view>>

\* What may be said of the n-th change.
Notices(n) == [type : {"NEWLINK", "DELLINK", "NEWADDR"},
               dev : Devices, flags : SUBSET Flags, at : {n}]

Init ==
    /\ flags \in [Devices -> SUBSET Flags]
    /\ time = 0
    /\ listening = FALSE
    /\ pending = {}
    /\ overrun = FALSE
    /\ unsaid = FALSE
    /\ warnings = 0
    /\ view = [d \in Devices |-> {}]

\* Something changes that m tells of; only a NEWLINK changes flags.
Happen(m) ==
    /\ m.type # "NEWLINK" => m.flags = flags[m.dev]
    /\ time' = m.at
    /\ flags' = [flags EXCEPT ![m.dev] = m.flags]
    /\ \/ /\ ~listening \/ overrun
          /\ UNCHANGED <<pending, overrun, unsaid>>
       \/ /\ listening /\ ~overrun
          /\ pending' = pending \cup {m}
          /\ UNCHANGED <<overrun, unsaid>>
       \/ /\ listening /\ ~overrun
          /\ overrun' = TRUE
          /\ unsaid' = TRUE
          /\ UNCHANGED pending
    /\ UNCHANGED <<listening, warnings, view>>

Listen ==
    /\ ~listening
    /\ listening' = TRUE
    /\ UNCHANGED <<flags, time, pending, overrun, unsaid, warnings, view>>

Leave ==
    /\ listening
    /\ listening' = FALSE
    /\ pending' = {}
    /\ overrun' = FALSE
    /\ unsaid' = FALSE
    /\ UNCHANGED <<flags, time, warnings, view>>

Warn ==
    /\ unsaid
    /\ unsaid' = FALSE
    /\ warnings' = warnings + 1
    /\ UNCHANGED <<flags, time, listening, pending, overrun, view>>

\* Notices are kept again, but not before the loss was said.
Resume ==
    /\ overrun /\ ~unsaid
    /\ overrun' = FALSE
    /\ UNCHANGED <<flags, time, listening, pending, unsaid, warnings, view>>

\* The oldest notice is shown.
Show(m) ==
    /\ m \in pending
    /\ \A n \in pending \ {m} : m.at < n.at
    /\ pending' = pending \ {m}
    /\ view' = IF m.type = "NEWLINK" THEN [view EXCEPT ![m.dev] = m.flags] ELSE view
    /\ UNCHANGED <<flags, time, listening, overrun, unsaid, warnings>>

Next ==
    \/ \E m \in Notices(time + 1) : Happen(m)
    \/ Listen
    \/ Leave
    \/ Warn
    \/ Resume
    \/ \E m \in pending : Show(m)

Spec == Init /\ [][Next]_vars
=============================================================================
