------------------------------ MODULE FifoWait ------------------------------
(***************************************************************************)
(* test_cpp/src/WaitFifo.cpp WaitFifoChar(): make a FIFO and wait until    *)
(* what is read from it begins with a given character.  Every use of the   *)
(* macro of WaitFifo.h waits at the same path, so several waiters may      *)
(* meet there: each removes the name first and last, and works in between  *)
(* on whatever the name leads to.  main() has its calls commented out.     *)
(*                                                                         *)
(* A FIFO is known by the waiter that made it, and lives on without a      *)
(* name.  Writers are outside: each write() puts one text of FfTexts at    *)
(* the end of the FIFO that the path leads to.  FfMaxBytes bounds what     *)
(* waits in a FIFO, FfMaxWrites the writes.  The code reads as much as     *)
(* waits, whatever the size of ReadBuffer: what happens when more than its *)
(* 1025 bytes wait is undefined, and excluded by FifoAssumption.           *)
(***************************************************************************)
EXTENDS Naturals, Sequences

CONSTANTS
    Waiters,
    FfTexts,        \* what is written at once
    WaitCondition,  \* the character waited for
    FfMaxBytes,
    FfMaxWrites,
    NoFifo

ASSUME FifoAssumption ==
    /\ FfTexts \subseteq Seq(STRING)
    /\ FfMaxBytes \in 1..1025
    /\ FfMaxWrites \in Nat
    /\ NoFifo \notin Waiters

VARIABLES
    ffWaiter,  \* each waiter: [pc, fd, len, result]; fd is a FIFO
    ffName,    \* the FIFO that the path leads to
    ffBytes,   \* what waits in each FIFO
    ffWrites,  \* writes so far
    ffRemover  \* history: who has removed the name of each FIFO

fifoVars == <<ffWaiter, ffName, ffBytes, ffWrites, ffRemover>>
nameVars == <<ffName, ffRemover>>
byteVars == <<ffBytes, ffWrites>>

FifoPc == {"off", "unlink", "mkfifo", "open", "poll", "ioctl", "read", "close",
           "remove", "done"}

FifoInit ==
    /\ ffWaiter = [w \in Waiters |->
                      [pc |-> "off", fd |-> NoFifo, len |-> 0, result |-> "none"]]
    /\ ffName = NoFifo
    /\ ffBytes = [w \in Waiters |-> <<>>]
    /\ ffWrites = 0
    /\ ffRemover = [w \in Waiters |-> NoFifo]

At(w, pc) == ffWaiter[w].pc = pc
FfGoes(w, pc) == ffWaiter' = [ffWaiter EXCEPT ![w].pc = pc]

\* vRes becomes -1; descriptor 0 or -1, or the FIFO, is closed.
FfFails(w) ==
    ffWaiter' = [ffWaiter EXCEPT ![w].pc = "close", ![w].result = "error"]

WaitFifoChar(w) ==
    /\ At(w, "off") /\ FfGoes(w, "unlink")
    /\ UNCHANGED <<nameVars, byteVars>>

Unlink(w) ==
    /\ \/ At(w, "unlink") /\ FfGoes(w, "mkfifo")
       \/ At(w, "remove") /\ FfGoes(w, "done")
    /\ ffName' = NoFifo
    /\ ffRemover' = [f \in Waiters |-> IF f = ffName THEN w ELSE ffRemover[f]]
    /\ UNCHANGED byteVars

\* mkfifo() fails if somebody has made the name since.
MkFifo(w) ==
    /\ At(w, "mkfifo")
    /\ \/ ffName = NoFifo /\ ffName' = w /\ FfGoes(w, "open")
       \/ ffName # NoFifo /\ UNCHANGED ffName /\ FfFails(w)
    /\ UNCHANGED <<ffRemover, byteVars>>

\* Mutant: the name is removed as soon as the FIFO is open.
OpenFifoUnlinks(w) ==
    /\ At(w, "open") /\ ffName # NoFifo
    /\ ffWaiter' = [ffWaiter EXCEPT ![w].pc = "poll", ![w].fd = ffName]
    /\ ffName' = NoFifo
    /\ ffRemover' = [ffRemover EXCEPT ![ffName] = w]
    /\ UNCHANGED byteVars

\* By name; O_RDWR does not wait for a writer.
OpenFifo(w) ==
    /\ At(w, "open")
    /\ \/ /\ ffName # NoFifo
          /\ ffWaiter' = [ffWaiter EXCEPT ![w].pc = "poll", ![w].fd = ffName]
       \/ ffName = NoFifo /\ FfFails(w)
    /\ UNCHANGED <<nameVars, byteVars>>

\* poll() waits without a timeout.
PollFifo(w) ==
    /\ At(w, "poll")
    /\ ffBytes[ffWaiter[w].fd] # <<>>
    /\ FfGoes(w, "ioctl")
    /\ UNCHANGED <<nameVars, byteVars>>

\* A signal handler makes it fail.
PollInterrupted(w) ==
    /\ At(w, "poll") /\ FfFails(w)
    /\ UNCHANGED <<nameVars, byteVars>>

\* FIONREAD gives 0 when another waiter has taken the bytes.
IoctlFifo(w) ==
    /\ At(w, "ioctl")
    /\ LET n == Len(ffBytes[ffWaiter[w].fd])
       IN  ffWaiter' = [ffWaiter EXCEPT ![w].pc = IF n > 0 THEN "read" ELSE "poll",
                                        ![w].len = n]
    /\ UNCHANGED <<nameVars, byteVars>>

\* Mutant: the last character is compared.
FoundLast(text) == text[Len(text)] = WaitCondition

\* Only the first character is compared: what follows it is dropped.
Found(text) == text[1] = WaitCondition

\* read() waits while the FIFO is empty, and takes at most LenToRead.
ReadFifo(w) ==
    LET bytes == ffBytes[ffWaiter[w].fd]
        n == IF ffWaiter[w].len < Len(bytes) THEN ffWaiter[w].len ELSE Len(bytes)
    IN  /\ At(w, "read")
        /\ bytes # <<>>
        /\ ffBytes' = [ffBytes EXCEPT ![ffWaiter[w].fd] =
                           SubSeq(bytes, n + 1, Len(bytes))]
        /\ \/ /\ Found(SubSeq(bytes, 1, n))
              /\ ffWaiter' = [ffWaiter EXCEPT ![w].pc = "close", ![w].result = "found"]
           \/ ~Found(SubSeq(bytes, 1, n)) /\ FfGoes(w, "poll")
        /\ UNCHANGED <<nameVars, ffWrites>>

\* What waits in a FIFO is gone with its last descriptor, unless a writer still
\* has one.
CloseFifo(w) ==
    /\ At(w, "close")
    /\ ffWaiter' = [ffWaiter EXCEPT ![w].pc = "remove", ![w].fd = NoFifo]
    /\ \/ UNCHANGED ffBytes
       \/ /\ ffWaiter[w].fd # NoFifo
          /\ \A v \in Waiters \ {w} : ffWaiter[v].fd # ffWaiter[w].fd
          /\ ffBytes' = [ffBytes EXCEPT ![ffWaiter[w].fd] = <<>>]
    /\ UNCHANGED <<nameVars, ffWrites>>

WaiterStep(w) ==
    \/ Unlink(w)
    \/ MkFifo(w)
    \/ OpenFifo(w)
    \/ PollFifo(w)
    \/ IoctlFifo(w)
    \/ ReadFifo(w)
    \/ CloseFifo(w)

\* Somebody has opened the FIFO by its name and writes.
WriteFifo ==
    /\ ffName # NoFifo /\ \E w \in Waiters : ffWaiter[w].fd = ffName
    /\ ffWrites < FfMaxWrites /\ ffWrites' = ffWrites + 1
    /\ \E text \in FfTexts :
          /\ Len(ffBytes[ffName]) + Len(text) <= FfMaxBytes
          /\ ffBytes' = [ffBytes EXCEPT ![ffName] = @ \o text]
    /\ UNCHANGED <<ffWaiter, nameVars>>

\* The other waiters start when they like, once one has.
FifoNext ==
    \/ \E w \in Waiters : WaiterStep(w) \/ PollInterrupted(w)
    \/ \E w \in Waiters : WaitFifoChar(w) /\ \E v \in Waiters : ~At(v, "off")
    \/ WriteFifo

\* A waiter that can go on does; no signal has to come.
FifoFairness == \A w \in Waiters : WF_fifoVars(WaiterStep(w))

-----------------------------------------------------------------------------
(* Properties.                                                              *)

\* The values the variables take.
FifoTypeOK ==
    /\ ffWaiter \in [Waiters -> [pc : FifoPc, fd : Waiters \cup {NoFifo},
                                 len : 0..FfMaxBytes,
                                 result : {"none", "found", "error"}]]
    /\ ffName \in Waiters \cup {NoFifo}
    /\ \A w \in Waiters : Len(ffBytes[w]) <= FfMaxBytes

\* A waiter whose FIFO the path leads to no more, so that no writer reaches
\* it, has another waiter to thank, which removed the name after it was made:
\* a waiter that is alone is always reachable (WaitFifo.cpp 44, 46, 60, 116).
OrphansHaveRival ==
    \A w \in Waiters :
        LET fifo == ffWaiter[w].fd
        IN  At(w, "poll") /\ fifo # ffName => ffRemover[fifo] \notin {w, NoFifo}

\* A waiter that has its FIFO for itself leaves the loop once the condition
\* is the first byte that it has not read, whatever came before or comes after
\* (WaitFifo.cpp 96, 101).
HeadOneEndsWait ==
    \A w \in Waiters :
        (/\ At(w, "poll")
         /\ ffBytes[ffWaiter[w].fd] # <<>>
         /\ ffBytes[ffWaiter[w].fd][1] = WaitCondition)
        ~> (\/ At(w, "done")
            \/ \E v \in Waiters \ {w} : ffWaiter[v].fd = ffWaiter[w].fd)
=============================================================================
