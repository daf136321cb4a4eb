------------------------------ MODULE TimingLog ------------------------------
(***************************************************************************)
(* The timings of a forwarder: kept in memory, and appended by             *)
(* save_results to a CSV file that all runs of the forwarder share, when   *)
(* the process ends.  encrypt_forwarder.py and decrypt_forwarder.py do     *)
(* this alike, each for its own file.                                      *)
(*                                                                         *)
(* A forwarder holds its TAP device from open_tap until after the file is  *)
(* closed, and the kernel gives a TAP device to one process only.          *)
(***************************************************************************)
EXTENDS Integers, Sequences

CONSTANTS
    Processes,         \* processes of one forwarder
    MaxPackets,        \* packets a process handles
    Header,            \* the header line
    Cut, Damaged       \* a line that stops short; one that others were added to

ASSUME LogAssumption ==
    /\ MaxPackets \in Nat
    /\ Header # Cut /\ Header # Damaged /\ Cut # Damaged
    /\ {Header, Cut, Damaged} \intersect (Processes \X Nat) = {}

VARIABLES
    pc,                \* where each process is
    timings,           \* packets each process has timed; a row <<p, n>> is p's n-th
    toWrite,           \* lines each process has still to write
    exists,            \* whether the file exists
    file               \* its lines

vars == <<pc, timings, toWrite, exists, file>>

Rows == Processes \X (1 .. MaxPackets)
Lines == Rows \union {Header, Cut, Damaged}
Places == {"waiting", "running", "ending", "saving", "saved", "interrupted", "killed", "refused"}

Init ==
    /\ pc = [p \in Processes |-> "waiting"]
    /\ timings = [p \in Processes |-> 0]
    /\ toWrite = [p \in Processes |-> <<>>]
    /\ exists = FALSE
    /\ file = <<>>

Step(p, from, to) == pc[p] \in from /\ pc' = [pc EXCEPT ![p] = to]

SharedTap(p) == TRUE           \* mutant of TapFree: a multi-queue device

TapFree(p) == \A q \in Processes : pc[q] \notin {"running", "ending", "saving"}

\* open_tap: the device is free, or the process fails before it can save anything.
Start(p) ==
    /\ Step(p, {"waiting"}, IF TapFree(p) THEN "running" ELSE "refused")
    /\ UNCHANGED <<timings, toWrite, exists, file>>

Time(p) ==
    /\ pc[p] = "running" /\ timings[p] < MaxPackets
    /\ timings' = [timings EXCEPT ![p] = @ + 1]
    /\ UNCHANGED <<pc, toWrite, exists, file>>

\* The read loop ends, by Ctrl-C or by an exception.
End(p) ==
    /\ Step(p, {"running"}, IF timings[p] = 0 THEN "saved" ELSE "ending")
    /\ UNCHANGED <<timings, toWrite, exists, file>>

FileMissing == ~exists         \* mutant of FileEmpty: an empty file has a header

FileEmpty == ~exists \/ file = <<>>

OpenResultsFromZero(p) ==      \* mutant of OpenResults: packets counted from 0
    /\ Step(p, {"ending"}, "saving")
    /\ exists' = TRUE
    /\ toWrite' =
           [toWrite EXCEPT ![p] = (IF FileEmpty THEN <<Header>> ELSE <<>>)
                                      \o [i \in 1 .. timings[p] |-> <<p, i - 1>>]]
    /\ UNCHANGED <<timings, file>>

\* save_results opens the file to append to it.
OpenResults(p) ==
    /\ Step(p, {"ending"}, "saving")
    /\ exists' = TRUE
    /\ toWrite' =
           [toWrite EXCEPT ![p] = (IF FileEmpty THEN <<Header>> ELSE <<>>)
                                      \o [i \in 1 .. timings[p] |-> <<p, i>>]]
    /\ UNCHANGED <<timings, file>>

\* A line that follows a cut one ends up on the same line.
AfterLine(f, l) ==
    IF f # <<>> /\ f[Len(f)] = Cut
      THEN [f EXCEPT ![Len(f)] = IF l = Cut THEN Cut ELSE Damaged]
      ELSE Append(f, l)

WriteLine(p) ==
    /\ pc[p] = "saving" /\ toWrite[p] # <<>>
    /\ file' = AfterLine(file, Head(toWrite[p]))
    /\ toWrite' = [toWrite EXCEPT ![p] = Tail(@)]
    /\ UNCHANGED <<pc, timings, exists>>

CloseEarly(p) ==               \* mutant of CloseResults: some rows are not written
    /\ Step(p, {"saving"}, "saved")
    /\ UNCHANGED <<timings, toWrite, exists, file>>

CloseResults(p) ==
    /\ Step(p, {"saving"}, "saved")
    /\ toWrite[p] = <<>>
    /\ UNCHANGED <<timings, toWrite, exists, file>>

\* Ctrl-C during save_results: what has been written is still flushed.
InterruptAgain(p) ==
    /\ Step(p, {"ending", "saving"}, "interrupted")
    /\ UNCHANGED <<timings, toWrite, exists, file>>

\* The process is killed or the disk is full: the last line may stop short.
Kill(p) ==
    /\ Step(p, {"running", "ending", "saving"}, "killed")
    /\ \/ UNCHANGED file
       \/ pc[p] = "saving" /\ toWrite[p] # <<>> /\ file' = AfterLine(file, Cut)
    /\ UNCHANGED <<timings, toWrite, exists>>

ProcessStep(p) ==
    \/ Start(p)
    \/ Time(p)
    \/ End(p)
    \/ OpenResults(p)
    \/ WriteLine(p)
    \/ CloseResults(p)
    \/ InterruptAgain(p)
    \/ Kill(p)

Next == \E p \in Processes : ProcessStep(p)

Spec == Init /\ [][Next]_vars

------------------------------------------------------------------------------
(* Properties                                                              *)

TypeOK ==
    /\ pc \in [Processes -> Places]
    /\ timings \in [Processes -> 0 .. MaxPackets]
    /\ toWrite \in [Processes -> Seq(Lines)]
    /\ exists \in BOOLEAN
    /\ file \in Seq(Lines) /\ (file # <<>> => exists)

Killed == {p \in Processes : pc[p] = "killed"}

\* The file begins with its header and has no other, also after a process that opened
\* it ended before it wrote anything.  Only a kill can damage the first line.
HeaderOnce ==
    \A i \in DOMAIN file :
        /\ file[i] = Header => i = 1
        /\ i = 1 => file[1] = Header \/ (file[1] \in {Cut, Damaged} /\ Killed # {})

\* The rows of a process follow one another in the order of its packets; no other
\* process writes between them.
RowsTogether ==
    \A i, j \in DOMAIN file :
        i < j /\ file[i] \in Rows /\ file[j] \in Rows /\ file[i][1] = file[j][1]
        => file[j] = <<file[i][1], file[i][2] + (j - i)>>

\* A process that ended by itself, after being stopped once, has left every timing in
\* the file, but for a first row that a killed process before it can spoil.
TimingsSaved ==
    \A p \in Processes, n \in 1 .. MaxPackets :
        pc[p] = "saved" /\ n <= timings[p]
        => \/ \E i \in DOMAIN file : file[i] = <<p, n>>
           \/ n = 1 /\ Damaged \in {file[i] : i \in DOMAIN file} /\ Killed # {}
==============================================================================
