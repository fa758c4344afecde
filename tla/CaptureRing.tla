---------------------------- MODULE CaptureRing ----------------------------
(***************************************************************************)
(* A continuous audio source of src/src/capture.rs: the thread or callback *)
(* that feeds a bounded ring, the driver that reads it with a deadline,    *)
(* the flags they share, and the ways to stop: CpalCaptureSource (a device *)
(* stream on an audio thread), and PipePcmSource over a child's output or  *)
(* over stdin, whose reader cannot be made to return.                      *)
(*                                                                         *)
(* Frames are numbered as they arrive.  The overrun counter is read and    *)
(* written with Relaxed ordering: what makes its last value visible is the *)
(* Release store and Acquire load of the ended flag, both steps here.      *)
(***************************************************************************)
EXTENDS Integers, Sequences, SequencesExt

CONSTANTS
    Sources,    \* the kinds of source to check: "cpal", "child", "stdin"
    Capacity,   \* frames the ring holds
    ReadFrames, \* frames the driver's buffer holds
    MaxChunk,   \* bound on the frames that arrive at once
    MaxFrames   \* bound on the frames that arrive

ASSUME BoundsAssumption ==
    /\ Sources \subseteq {"cpal", "child", "stdin"}
    /\ {Capacity, ReadFrames, MaxChunk, MaxFrames} \subseteq Nat \ {0}

VARIABLES
    source,     \* the kind of source
    produced,   \* how many frames have arrived
    ring,       \* frames in the ring
    overruns,   \* overrun_frames
    error,      \* the error slot holds a message
    ended,      \* the ended flag
    feeder,     \* the producer: where it is, the frames it holds, the room it saw
    stop,       \* how far a stop has come
    driver,     \* the consumer: where it is, frames popped, the flag and count it loaded,
                \* and whether no read has failed
    delivered,  \* frames handed to the driver by successful reads
    last        \* the newest CaptureRead

ringVars == <<source, produced, ring, overruns, error, ended, feeder, stop, driver, delivered, last>>

RingInit ==
    /\ source \in Sources
    /\ produced = 0
    /\ ring = <<>>
    /\ overruns = 0
    /\ error = FALSE /\ ended = FALSE
    /\ feeder = [at |-> "loop", chunk |-> <<>>, room |-> 0]
    /\ stop = "no"
    /\ driver = [at |-> "idle", got |-> <<>>, flag |-> FALSE, total |-> 0, ok |-> TRUE]
    /\ delivered = <<>>
    /\ last = [ended |-> FALSE, overruns |-> 0]

-----------------------------------------------------------------------------
(* The producer: the callback of a stream, or the reader of a pipe.        *)

\* The reader looks at the ended flag before each read.
CheckEnded ==
    /\ source # "cpal" /\ feeder.at = "loop"
    /\ feeder' = [feeder EXCEPT !.at = IF ended THEN "exit" ELSE "read"]
    /\ UNCHANGED <<source, produced, ring, overruns, error, ended, stop, driver, delivered, last>>

\* Frames arrive: a callback, or a read that returns.
Arrive(n) ==
    /\ feeder.at = IF source = "cpal" THEN "loop" ELSE "read"
    /\ produced + n <= MaxFrames
    /\ produced' = produced + n
    /\ feeder' = [feeder EXCEPT !.at = "feed", !.chunk = [i \in 1 .. n |-> produced + i]]
    /\ UNCHANGED <<source, ring, overruns, error, ended, stop, driver, delivered, last>>

\* vacant_len
Vacant == Capacity - Len(ring)

\* feed_ring: look at the room there is, then push what fits and drop the tail.
Observe ==
    /\ feeder.at = "feed"
    /\ feeder' = [feeder EXCEPT !.at = "push",
                                !.room = Min({Vacant, Len(feeder.chunk)})]
    /\ UNCHANGED <<source, produced, ring, overruns, error, ended, stop, driver, delivered, last>>

Push ==
    /\ feeder.at = "push"
    /\ ring' = ring \o SubSeq(feeder.chunk, 1, feeder.room)
    /\ feeder' = [feeder EXCEPT !.at = "count"]
    /\ UNCHANGED <<source, produced, overruns, error, ended, stop, driver, delivered, last>>

Count ==
    /\ feeder.at = "count"
    /\ overruns' = overruns + Len(feeder.chunk) - feeder.room
    /\ feeder' = [feeder EXCEPT !.at = "loop", !.chunk = <<>>]
    /\ UNCHANGED <<source, produced, ring, error, ended, stop, driver, delivered, last>>

\* The end of the pipe.
Eof ==
    /\ source # "cpal" /\ feeder.at = "read"
    /\ feeder' = [feeder EXCEPT !.at = "exit"]
    /\ UNCHANGED <<source, produced, ring, overruns, error, ended, stop, driver, delivered, last>>

\* record_error, first half: a stream error, a failed read, or an end inside a frame.  A
\* further error of a stream finds the slot full and the flag set, and changes nothing.
RecordError ==
    /\ feeder.at = IF source = "cpal" THEN "loop" ELSE "read"
    /\ ~(error /\ ended)
    /\ error' = TRUE
    /\ feeder' = [feeder EXCEPT !.at = "errored"]
    /\ UNCHANGED <<source, produced, ring, overruns, ended, stop, driver, delivered, last>>

\* record_error, second half.
FlagError ==
    /\ feeder.at = "errored"
    /\ ended' = TRUE
    /\ feeder' = [feeder EXCEPT !.at = IF source = "cpal" THEN "loop" ELSE "exit"]
    /\ UNCHANGED <<source, produced, ring, overruns, error, stop, driver, delivered, last>>

\* Mutant of Exit: the flag is only set by a stop.
ExitSilently ==
    /\ feeder.at = "exit"
    /\ feeder' = [feeder EXCEPT !.at = "gone"]
    /\ UNCHANGED <<source, produced, ring, overruns, error, ended, stop, driver, delivered, last>>

\* The reader's last step.
Exit ==
    /\ feeder.at = "exit"
    /\ ended' = TRUE
    /\ feeder' = [feeder EXCEPT !.at = "gone"]
    /\ UNCHANGED <<source, produced, ring, overruns, error, stop, driver, delivered, last>>

\* The audio thread takes the stop signal, sets the flag, and then drops the stream, which
\* waits for a callback that is running.
TakeStopSignal ==
    /\ source = "cpal" /\ stop = "sent"
    /\ ended' = TRUE
    /\ stop' = "taken"
    /\ UNCHANGED <<source, produced, ring, overruns, error, feeder, driver, delivered, last>>

DropStream ==
    /\ source = "cpal" /\ stop = "taken"
    /\ feeder.at = "loop"
    /\ feeder' = [feeder EXCEPT !.at = "gone"]
    /\ UNCHANGED <<source, produced, ring, overruns, error, ended, stop, driver, delivered, last>>

-----------------------------------------------------------------------------
(* read.                                                                   *)

\* The driver gives up after a read that failed.
BeginRead ==
    /\ driver.at = "idle" /\ driver.ok
    /\ driver' = [driver EXCEPT !.at = "pop", !.got = <<>>]
    /\ UNCHANGED <<source, produced, ring, overruns, error, ended, feeder, stop, delivered, last>>

PopFrames ==
    /\ driver.at = "pop"
    /\ LET n == Min({Len(ring), ReadFrames})
       IN /\ driver' = [driver EXCEPT !.at = "flag", !.got = SubSeq(ring, 1, n)]
          /\ ring' = SubSeq(ring, n + 1, Len(ring))
    /\ UNCHANGED <<source, produced, overruns, error, ended, feeder, stop, delivered, last>>

\* Load the flag.  Without data, flag or deadline, sleep and pop again.
LoadFlag ==
    /\ driver.at = "flag"
    /\ driver' = [driver EXCEPT !.at = "error", !.flag = ended]
    /\ UNCHANGED <<source, produced, ring, overruns, error, ended, feeder, stop, delivered, last>>

PollAgain ==
    /\ driver.at = "flag"
    /\ driver.got = <<>> /\ ~ended
    /\ driver' = [driver EXCEPT !.at = "pop"]
    /\ UNCHANGED <<source, produced, ring, overruns, error, ended, feeder, stop, delivered, last>>

\* take_error: the read fails, and what it had popped is gone.
FailRead ==
    /\ driver.at = "error" /\ error
    /\ error' = FALSE
    /\ driver' = [driver EXCEPT !.at = "idle", !.got = <<>>, !.ok = FALSE]
    /\ UNCHANGED <<source, produced, ring, overruns, ended, feeder, stop, delivered, last>>

LoadOverruns ==
    /\ driver.at = "error" /\ ~error
    /\ driver' = [driver EXCEPT !.at = "return", !.total = overruns]
    /\ UNCHANGED <<source, produced, ring, overruns, error, ended, feeder, stop, delivered, last>>

\* Mutant of AtEnd: the frames still in the ring are forgotten.
AtEndByFlag == driver.flag

\* The source has ended and the ring is empty.
AtEnd == driver.flag /\ ring = <<>>

EndRead ==
    /\ driver.at = "return"
    /\ delivered' = delivered \o driver.got
    /\ last' = [ended |-> AtEnd, overruns |-> driver.total]
    /\ driver' = [driver EXCEPT !.at = "idle", !.got = <<>>]
    /\ UNCHANGED <<source, produced, ring, overruns, error, ended, feeder, stop>>

-----------------------------------------------------------------------------
(* stop, also by Drop after a read that failed.                            *)

\* Mutant of Joins: every reader is joined.
JoinsAll(killed) == TRUE

\* Only a stream, or a reader whose child is dead, is waited for.
Joins(killed) == source = "cpal" \/ (source = "child" /\ killed)

BeginStop(killed) ==
    /\ driver.at = "idle" /\ stop = "no"
    /\ stop' = IF source = "cpal" THEN "sent" ELSE IF killed THEN "killed" ELSE "flagged"
    /\ source = "stdin" => ~killed
    /\ ended' = (ended \/ source # "cpal")
    /\ driver' = [driver EXCEPT !.at = IF Joins(killed) THEN "join" ELSE "idle"]
    /\ UNCHANGED <<source, produced, ring, overruns, error, feeder, delivered, last>>

Join ==
    /\ driver.at = "join" /\ feeder.at = "gone"
    /\ ended' = TRUE
    /\ driver' = [driver EXCEPT !.at = "idle"]
    /\ UNCHANGED <<source, produced, ring, overruns, error, feeder, stop, delivered, last>>

-----------------------------------------------------------------------------
\* What the threads do by themselves.  Data, errors and the end of stdin come from outside;
\* a killed child's pipe ends.
Feeder ==
    \/ CheckEnded \/ Observe \/ Push \/ Count \/ FlagError \/ Exit \/ TakeStopSignal \/ DropStream
    \/ (stop = "killed" /\ Eof)

Reader == BeginRead \/ PopFrames \/ FailRead \/ LoadOverruns \/ EndRead \/ Join

Outside ==
    \/ \E n \in 1 .. MaxChunk : Arrive(n)
    \/ Eof \/ RecordError
    \/ \E killed \in BOOLEAN : BeginStop(killed)

RingNext == Feeder \/ Reader \/ LoadFlag \/ PollAgain \/ Outside

\* Threads run, and the deadline of a read passes.
RingSpec == RingInit /\ [][RingNext]_ringVars /\ WF_ringVars(Feeder) /\ WF_ringVars(Reader) /\ SF_ringVars(LoadFlag)

-----------------------------------------------------------------------------
(* Properties.                                                             *)

\* The reader was left behind by stop: stdin, or a child that could not be killed.
Detached == stop = "flagged"

\* Audio reaches the driver in order and once, and its loss is never silent: when a read
\* says that the source has ended, the frames delivered and the overruns it reports are
\* all the frames that ever arrived.
AllAccountedFor ==
    /\ LET frames == delivered \o driver.got \o ring
       IN  \A i, j \in DOMAIN frames : i < j => frames[i] < frames[j]
    /\ last.ended /\ ~Detached => Len(delivered) + last.overruns = produced

\* A read comes back, with data or at its deadline, and a stop comes back although its
\* reader may be blocked.
CallsReturn == driver.at # "idle" ~> driver.at = "idle"

\* Once the producer is gone, reading on ends in the error it recorded or in ended.
EndIsReported == feeder.at = "gone" ~> last.ended \/ ~driver.ok

=============================================================================
