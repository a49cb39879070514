------------------------------ MODULE LogSink -------------------------------
(***************************************************************************)
(* The log of one attempt (src/internal/logsink): two streams of bytes cut *)
(* into numbered lines, a quota that keeps the first lines on disk and the *)
(* newest ones in a ring, and Finish, which writes head, marker and tail   *)
(* into one file.  Contents are sizes; every line has a number.  One       *)
(* action is what happens under one acquisition of the sink's mutex, and   *)
(* one write of Finish, between which a reader may look at the file.       *)
(***************************************************************************)
EXTENDS Naturals, Sequences

CONSTANTS
    Stream,         \* the job's streams, in the order Writer was called
    MaxFragment,    \* the window after which an endless line is cut
    MaxPiece,       \* bytes before a newline in one Write (bound)
    Wrap,           \* what the JSON around a line costs
    Escape,         \* by how much quoting may lengthen a line
    HeadLimit,      \* bytes after which the head is full
    RingLimit,      \* bytes the ring may hold
    MaxSeq          \* lines handed to the sink before Finish (bound)

Streams == {Stream[i] : i \in DOMAIN Stream}

\* Writer is called once for each stream.
ASSUME LogSinkAssumption ==
    /\ Stream \in Seq(Streams)
    /\ \A i, j \in DOMAIN Stream : Stream[i] = Stream[j] => i = j
    /\ MaxFragment \in Nat \ {0} /\ Wrap \in Nat \ {0}
    /\ MaxPiece \in Nat \ {0} /\ Escape \subseteq Nat
    /\ HeadLimit \in Nat /\ RingLimit \in Nat /\ MaxSeq \in Nat

VARIABLES
    stage,      \* where the sink is between Open and the end of Finish
    seq,        \* the last number given to a line
    file,       \* the records on disk
    written,    \* bytes of the head
    phase,      \* "head" until the head is full, then "tail"
    ring,       \* the newest records, in memory
    dropped,    \* raw bytes the ring gave up
    truncated,  \* whether any line went past the head
    partial,    \* bytes of the unterminated line of each stream
    broken,     \* streams whose copier stopped at a write error
    handed,     \* raw bytes the job has produced (history)
    lost        \* raw bytes a failing write took along (history)

sinkVars == <<stage, seq, file, written, phase, ring, dropped, truncated,
              partial, broken, handed, lost>>
counters == <<handed, lost>>

Rec == [seq : Nat, raw : Nat, size : Nat, kind : {"line", "event", "truncated"}]

\* w[1] + ... + w[Len(w)]
Total(w) ==
    LET upto[i \in 0..Len(w)] == IF i = 0 THEN 0 ELSE upto[i - 1] + w[i]
    IN  upto[Len(w)]
Raw(s)   == Total([i \in DOMAIN s |-> s[i].raw])
Bytes(s) == Total([i \in DOMAIN s |-> s[i].size])
Held     == Total([i \in DOMAIN Stream |-> partial[Stream[i]]])

NoSink(st) ==
    /\ stage = st /\ seq = 0 /\ file = << >> /\ written = 0
    /\ phase = "head" /\ ring = << >> /\ dropped = 0 /\ truncated = FALSE
    /\ partial = [s \in Streams |-> 0] /\ broken = {} /\ handed = 0 /\ lost = 0
SinkInit == NoSink("none")

\* Open: a file of this attempt's own, whose number no other attempt has.
Open ==
    /\ stage \in {"none", "finished"}
    /\ stage' = "open" /\ seq' = 0 /\ file' = << >> /\ written' = 0
    /\ phase' = "head" /\ ring' = << >> /\ dropped' = 0 /\ truncated' = FALSE
    /\ partial' = [s \in Streams |-> 0] /\ broken' = {}
    /\ handed' = 0 /\ lost' = 0

-----------------------------------------------------------------------------
(* Where a line goes. *)

\* ring.push gives up the oldest lines until the new one fits or none is left.
Fits(k, r) == Bytes(SubSeq(ring, k + 1, Len(ring))) + r.size <= RingLimit
Evicted(r) ==
    CHOOSE k \in 0..Len(ring) :
        /\ k = Len(ring) \/ Fits(k, r)
        /\ \A j \in 0..(k - 1) : ~Fits(j, r)

\* ring.push: a line that does not fit at all is dropped after the eviction.
Push(r) ==
    LET k == Evicted(r) IN
    /\ ring' = SubSeq(ring, k + 1, Len(ring))
               \o (IF r.size <= RingLimit THEN <<r>> ELSE << >>)
    /\ dropped' = dropped + Raw(SubSeq(ring, 1, k))
                  + (IF r.size <= RingLimit THEN 0 ELSE r.raw)

\* Mutant: the flag is set by the line that fills the head.
PutFlagsEarly(r) ==
    \/ /\ phase = "head"
       /\ file' = Append(file, r)
       /\ written' = written + r.size
       /\ phase' = IF written' >= HeadLimit THEN "tail" ELSE "head"
       /\ truncated' = (phase' = "tail")
       /\ UNCHANGED <<ring, dropped>>
    \/ /\ phase = "tail"
       /\ truncated' = TRUE
       /\ Push(r)
       /\ UNCHANGED <<file, written, phase>>

Put(r) ==
    \/ /\ phase = "head"
       /\ file' = Append(file, r)
       /\ written' = written + r.size
       /\ phase' = IF written' >= HeadLimit THEN "tail" ELSE "head"
       /\ UNCHANGED <<ring, dropped, truncated>>
    \/ /\ phase = "tail"
       /\ truncated' = TRUE
       /\ Push(r)
       /\ UNCHANGED <<file, written, phase>>

\* writeLineLocked: the line is numbered before anything can fail.
Line(raw) ==
    /\ seq' = seq + 1
    /\ \E x \in (IF raw = 0 THEN {0} ELSE Escape) :
          Put([seq |-> seq + 1, raw |-> raw, size |-> raw + Wrap + x,
               kind |-> "line"])

-----------------------------------------------------------------------------
(* The job writes.  A Write of several pieces takes the mutex once for each, *)
(* so a piece stands for a Write of its own.                                 *)

Copying(st) == stage = "open" /\ seq < MaxSeq /\ st \notin broken

\* A piece without a newline waits in the window, whatever its size.
Fill(st) ==
    /\ Copying(st)
    /\ \E n \in 1..(MaxFragment - partial[st] - 1) :
          /\ partial' = [partial EXCEPT ![st] = @ + n]
          /\ handed' = handed + n
    /\ UNCHANGED <<stage, seq, file, written, phase, ring, dropped, truncated,
                   broken, lost>>

\* The window is full: a hard cut.
Cut(st) ==
    /\ Copying(st)
    /\ Line(MaxFragment)
    /\ handed' = handed + MaxFragment - partial[st]
    /\ partial' = [partial EXCEPT ![st] = 0]
    /\ UNCHANGED <<stage, broken, lost>>

\* Mutant: the window is not emptied.
NewlineKeepsPartial(st) ==
    /\ Copying(st)
    /\ \E n \in 0..MaxPiece : Line(partial[st] + n) /\ handed' = handed + n
    /\ UNCHANGED <<stage, partial, broken, lost>>
\* A newline ends the line, and what waited goes out with it in one piece.
Newline(st) ==
    /\ Copying(st)
    /\ \E n \in 0..MaxPiece : Line(partial[st] + n) /\ handed' = handed + n
    /\ partial' = [partial EXCEPT ![st] = 0]
    /\ UNCHANGED <<stage, broken, lost>>

\* The system's own line: no bytes of the job.
Emit ==
    /\ stage = "open" /\ seq < MaxSeq
    /\ seq' = seq + 1
    /\ Put([seq |-> seq + 1, raw |-> 0, size |-> Wrap, kind |-> "event"])
    /\ UNCHANGED <<stage, partial, broken, counters>>

\* The disk is full while the head is written: the number is used up, the error
\* ends the stream's copier, and the window keeps what it had.
WriteFails(st) ==
    /\ Copying(st) /\ phase = "head"
    /\ seq' = seq + 1
    /\ broken' = broken \union {st}
    /\ \/ \E n \in 0..MaxPiece : /\ handed' = handed + n /\ lost' = lost + n
                                 /\ UNCHANGED partial
       \/ /\ handed' = handed + MaxFragment - partial[st]
          /\ partial' = [partial EXCEPT ![st] = MaxFragment]
          /\ UNCHANGED lost
    /\ UNCHANGED <<stage, file, written, phase, ring, dropped, truncated>>

-----------------------------------------------------------------------------
(* Finish. *)

BeginFinish ==
    /\ stage = "open"
    /\ stage' = "partials"
    /\ UNCHANGED <<seq, file, written, phase, ring, dropped, truncated,
                   partial, broken, counters>>

IsNextPartial(st) ==
    /\ partial[st] > 0
    /\ \A i \in DOMAIN Stream : \A j \in DOMAIN Stream :
          i < j /\ Stream[j] = st => partial[Stream[i]] = 0

FlushPartial(st) ==
    /\ stage = "partials" /\ IsNextPartial(st)
    /\ Line(partial[st])
    /\ partial' = [partial EXCEPT ![st] = 0]
    /\ UNCHANGED <<stage, broken, counters>>

PartialsFlushed ==
    /\ stage = "partials" /\ \A st \in Streams : partial[st] = 0
    /\ stage' = IF phase = "tail" THEN "marker" ELSE "sync"
    /\ UNCHANGED <<seq, file, written, phase, ring, dropped, truncated,
                   partial, broken, counters>>

\* The marker states `dropped`.
WriteMarker ==
    /\ stage = "marker"
    /\ seq' = seq + 1
    /\ file' = Append(file, [seq |-> seq + 1, raw |-> 0, size |-> Wrap,
                             kind |-> "truncated"])
    /\ stage' = "ring"
    /\ UNCHANGED <<written, phase, ring, dropped, truncated, partial, broken,
                   counters>>

FlushRing ==
    /\ stage = "ring" /\ ring # << >>
    /\ file' = Append(file, Head(ring))
    /\ ring' = Tail(ring)
    /\ UNCHANGED <<stage, seq, written, phase, dropped, truncated, partial,
                   broken, counters>>

RingFlushed ==
    /\ stage = "ring" /\ ring = << >>
    /\ stage' = "sync"
    /\ UNCHANGED <<seq, file, written, phase, ring, dropped, truncated,
                   partial, broken, counters>>

SyncAndClose ==
    /\ stage = "sync"
    /\ stage' = "finished"
    /\ UNCHANGED <<seq, file, written, phase, ring, dropped, truncated,
                   partial, broken, counters>>

\* A write, the sync or the close fails: Finish returns the error and leaves
\* everything as it is, except for a remainder it had in hand.
FinishFails ==
    /\ \/ /\ stage = "partials" /\ phase = "head"
          /\ \E st \in Streams :
                /\ IsNextPartial(st)
                /\ seq' = seq + 1
                /\ lost' = lost + partial[st]
                /\ partial' = [partial EXCEPT ![st] = 0]
       \/ /\ stage \in {"marker", "sync"} \/ (stage = "ring" /\ ring # << >>)
          /\ UNCHANGED <<seq, lost, partial>>
    /\ stage' = "stuck"
    /\ UNCHANGED <<file, written, phase, ring, dropped, truncated, broken,
                   handed>>

Finish ==
    \/ BeginFinish \/ (\E st \in Streams : FlushPartial(st)) \/ PartialsFlushed
    \/ WriteMarker \/ FlushRing \/ RingFlushed \/ SyncAndClose

Write ==
    \/ \E st \in Streams : Fill(st) \/ Cut(st) \/ Newline(st) \/ WriteFails(st)
    \/ Emit

-----------------------------------------------------------------------------
(* Properties. *)

SinkTypeOK ==
    /\ stage \in {"none", "open", "partials", "marker", "ring", "sync",
                  "finished", "stuck"}
    /\ seq \in Nat /\ written \in Nat /\ dropped \in Nat
    /\ handed \in Nat /\ lost \in Nat
    /\ file \in Seq(Rec) /\ ring \in Seq(Rec)
    /\ phase \in {"head", "tail"}
    /\ truncated \in BOOLEAN
    /\ partial \in [Streams -> 0..MaxFragment]
    /\ broken \subseteq Streams

\* Every byte of the job is on disk, in the ring, in a window, or accounted for:
\* by the marker when the quota took it, by a reported error when a write did.
EveryByteIsAccountedFor ==
    handed = Raw(file) + Raw(ring) + Held + dropped + lost

\* What has no line in the file: numbers that were given out and not written.
Written(n) == \E i \in DOMAIN file : file[i].seq = n

\* A log that Finish closed without the truncated flag, and whose writes never
\* failed, is complete: every line handed in is there, in order.
UntruncatedIsComplete ==
    stage = "finished" /\ ~truncated /\ broken = {} =>
        /\ Raw(file) = handed
        /\ \A n \in 1..seq : Written(n)
        /\ \A i \in DOMAIN file : file[i].seq = i

\* The flag is not set for a log that merely fills its head to the brim: some
\* line handed in was not written at its place.
TruncatedMeansSomething ==
    truncated => \E n \in 1..seq : \A i \in DOMAIN file : 
        file[i].seq = n => \E j \in 1..(i - 1) : file[j].kind = "truncated"

\* The quota holds whatever the job writes: the ring never exceeds its share,
\* and the file the quota by at most one line and the marker.
QuotaHolds ==
    /\ Bytes(ring) <= RingLimit
    /\ \A x \in Escape : (\A y \in Escape : y <= x) =>
          Bytes(file) <= HeadLimit + (MaxFragment - 1 + MaxPiece + Wrap + x)
                         + Wrap + RingLimit

\* A closed log ends with how the job ended: after the marker stand the newest
\* lines, in order, up to the very last, unless that one fits no ring at all.
TailIsNewest ==
    stage = "finished" /\ truncated =>
        \E m \in DOMAIN file :
            /\ file[m].kind = "truncated"
            /\ file[m].seq = seq
            /\ \A i \in 1..m - 1 : \A j \in i + 1..m - 1 : file[i].seq < file[j].seq
            /\ \A i \in m + 1..Len(file) - 1 : file[i + 1].seq = file[i].seq + 1
            /\ Len(file) > m => file[Len(file)].seq = seq - 1

\* Mutant: the marker's jump is reported like any other.
NoticesOfMarker(f) ==
    {i \in DOMAIN f \ {1} : f[i].seq > f[i - 1].seq + 1}
\* The reader's rule (SeqCheck and logRenderer): a jump forward is reported,
\* the marker's own excepted, and a step back starts over.
Notices(f) ==
    {i \in DOMAIN f \ {1} : f[i].seq > f[i - 1].seq + 1 /\ f[i].kind # "truncated"}

\* "N lines missing" is only said of lines that really are nowhere in the file,
\* although the marker has a higher number than the lines that follow it.
NoticeMeansLoss ==
    stage = "finished" => \A i \in Notices(file) :
        \A n \in file[i - 1].seq + 1..file[i].seq - 1 : ~Written(n)

\* Nothing is missing in silence: a number without a line shows as a notice, as
\* the marker, or is the last of a stream whose error ended the log.
LossShows ==
    stage = "finished" => \A n \in 1..seq : ~Written(n) =>
        \/ truncated
        \/ \E i \in Notices(file) : file[i - 1].seq < n /\ n < file[i].seq
        \/ broken # {} /\ \A i \in DOMAIN file : file[i].seq < n
        \/ broken # {} /\ \A i \in DOMAIN file : file[i].seq > n

\* The marker is no flag: every log that filled its head closes with exactly one,
\* and in a log without the flag it is the last record and counts nothing dropped.
\* The comment in `write` denies such an empty marker; Finish writes it.
MarkerMeansHeadFull ==
    stage = "finished" =>
        LET markers == {m \in DOMAIN file : file[m].kind = "truncated"} IN
        /\ phase = "head" => markers = {}
        /\ phase = "tail" => \E m \in DOMAIN file :
              markers = {m} /\ (~truncated => m = Len(file) /\ dropped = 0)

\* What a log says of itself when it is closed: complete unless it is flagged,
\* flagged only if something is missing at its place, marked if and only if its
\* head was filled, within the quota, and ending with the newest lines.
TruncationIsTold ==
    /\ UntruncatedIsComplete /\ TruncatedMeansSomething /\ MarkerMeansHeadFull
    /\ QuotaHolds /\ TailIsNewest

\* Every jump the reader announces is a loss, and a line the log lacks shows as
\* such a jump or in the flag, unless a failed write took it and no line that was
\* written stands before it, or none behind it: a log that lost its first or its
\* last lines to an error has nothing to show them by.
GapsAreLosses == NoticeMeansLoss /\ LossShows
=============================================================================
