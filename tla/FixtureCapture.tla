--------------------------- MODULE FixtureCapture ---------------------------
(***************************************************************************)
(* What the fixture analyzers of Prototype 0 make of a capture: scheduled  *)
(* transmissions on two logic channels (E0-03), packet summaries of a      *)
(* baseline and attenuated steps (E0-05), and timing marks of audio frames *)
(* (E0-07).  An analyzer that raises an exception ends with a non-zero     *)
(* exit code and writes no summary.                                        *)
(***************************************************************************)
EXTENDS Integers, Sequences, FiniteSets, SequencesExt

Absent == -1      \* a value that a capture does not have
Unreadable == -2  \* a value that is there and not a number

Crash == "crash"  \* the analyzer raises an exception
Verdict(passed) == IF passed THEN "pass" ELSE "fail"

Smallest(S) == CHOOSE x \in S : \A y \in S : x <= y
Largest(S) == CHOOSE x \in S : \A y \in S : x >= y

\* The i-th smallest of a sequence of numbers, from 0.
Ranked(values, i) == SortSeq(values, <)[i + 1]

\* Twenty times the 95th percentile: between two ranks it is interpolated.
P95Times20(values) ==
  LET index == (Len(values) - 1) * 19
      low == index \div 20
      part == index % 20
  IN IF part = 0 THEN 20 * Ranked(values, low)
     ELSE Ranked(values, low) * (20 - part) + Ranked(values, low + 1) * part

-----------------------------------------------------------------------------
(* E0-03: queue and start edges. *)

\* Times of the rising edges of a channel in a list of edges.  A row without
\* a value is a rising edge, and says nothing of the level before the next.
EdgeListTimes(c, channel) ==
  LET own == SelectSeq(c.rows, LAMBDA r : r.channel = channel)
      highBefore(i) == \E j \in 1 .. i - 1 :
        own[j].value = "high" /\ \A k \in j + 1 .. i - 1 : own[k].value = "none"
      rises == SelectSeq([i \in DOMAIN own |-> i], LAMBDA i :
        own[i].value = "none" \/ (own[i].value = "high" /\ ~highBefore(i)))
  IN [i \in DOMAIN rises |-> own[rises[i]].time]

\* The same for a table that samples both channels in every row.
SampledColumnTimes(c, channel) ==
  LET rises == SelectSeq([i \in DOMAIN c.rows |-> i], LAMBDA i :
        c.rows[i][channel] /\ (i = 1 \/ ~c.rows[i - 1][channel]))
  IN [i \in DOMAIN rises |-> c.rows[rises[i]].time]

EdgeTimes(c, channel) ==
  IF c.shape = "edge-list" THEN EdgeListTimes(c, channel)
  ELSE SampledColumnTimes(c, channel)

\* Mutant: start edges before their queue edge are skipped, not counted.
PairEdges_OrphansForgotten(queue, start) ==
  LET step(acc, q) ==
        LET later == {i \in acc.next .. Len(start) : start[i] >= q}
        IN IF later = {} THEN [acc EXCEPT !.next = Len(start) + 1]
           ELSE [acc EXCEPT !.next = Smallest(later) + 1,
                            !.errors = Append(@, start[Smallest(later)] - q)]
      all == FoldLeft(step, [next |-> 1, errors |-> <<>>, orphans |-> 0], queue)
  IN [errors |-> all.errors, orphans |-> all.orphans,
      unpaired |-> Len(queue) - Len(all.errors),
      extra |-> Len(start) - all.next + 1]

\* Each queue edge is paired with the next start edge not before it.
PairEdges(queue, start) ==
  LET step(acc, q) ==
        LET later == {i \in acc.next .. Len(start) : start[i] >= q}
        IN IF later = {}
           THEN [acc EXCEPT !.orphans = @ + Len(start) - acc.next + 1,
                            !.next = Len(start) + 1]
           ELSE [next |-> Smallest(later) + 1,
                 errors |-> Append(acc.errors, start[Smallest(later)] - q),
                 orphans |-> acc.orphans + Smallest(later) - acc.next]
      all == FoldLeft(step, [next |-> 1, errors |-> <<>>, orphans |-> 0], queue)
  IN [errors |-> all.errors, orphans |-> all.orphans,
      unpaired |-> Len(queue) - Len(all.errors),
      extra |-> Len(start) - all.next + 1]

\* m.samples is what the readiness metadata expects; the analyzer is told to
\* fail on unpaired edges, and no limit on the launch error.
AnalyzeGpio(m, c) ==
  LET pairs == PairEdges(EdgeTimes(c, "queue"), EdgeTimes(c, "start"))
  IN IF ~c.recognized \/ c.rows = <<>> THEN Crash
     ELSE Verdict(/\ Len(pairs.errors) >= m.samples
                  /\ pairs.orphans + pairs.unpaired + pairs.extra = 0)

-----------------------------------------------------------------------------
(* E0-05: packet summaries, one or several in a file. *)

\* The packet error rate of a step in whole hundredths; a delivery ratio in
\* the summary, in hundredths too, takes the place of the counted one.
ErrorRate(step) ==
  LET sent == IF step.transmitted > 0 THEN step.transmitted ELSE step.requested
  IN CASE step.ratio # Absent -> 100 - step.ratio
       [] step.ratio = Absent /\ sent > 0 /\ step.rx >= 0 ->
            (100 * (sent - step.rx)) \div sent
       [] OTHER -> Absent

\* As many valid steps as files, one of them with an error rate of 1 %.
\* There is a label for each file, and no label for a second summary in it.
AnalyzeAttenuation(m, files) ==
  LET steps == FlattenSeq([i \in DOMAIN files |-> files[i].steps])
      valid == SelectSeq(steps, LAMBDA s : s.transmitted > 0 /\ s.rx >= 0)
  IN IF Len(steps) # Len(files) THEN Crash
     ELSE Verdict(/\ Len(valid) >= Len(files)
                  /\ \E i \in DOMAIN valid : ErrorRate(valid[i]) >= 1)

-----------------------------------------------------------------------------
(* E0-07: timing marks of audio frames. *)

FrameEvents == {"impulse", "capture", "queue", "tx_start", "rx", "playback"}

\* Per frame of the capture: its events with the time of their last mark.
FramesOf(c) ==
  [f \in {c.rows[i].frame : i \in DOMAIN c.rows} |->
     LET marks == {i \in DOMAIN c.rows : c.rows[i].frame = f}
     IN [e \in {c.rows[i].event : i \in marks} |->
           c.rows[Largest({i \in marks : c.rows[i].event = e})].time]]

\* The stages the analyzer measures, the last one from end to end.
Stages == {<<"impulse", "capture">>, <<"capture", "queue">>, <<"tx_start", "rx">>,
           <<"rx", "playback">>, <<"impulse", "playback">>}

Latency(frame, stage) == frame[stage[2]] - frame[stage[1]]

\* Frames that have every mark, and no stage that takes less than no time or
\* one that does.
CompleteFrames(frames) ==
  {f \in DOMAIN frames : FrameEvents \subseteq DOMAIN frames[f]
     /\ \A s \in Stages : Latency(frames[f], s) >= 0}

InvalidFrames(frames) ==
  {f \in DOMAIN frames : FrameEvents \subseteq DOMAIN frames[f]
     /\ \E s \in Stages : Latency(frames[f], s) < 0}

AnalyzeAudio(m, c) ==
  LET frames == FramesOf(c)
      complete == SetToSeq(CompleteFrames(frames))
      endToEnd == [i \in DOMAIN complete |->
                     Latency(frames[complete[i]], <<"impulse", "playback">>)]
  IN IF ~c.recognized \/ c.rows = <<>> THEN Crash
     ELSE Verdict(/\ Len(complete) >= m.samples
                  /\ InvalidFrames(frames) = {}
                  /\ complete # <<>>
                  /\ P95Times20(endToEnd) <= 20 * m.target
                  /\ \A i \in DOMAIN endToEnd : endToEnd[i] <= m.maximum)

-----------------------------------------------------------------------------

\* The example of a capture: one transmission where more are asked for,
\* placeholders for the counts, one frame.
CaptureTemplate(gate) ==
  CASE gate = "E0-03" ->
         [shape |-> "edge-list", recognized |-> TRUE,
          rows |-> <<[channel |-> "queue", value |-> "high", time |-> 0],
                     [channel |-> "queue", value |-> "low", time |-> 1],
                     [channel |-> "start", value |-> "high", time |-> 4],
                     [channel |-> "start", value |-> "low", time |-> 5]>>]
    [] gate = "E0-05" ->
         [steps |-> <<[requested |-> 200, transmitted |-> 200,
                       rx |-> Unreadable, ratio |-> Unreadable]>>]
    [] gate = "E0-07" ->
         [recognized |-> TRUE,
          rows |-> <<[frame |-> 1, event |-> "impulse", time |-> 0],
                     [frame |-> 1, event |-> "capture", time |-> 1],
                     [frame |-> 1, event |-> "queue", time |-> 3],
                     [frame |-> 1, event |-> "tx_start", time |-> 3],
                     [frame |-> 1, event |-> "rx", time |-> 6],
                     [frame |-> 1, event |-> "playback", time |-> 9]>>]

\* The analyzer that the readiness metadata m of a gate leads to.
Analyze(gate, m, files) ==
  CASE gate = "E0-03" -> AnalyzeGpio(m, files[1])
    [] gate = "E0-05" -> AnalyzeAttenuation(m, files)
    [] gate = "E0-07" -> AnalyzeAudio(m, files[1])

\* What the runner asks of the inputs before it starts the analyzer.
MeetsContract(gate, m, files) ==
  CASE gate = "E0-03" -> files[1].recognized /\ files[1].rows # <<>>
    [] gate = "E0-05" ->
         \A i \in DOMAIN files :
           /\ files[i].steps # <<>>
           /\ \A j \in DOMAIN files[i].steps :
                LET s == files[i].steps[j]
                IN /\ s.transmitted # Absent /\ s.rx # Absent
                   /\ s.transmitted >= m.samples
                   /\ s.requested # Absent => s.requested >= m.samples
    [] gate = "E0-07" -> files[1].recognized /\ files[1].rows # <<>>
=============================================================================
