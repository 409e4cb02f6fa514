---- MODULE MC_PrototypeStatus ----
(* PrototypeStatus for TLC: two samples where the program asks for 10 to 200,    *)
(* times of one digit.                                                       *)
EXTENDS PrototypeStatus

MCMinimum == [g \in Gates |-> IF g = "E0-05" THEN 100 ELSE 2]
MCRequired == [g \in Gates |-> {"setup"}]

Metadata(samples, target, maximum, inputs) ==
  [wrapped |-> FALSE, filled |-> {"setup"}, samples |-> samples,
   target |-> target, maximum |-> maximum, inputs |-> inputs]

MCDefault ==
  ("E0-03" :> Metadata(2, 0, 0, <<"gpio">>))
  @@ ("E0-05" :> Metadata(100, 0, 0, <<"baseline", "step">>))
  @@ ("E0-07" :> Metadata(2, 3, 4, <<"audio">>))

MCOtherFills ==
  ("E0-03" :> {Metadata(3, 0, 0, <<"gpio">>)})
  @@ ("E0-05" :> {Metadata(100, 0, 0, <<"step", "baseline">>)})
  @@ ("E0-07" :> {Metadata(2, 1, 1, <<"audio">>)})

\* E0-03: a list of rising edges, a list of edges, a table of samples.
Row(ch, v, t) == [channel |-> ch, value |-> v, time |-> t]
EdgeList(rows) == [shape |-> "edge-list", recognized |-> TRUE, rows |-> rows]
Interleaved(queue, start) ==
  FlattenSeq([i \in 1 .. 6 |->
    (IF i - 1 \in queue THEN <<Row("queue", "none", i - 1)>> ELSE <<>>)
    \o (IF i - 1 \in start THEN <<Row("start", "none", i - 1)>> ELSE <<>>)])
Table(levels) ==
  [shape |-> "table", recognized |-> TRUE,
   rows |-> [t \in DOMAIN levels |->
     [time |-> t, queue |-> levels[t][1], start |-> levels[t][2]]]]
Pulses == <<Row("queue", "high", 1), Row("queue", "low", 2), Row("start", "high", 2),
            Row("queue", "high", 3), Row("start", "low", 3), Row("start", "high", 4)>>

\* E0-05: one summary, or several, in a file.
Step(sent, rx) == [requested |-> sent, transmitted |-> sent, rx |-> rx, ratio |-> Absent]
Summaries(steps) == [steps |-> steps]

\* E0-07: two or three frames with marks at these delays.
Marks(f, times) ==
  [i \in DOMAIN times |->
     [frame |-> f, event |-> <<"impulse", "capture", "queue", "tx_start", "rx",
                               "playback">>[i], time |-> times[i]]]
Frames(rows) == [recognized |-> TRUE, rows |-> rows]

MCGood ==
  ("E0-03" :> ("gpio" :> EdgeList(Interleaved({0, 2, 4}, {1, 3, 5}))))
  @@ ("E0-05" :> (("baseline" :> Summaries(<<Step(100, 100)>>))
                  @@ ("step" :> Summaries(<<Step(100, 99)>>))))
  @@ ("E0-07" :> ("audio" :> Frames(Marks(1, <<0, 0, 0, 0, 1, 1>>)
                                            \o Marks(2, <<3, 3, 3, 4, 4, 4>>))))

MCMeasured ==
  ("E0-03" :> {EdgeList(Interleaved({1, 3}, {0, 2})), MCGood["E0-03"]["gpio"]})
  @@ ("E0-05" :> {Summaries(<<Step(100, 100), Step(100, 90)>>),
                          Summaries(<<Step(100, 90)>>)})
  @@ ("E0-07" :> {Frames(Marks(1, <<0, 0, 0, 0, 9, 9>>)), MCGood["E0-07"]["audio"]})

Stuff == SUBSET (0 .. 3)
MCSpecimens ==
  ("E0-03" :> {("gpio" :> EdgeList(Interleaved(q, s))) : q \in Stuff, s \in Stuff}
            \cup {("gpio" :> Table(l)) : l \in [1 .. 4 -> BOOLEAN \X BOOLEAN]}
            \cup {("gpio" :> EdgeList(Pulses)),
                  ("gpio" :> [Table(<<>>) EXCEPT !.recognized = FALSE])})
  @@ ("E0-05" :> {("baseline" :> Summaries(b)) @@ ("step" :> Summaries(s)) :
               b \in {<<>>, <<Step(100, 100)>>, <<Step(100, 99)>>, <<Step(99, 90)>>},
               s \in {<<Step(n, r)>> : n \in {Absent, 0, 100, 200},
                                       r \in {Absent, Unreadable, 0, 99, 100, 198, 199, 200}}
                     \cup {<<[Step(100, 90) EXCEPT !.ratio = r]>> : r \in {99, 100}}
                     \cup {<<[Step(100, 90) EXCEPT !.requested = r]>> : r \in {Absent, 99}}
                     \cup {<<Step(100, 90), Step(100, 90)>>}})
  @@ ("E0-07" :> {("audio" :> Frames(Marks(1, <<0, a, b, c, d, e>>)
                                \o Marks(2, <<1, 1, 2, 1, 1, f>>) \o last)) :
               a \in {0, 1}, b \in {0, 1}, c \in {0, 2}, d \in {1, 2}, e \in {2, 3, 4, 5},
               f \in {1, 4, 5},
               last \in {<<>>, SubSeq(Marks(3, <<0, 9, 9, 9, 9, 9>>), 1, 3),
                         Marks(2, <<1, 1, 2, 1, 1, 4>>), Marks(3, <<0, 0, 0, 0, 0, 3>>)}})
====
