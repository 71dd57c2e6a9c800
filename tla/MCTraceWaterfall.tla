-------------------------- MODULE MCTraceWaterfall --------------------------
(***************************************************************************)
(* Answers of one TRACE tool in three families, each rich in what one part  *)
(* of the code looks at, and a few of a second tool.                        *)
(***************************************************************************)
EXTENDS TraceWaterfall

Span(i, parent, start, duration, flag) ==
  [id |-> i, plain |-> TRUE, parent |-> parent, start |-> start, duration |-> duration,
   error |-> flag \in {"error", "hit"}, critical |-> flag \in {"critical", "hit"}]
Trace(i, duration, spans) ==
  [id |-> i, plain |-> TRUE, anomaly |-> 0, match |-> 0, duration |-> duration, spans |-> spans]

\* Any parents of three spans, missing and circular ones too, an id given
\* twice, and times about the end of the trace.
Shapes ==
  {<<Trace(1, declared, <<Span(1, p[1], 0, 1, "ok"), Span(2, p[2], 0, 1, "ok"),
                          Span(third, p[3], start, 1, "ok")>>)>> :
     p \in [1..3 -> 0..4], third \in 2..3, start \in 0..2, declared \in {NoDuration, 1}}

\* Every tree of four spans below span 1 (and some circles), with errors and
\* critical spans, three orders of the starts, and with or without an odd id.
Trees4 == {p \in [1..4 -> 0..4] : p[1] = 0 /\ p[2] \in {1, 3, 4}
                                  /\ p[3] \in {1, 2, 4} /\ p[4] \in {1, 2, 3}}
Cuts ==
  {<<Trace(1, NoDuration,
           <<Span(1, p[1], start[1], 1, flag[1]), Span(2, p[2], start[2], 1, flag[2]),
             Span(3, p[3], start[3], 1, flag[3]),
             [Span(4, p[4], start[4], 1, flag[4]) EXCEPT !.plain = ~odd]>>)>> :
     p \in Trees4, flag \in [1..4 -> {"ok", "error", "critical"}],
     start \in {<<0, 1, 2, 3>>, <<0, 3, 2, 1>>, <<0, 0, 0, 0>>}, odd \in BOOLEAN}

\* Two traces that differ in what ranks them, one of them with an odd id.
Ranked ==
  {[Trace(i, d, <<Span(1, 0, 0, 1, f[1]), Span(2, 1, 0, 1, f[2])>>)
      EXCEPT !.anomaly = a, !.match = m, !.plain = i # 3] :
     i \in 2..3, d \in 1..2, a \in 0..1, m \in 0..1,
     f \in {<<"ok", "ok">>, <<"error", "ok">>, <<"ok", "error">>, <<"critical", "hit">>}}
Rankings == {<<a, b>> : a, b \in Ranked}

Answers == Shapes \cup Cuts \cup Rankings

MCPayloads ==
  <<Answers,
    {<<>>, <<Trace(4, 1, <<Span(1, 0, 0, 1, "ok")>>)>>}>>
=============================================================================
