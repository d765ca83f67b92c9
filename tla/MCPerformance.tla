---------------------------- MODULE MCPerformance ----------------------------
(* Runs of up to four intervals on a clock of five ticks, of up to three      *)
(* steps, with every order, gap and overlap; a wrong batch count, and         *)
(* intervals that are out of sequence, not synchronized or not complete.      *)
EXTENDS Performance

CONSTANTS MaxTime, MaxStep

Spans == {<<s, e>> \in (0..MaxTime) \X (0..MaxTime) : s < e}
StepRanges == {<<f, l>> \in (1..MaxStep) \X (1..MaxStep) : f <= l}

Make(phase, span, steps, batches) ==
    [phase |-> phase, start |-> span[1], end |-> span[2], first |-> steps[1],
     last |-> steps[2], batches |-> batches, inSequence |-> TRUE,
     synchronized |-> TRUE, complete |-> TRUE]

Honest(phase, span, steps) ==
    Make(phase, span, steps, (steps[2] - steps[1] + 1) * BatchesPerStep)

MCRuns ==
    {[fetch |-> 0, setup |-> 0, observed |-> 4], [fetch |-> 1, setup |-> 0, observed |-> 6],
     [fetch |-> 1, setup |-> 1, observed |-> 6], [fetch |-> 0, setup |-> 0, observed |-> 7]}

Example == Honest("active", <<0, 1>>, <<1, 1>>)

MCIntervals ==
    {Honest(p, s, r) : p \in {"warmup", "active"}, s \in Spans, r \in StepRanges}
        \cup {Make("checkpoint", s, <<0, 0>>, 0) : s \in Spans}
        \cup {[Example EXCEPT !.inSequence = FALSE], [Example EXCEPT !.synchronized = FALSE],
              [Example EXCEPT !.complete = FALSE], [Example EXCEPT !.batches = @ + 1]}

=============================================================================
