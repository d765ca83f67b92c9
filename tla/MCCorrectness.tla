---------------------------- MODULE MCCorrectness ----------------------------
(* Three families of inputs, each large in one respect: checkpoints, with    *)
(* repeated names and with odd levels below the first; tensors smaller and   *)
(* larger than the sample; and values around the tolerances, longer than the *)
(* precision.                                                                *)
EXTENDS Correctness

Target(kind, tensor, size) == [kind |-> kind, tensor |-> tensor, size |-> size]
Leaf(name, digest) == [name |-> name, digest |-> digest]

\* The leaves named 1..n; one of them changed; all of them in reverse.
Plain(n) == [i \in 1..n |-> Leaf(i, "a")]

MCLeaves ==
    UNION {[1..n -> {Leaf(m, d) : m \in 1..2, d \in {"a", "b"}}] : n \in 1..3}
        \cup {<<>>, Append(Plain(3), Leaf(3, "a")), Append(Plain(5), Leaf(5, "a")),
              Plain(5) \o <<Leaf(5, "a"), Leaf(5, "a"), Leaf(5, "a")>>, Reverse(Plain(5)),
              [Plain(6) EXCEPT ![6].digest = "b"], Plain(7)}
        \cup {Plain(n) : n \in 3..6}

Simple ==
    [checkpoint |-> 1, candidates |-> <<1>>, targets |-> <<Target(1, 1, 1), Target(2, 1, 1)>>,
     steps |-> 1, values |-> 1, expected |-> Plain(1), observed |-> Plain(1), pairs |-> {<<0, 0>>}]

Sampled ==
    [Simple EXCEPT !.checkpoint = 3, !.candidates = <<3, 1, 2>>, !.steps = 2, !.values = 2,
                   !.targets = <<Target(2, 1, 3), Target(1, 2, 1), Target(1, 1, 2)>>]

Numbers == {-104, -95, 0, 4, 5, 10, 95, 104, 105, 114, 115, 116, 120}

MCInputs ==
    {[Simple EXCEPT !.expected = e, !.observed = o] : e, o \in MCLeaves}
        \cup {Sampled, [Sampled EXCEPT !.candidates = <<3, 4, 2>>],
              [Sampled EXCEPT !.candidates = <<2, 2, 1>>], [Sampled EXCEPT !.values = 4],
              [Sampled EXCEPT !.targets = <<Target(1, 1, 2), Target(2, 1, 1), Target(1, 1, 3)>>]}
        \cup {[Simple EXCEPT !.pairs = Numbers \X Numbers]}

MCTolerances == <<[absolute |-> 5, relative |-> 0], [absolute |-> 0, relative |-> 1]>>
=============================================================================
