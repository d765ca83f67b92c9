----------------------------- MODULE MCPublisher -----------------------------
(* Two publishers of the same two files, one of them the entrypoint as well,  *)
(* and the requests that package_job refuses.                                 *)
EXTENDS Publisher, TLC

CONSTANTS p1, p2

Declared(inputs) ==
    [inputs |-> inputs, inBlocks |-> TRUE, root |-> TRUE, pinned |-> TRUE, valid |-> TRUE]

MCRequests ==
    {Declared(<<1, 2>>), Declared(<<2, 1>>), Declared(<<2, 2>>), Declared(<<None>>),
     Declared(<<>>), [Declared(<<2>>) EXCEPT !.pinned = FALSE],
     [Declared(<<2>>) EXCEPT !.valid = FALSE]}

MCInitially == <<<<"a", "b">>, <<"b">>>>

MCContents == {<<"a">>, <<"a", "b">>, <<"b", "b", "a">>}

Publishing == Permutations(Publishers)
=============================================================================
