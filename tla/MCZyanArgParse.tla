--------------------------- MODULE MCZyanArgParse ---------------------------
(***************************************************************************)
(* Instances of ZyanArgParse for TLC.                                      *)
(***************************************************************************)
EXTENDS ZyanArgParse

CONSTANT MaxTokens            \* bound: tokens on a command line

\* "--", "--x", "--y", "-", "-b", "-n", "-bn", "-nb", "-bb", "v"
Tokens == {<<"-", "-">>, <<"-", "-", "x">>, <<"-", "-", "y">>, <<"-">>,
           <<"-", "b">>, <<"-", "n">>, <<"-", "b", "n">>, <<"-", "n", "b">>,
           <<"-", "b", "b">>, <<"v">>}

Def(name, boolean, required) ==
  [name |-> name, boolean |-> boolean, required |-> required]

Usages ==
  {<< >>,
   <<Def(<<"-", "b">>, TRUE, FALSE), Def(<<"-", "n">>, FALSE, TRUE)>>,
   <<Def(<<"-", "-", "x">>, FALSE, FALSE), Def(<<"-", "b">>, TRUE, TRUE)>>,
   <<Def(<<"-", "n">>, FALSE, FALSE), Def(<<"-", "-", "x">>, TRUE, TRUE),
     Def(<<"-", "n">>, TRUE, FALSE)>>,
   <<Def(<<"-", "b", "n">>, TRUE, FALSE)>>}

Lines == UNION {[1..n -> Tokens] : n \in 0..MaxTokens}

NoneToTwo == {<<0, 0>>, <<0, 2>>, <<1, 3>>, <<2, 1>>}
UpToTwo == {<<0, 2>>}
=============================================================================
