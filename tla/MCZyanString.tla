---------------------------- MODULE MCZyanString ----------------------------
(***************************************************************************)
(* Instances of ZyanFormat and ZyanStringSearch, and with them of the one  *)
(* string of ZyanString, for TLC.                                          *)
(***************************************************************************)
EXTENDS ZyanFormat, ZyanStringSearch

\* nothing, "a" and "Aa", by three of the calls that make views
Texts == {ViewInsideBuffer(<<NUL>>),
          ViewInsideBufferEx(<<97, NUL>>, 1),
          ViewInsideView(ViewInsideBuffer(<<65, 97, NUL>>))}

OfOne == {NoText, <<97>>}

LetterA == {97}
Minus == -1
DecSamples == {Minus, 10, 100}
HexSamples == {0, Minus, 26}
NoneOrOne == {NoPrefix, ViewInsideBuffer(<<97, NUL>>)}
=============================================================================
