------------------------------ MODULE MCServices ------------------------------
(***************************************************************************)
(* What comes down the input's carriers when TLC runs HostServices: one    *)
(* packet of each kind with its fields at their ends, a packet of another  *)
(* version, one that was cut short, and no bytes at all.                   *)
(***************************************************************************)
EXTENDS HostServices

Pad == <<Long - 1, -Half, Half - 1, -1, 0, Word - 1, 1>>

Sample(kind, nums, keys, pad) ==
  [kind |-> kind, flags |-> 2, seq |-> Long - 1, at |-> Long + 3,
   nums |-> nums, keys |-> keys, pad |-> pad]

Samples ==
  {Sample(1, <<-Half, Half - 1, -1, 1>>, <<>>, <<>>), Sample(2, <<Word - 1>>, <<>>, <<>>),
   Sample(3, <<Base + 1, 1, 7>>, <<>>, <<>>), Sample(4, <<>>, <<>>, <<Pad>>),
   Sample(5, <<3, 2>>, <<>>, <<>>), Sample(5, <<3, 2>>, <<Base, 5>>, <<Pad>>),
   Sample(6, <<Base * Word, 1, Word - 1, 2>>, <<>>, <<>>)}

Broken ==
  {EncodePacket(Sample(2, <<1>>, <<>>, <<>>), 2),
   SubSeq(EncodePacket(Sample(5, <<3, 2>>, <<5>>, <<>>), 1), 1, HeaderLen + 7),
   <<>>}
==============================================================================
