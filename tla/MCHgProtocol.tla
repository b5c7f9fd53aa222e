---------------------------- MODULE MCHgProtocol -----------------------------
(* Constants for TLC.  The data of the frames looks like channels and       *)
(* headers, so that a reader which loses its place misreads it.  Lengths    *)
(* have two digits: Radix is 2.                                             *)
EXTENDS HgProtocol

Frame(channel, data) == [channel |-> channel, data |-> data, size |-> 0]
Result(code) == Frame(r, ToBigEndian(code))
Required(channel, size) == [channel |-> channel, data |-> <<>>, size |-> size]

MCHellos == {<<OtherField, PidField>>, <<PidField, NoColon>>}

MCCommands == {<<<<7>>>>, <<<<7>>, <<>>, <<8, 9>>>>}

MCAnswers ==
  {<<Result(0)>>,
   <<Frame(o, <<r, 0>>), Frame(e, <<L>>), Frame(o, <<>>), Result(5)>>,
   <<Frame(d, <<I, 0, 0>>), Frame(120, <<o>>), Result(1)>>,
   <<Frame(o, <<r>>), Required(I, 3)>>,
   <<Frame(e, <<0>>), Required(L, 1)>>,
   <<Required(90, 0)>>}

=============================================================================
