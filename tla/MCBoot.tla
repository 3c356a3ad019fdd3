------------------------------- MODULE MCBoot -------------------------------
(***************************************************************************)
(* Small programs and files for the boot ROM (BootRom), for model checking.*)
(***************************************************************************)
EXTENDS BootRom

\* Files with 16-bit addresses, of which one has a count and adjacent records, where the
\* first one's last words reach into the second; one with 32 and one with 24 bits; one
\* with a checksum that is that of the record without it.
Rec(t, a, bytes) == [type |-> t, address |-> a, data |-> bytes]
Header == Rec(0, 0, <<>>)
SampleFiles == {
  <<Rec(1, 2, <<18, 52>>), Rec(9, 2, <<>>)>>,
  <<Header, Rec(1, 1, <<18, 0, 171>>), Rec(1, 4, <<205>>), Rec(5, 2, <<>>), Rec(9, 4, <<>>)>>,
  <<Header, Rec(3, 3, <<255, 254, 253>>), Rec(3, 8, <<1>>), Rec(7, 3, <<>>)>>,
  <<Header, Rec(2, 7, <<1, 16>>), Rec(8, 7, <<>>)>>,
  <<Header, Rec(1, 5, <<247>>), Rec(9, 5, <<>>)>> }
=============================================================================
