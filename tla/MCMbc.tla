------------------------------- MODULE MCMbc --------------------------------
(***************************************************************************)
(* Instance of Mbc: each controller with its largest ROM and with a small  *)
(* one, and data at the boundaries of each register.                       *)
(***************************************************************************)
EXTENDS Mbc, TLC

Sized(mbc, romBanks, ramBanks) ==
  [mbc |-> mbc, romBanks |-> romBanks, ramBanks |-> ramBanks]

Sizes == {Sized(0, 2, 0), Sized(1, 64, 4), Sized(1, 8, 1), Sized(2, 16, 0),
          Sized(3, 128, 4), Sized(3, 4, 1), Sized(5, 512, 2), Sized(5, 2, 1)}

Ram == (10 :> {7}) @@ (11 :> {7})
None == (0 :> {1}) @@ (4 :> {1}) @@ Ram
Mbc1Writes == (0 :> {0, 26}) @@ (3 :> {0, 40}) @@ (4 :> {1, 6})
              @@ (7 :> {0, 3}) @@ (12 :> {7}) @@ Ram
Mbc2Writes == (0 :> {0, 10, 26}) @@ (3 :> {0, 10, 19}) @@ (4 :> {10}) @@ Ram
Mbc3Writes == (0 :> {0, 26}) @@ (3 :> {128, 131}) @@ (4 :> {0, 2, 8, 12, 13})
              @@ (6 :> {0, 1}) @@ (8 :> {7}) @@ Ram
Mbc5Writes == (1 :> {0, 26}) @@ (2 :> {0, 255}) @@ (3 :> {0, 3})
              @@ (4 :> {0, 3}) @@ (5 :> {2}) @@ Ram
Writes == (0 :> None) @@ (1 :> Mbc1Writes) @@ (2 :> Mbc2Writes)
          @@ (3 :> Mbc3Writes) @@ (5 :> Mbc5Writes)
=============================================================================
