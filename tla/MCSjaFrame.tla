----------------------------- MODULE MCSjaFrame -----------------------------
(* An instance of SjaFrame: identifiers with bits at both ends and around  *)
(* every register boundary of both formats, and bits beyond them; settings *)
(* that ask for parts of the identifier, and settings that ask for data.   *)
EXTENDS SjaFrame

MCIds == {{}, {0}, {2, 3}, {4, 5}, {7, 10}, {11, 12, 13}, {20, 21}, {28}, {29, 31},
          0 .. 28, 0 .. 10, {0, 7, 10, 28}}

MCBytes == {{}, {0, 7}}

MCFilters ==
  [id : {{}, {2, 3}, {0, 7, 10, 28}, 0 .. 28}, rtr : BOOLEAN, low : {{}},
   any : {{}, {2, 3}, 0 .. 10, 0 .. 28}, anyrtr : BOOLEAN, anylow : {0 .. 19}]
  \cup
  [id : {{2, 3}}, rtr : {FALSE}, low : {{}, {0, 7, 8, 15}, 0 .. 19},
   any : {{}, 0 .. 28}, anyrtr : BOOLEAN, anylow : {{}, 0 .. 15, {7, 8, 9}}]
=============================================================================
