----------------------------- MODULE MCSendPath -----------------------------
(***************************************************************************)
(* SendPath for TLC.  A folder nobody has, and folders with items that fit *)
(* a packet, that fill packets and that leave a rest; assets with nothing, *)
(* of one piece, of pieces that are full, of a rest, and one missing.      *)
(***************************************************************************)
EXTENDS SendPath

TheFolders ==
  <<[folders |-> <<2>>, items |-> <<0>>],
    [folders |-> <<0, 3>>, items |-> <<0, 0, 1, 0>>],
    [folders |-> <<>>, items |-> <<3, 2, 1>>]>>

FewFolders == [b \in Byte |-> IF b = 0 THEN NotFound ELSE TheFolders[b]]

FewAssets ==
  [b \in Byte |-> CASE b = 0 -> <<>> [] b = 1 -> <<1, 0>> [] b = 2 -> <<0, 0, 1, 2, 3>> [] OTHER -> NotFound]

\* What the theorems about answers assume of Folders and Assets.
ASSUME SmallAnswersFit == AnswersFit
=============================================================================
