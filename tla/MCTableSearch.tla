---------------------------- MODULE MCTableSearch ----------------------------
(* An instance of TableSearch for TLC.                                     *)
EXTENDS TableSearch

\* 2, 4 and 6 stand for 134, 174 and the other entries the search looks at;
\* 3 stands for 156 and 7 for an entry that is free without being looked at.
MCMarkers == {2, 4, 6}
MCNiEntries == {2, 3, 4, 6, 7}
MCCpus == {0, 1}

\* Tables of two entries, so 16 pages: a hole, four pages of image that may be two
\* large ones, and a page for modules right behind it.
MCImage == 6 .. 9
MCModuleArea == {10}

\* The table begins with a page, ends with one, is cut before, between and behind
\* the marked entries, or ends with the image.
MCPlaces == {48, 55, 61, 66, 71}
MCFillings == {Zero, Low, Odd, Datum}
=============================================================================
