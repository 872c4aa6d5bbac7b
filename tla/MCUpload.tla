------------------------------ MODULE MCUpload ------------------------------
(***************************************************************************)
(* Small instances of the upload processing.                               *)
(***************************************************************************)
EXTENDS Upload

CONSTANTS form1, ftp1, ftp2, alien, stray   \* names of uploads
CONSTANTS part1, part2, part3, odd    \* names of netCDF files
CONSTANTS owned, orphan, unlisted     \* datasets

MCDatasets == {owned, orphan, unlisted}
MCDatasetOf ==
    [u \in Names |-> CASE u = alien -> orphan [] u = stray -> unlisted [] OTHER -> owned]

Content(of, no, form, parts, bad, flawed) ==
    [of |-> of, no |-> no, form |-> form, parts |-> parts, bad |-> bad, flawed |-> flawed]

MCContents ==
    {Content(form1, 1, "plain", {part3}, {}, {}),
     Content(form1, 2, "tar", {part1, part2}, {part2}, {}),
     Content(form1, 3, "gzip", {part3}, {}, {part3}),
     Content(ftp1, 4, "plain", {part3}, {}, {}),
     Content(ftp2, 5, "tar", {part2, part3, odd}, {}, {}),
     Content(ftp2, 6, "broken", {part2}, {}, {}),
     Content(alien, 7, "plain", {part3}, {}, {}),
     Content(stray, 8, "plain", {part3}, {}, {}),
     Content(ftp1, 9, "gzip", {part3}, {part3}, {})}
=============================================================================
