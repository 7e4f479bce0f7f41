------------------------------ MODULE MCSearch ------------------------------
(* Four md5s, page sizes 1 and 2, two positive ranks and every rounding of *)
(* them: ties longer than a page, equal to a page and across its end.      *)
EXTENDS Search

MCMd5s == 1 .. 4
=============================================================================
