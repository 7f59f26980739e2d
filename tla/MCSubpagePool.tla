---------------------------- MODULE MCSubpagePool ----------------------------
(***************************************************************************)
(* Model-checking instance of SubpagePool: subpages of 2 bytes, pages of  *)
(* 2 subpages and groups of 2 pages (4 subpages, threshold 3).  Blobs of  *)
(* 2 bytes fill one subpage; blobs of 3 bytes fill two, are counted as 3  *)
(* by bytes_to_subpages, and cross a page boundary when they start on the *)
(* second subpage of a page.  Two groups let the scan choose and the free *)
(* search land on the wrong entry.                                        *)
(***************************************************************************)
EXTENDS SubpagePool
=============================================================================
