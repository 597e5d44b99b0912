---------------------------- MODULE MCPdfExport ----------------------------
(***************************************************************************)
(* Two requests and one slot, over and over; a page with a subresource.    *)
(***************************************************************************)
EXTENDS PdfExport

CONSTANTS r1, r2
============================================================================
