----------------------------- MODULE MCPptToPdf -----------------------------
(* The converter on small instances: the order of the collected files. *)
EXTENDS PptToPdf

CONSTANTS pptx, ppt
MCOrder == <<ppt, pptx>>
=============================================================================
