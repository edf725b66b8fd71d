------------------------------ MODULE MCViews ------------------------------
(* A small instance of every view; Views.cfg gives the parameters.         *)
EXTENDS Views, MCReviewPipeline

=============================================================================
