------------------------------- MODULE MCQuotes -------------------------------
(* A small instance of Quotes for TLC.                                     *)
EXTENDS Quotes

=============================================================================
