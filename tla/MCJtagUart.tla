----------------------------- MODULE MCJtagUart -----------------------------
(* Rings of two slots (one usable) over FIFOs of one character, with and
   without a system clock; reads and writes of up to two characters, so every
   one of them fills a ring, wraps it, and is cut short. *)
EXTENDS JtagUart
=============================================================================
